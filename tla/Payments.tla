------------------------------ MODULE Payments ------------------------------
(***************************************************************************)
(* Onboarding payments: an admin creates payment links, the client pays    *)
(* them at Razorpay, and a payment is settled by Razorpay's webhook, by an *)
(* admin by hand or through the older payment webhook.  To settle is a     *)
(* chain of separate writes: the row becomes PAID, the company goes from   *)
(* PAYMENT_PENDING over PAYMENT_CONFIRMED to KYC_IN_PROGRESS, the invoice  *)
(* is numbered and inserted.  Nothing holds a lock or a transaction across *)
(* two of them, and several chains run at once.                            *)
(***************************************************************************)
EXTENDS OnboardingStages, Sequences, FiniteSets, FiniteSetsExt, Functions

CONSTANTS
  Company,    \* companies (client profiles)
  Payment,    \* calls of create; each makes at most one link, and its row
  CompanyOf,  \* the company of each of them
  Task,       \* requests that settle a payment
  Kind,       \* ... what each of them is
  About,      \* ... the payment link it is about
  Notes,      \* ... the deliveries whose payload names the company
  Patch,      \* admin requests that set a stage
  Asked,      \* bound: the stages they ask for
  Unpadded,   \* the first invoice number longer than its padding: 10000
  MaxCrashes, \* bound: restarts of the process
  None        \* no row, no id, no number

\* razorpay: webhooks/razorpay; admin: mark-paid; legacy: payments/webhook
\* with a payment id; lookup: payments/webhook without one.
Kinds == {"razorpay", "admin", "legacy", "lookup"}

ASSUME PaymentsAssumption ==
  /\ CompanyOf \in [Payment -> Company]
  /\ Kind \in [Task -> Kinds]
  /\ About \in [Task -> Payment]
  /\ Notes \subseteq Task
  /\ Asked \subseteq Stage
  /\ Unpadded \in Nat \ {0}
  /\ MaxCrashes \in Nat
  /\ None \notin Payment \cup Nat \cup Stage \cup Company

VARIABLES
  stage,      \* onboardingStage of a company
  cpc, seen,  \* of a create call: the step, and the stage it read
  rows,       \* the rows of the payments table, oldest first
  paid,       \* the rows whose status is PAID; the others are CREATED
  provider,   \* providerPaymentId of a row: the link that was paid, or None
  charged,    \* links the client has paid
  pc,         \* of a task: the step
  row,        \* ... the row it has found
  number,     \* ... the invoice number it has drawn
  invoices,   \* <<number, row>> of every invoice
  target,     \* of a stage request: the company and the stage it will write
  crashes,    \* restarts so far
  byHand,     \* history: companies whose stage an admin has set
  overlapped  \* history: links whose deliveries searched for a row at once

vars == <<stage, cpc, seen, rows, paid, provider, charged, pc, row, number,
          invoices, target, crashes, byHand, overlapped>>

createVars  == <<cpc, seen, rows>>
paymentVars == <<paid, provider, overlapped>>
patchVars   == <<target, byHand>>
taskVars    == <<pc, row, number>>

CreateStep == {"start", "link", "row", "stage", "staging", "done", "orphan",
               "refused"}
TaskStep   == {"idle", "find", "match", "mark", "assert", "confirm",
               "confirming", "open", "opening", "invoice", "number", "insert",
               "done", "refused", "dead"}
StageSteps == {"assert", "confirm", "confirming", "open", "opening"}
TaskOpen   == {t \in Task : pc[t] \notin {"idle", "done", "refused", "dead"}}

\* The type invariant.
TypeOK ==
  /\ stage \in [Company -> Stage]
  /\ cpc \in [Payment -> CreateStep]
  /\ seen \in [Payment -> Stage \cup {None}]
  /\ rows \in Seq(Payment)
  /\ paid \subseteq Payment
  /\ provider \in [Payment -> Payment \cup {None}]
  /\ charged \subseteq Payment
  /\ pc \in [Task -> TaskStep]
  /\ row \in [Task -> Payment \cup {None}]
  /\ \A t \in Task : row[t] = None =>
       /\ pc[t] \notin {"mark", "invoice", "number", "insert"}
       /\ pc[t] \in StageSteps => Kind[t] = "lookup"
  /\ number \in [Task -> Nat \cup {None}]
  /\ \A t \in Task : pc[t] = "insert" => number[t] \in Nat
  /\ invoices \subseteq Nat \X Payment
  /\ target \in [Patch -> (Company \X Stage) \cup {None}]
  /\ crashes \in 0..MaxCrashes
  /\ byHand \subseteq Company
  /\ overlapped \subseteq Payment

Init ==
  /\ stage = [c \in Company |-> "ADMIN_CREATED"]
  /\ cpc = [p \in Payment |-> "start"]
  /\ seen = [p \in Payment |-> None]
  /\ rows = <<>>
  /\ paid = {}
  /\ provider = [p \in Payment |-> None]
  /\ charged = {}
  /\ pc = [t \in Task |-> "idle"]
  /\ row = [t \in Task |-> None]
  /\ number = [t \in Task |-> None]
  /\ invoices = {}
  /\ target = [a \in Patch |-> None]
  /\ crashes = 0
  /\ byHand = {}
  /\ overlapped = {}

-----------------------------------------------------------------------------
(* Rows.                                                                    *)

Exists(p) == p \in Range(rows)

\* The row that findFirst with orderBy createdAt desc returns, or None.
Latest(S) ==
  LET hits == {i \in DOMAIN rows : rows[i] \in S} IN
  IF hits = {} THEN None ELSE rows[Max(hits)]

CreatedOf(c) == {p \in Payment : CompanyOf[p] = c} \ paid
Settled(p)   == {q \in Payment : provider[q] = p}

\* The company a task moves on.
CompanyFor(t) == CompanyOf[IF row[t] = None THEN About[t] ELSE row[t]]

\* onboardingService.updateStage writes the stage it validated earlier.
SetStage(c, s) == stage' = [stage EXCEPT ![c] = s]

-----------------------------------------------------------------------------
(* PaymentsService.create.                                                  *)

CreateGoto(p, step) == cpc' = [cpc EXCEPT ![p] = step]

\* The stage is read once; a link is made for ADMIN_CREATED and
\* PAYMENT_PENDING companies only.
BeginCreate(p) ==
  LET s == stage[CompanyOf[p]] IN
  /\ cpc[p] = "start"
  /\ seen' = [seen EXCEPT ![p] = s]
  /\ CreateGoto(p, IF s \in {"ADMIN_CREATED", "PAYMENT_PENDING"} THEN "link"
                   ELSE "refused")
  /\ UNCHANGED <<stage, rows, paymentVars, charged, taskVars, invoices,
                 patchVars, crashes>>

\* razorpayService.createPaymentLink; Razorpay itself notifies the client.
CreateLink(p) ==
  /\ cpc[p] = "link"
  /\ CreateGoto(p, "row") \/ CreateGoto(p, "refused")
  /\ UNCHANGED <<stage, seen, rows, paymentVars, charged, taskVars, invoices,
                 patchVars, crashes>>

\* payment.create; when it throws the link stays without a row.
CreateRow(p) ==
  /\ cpc[p] = "row"
  /\ \/ /\ rows' = Append(rows, p)
        /\ CreateGoto(p, IF seen[p] = "ADMIN_CREATED" THEN "stage" ELSE "done")
     \/ /\ CreateGoto(p, "orphan")
        /\ UNCHANGED rows
  /\ UNCHANGED <<stage, seen, paymentVars, charged, taskVars, invoices,
                 patchVars, crashes>>

\* updateStage(PAYMENT_PENDING): read and validate; a failure is swallowed.
CreateReadsStage(p) ==
  /\ cpc[p] = "stage"
  /\ CreateGoto(p, IF CanTransition(stage[CompanyOf[p]], "PAYMENT_PENDING")
                   THEN "staging" ELSE "done")
  /\ UNCHANGED <<stage, seen, rows, paymentVars, charged, taskVars, invoices,
                 patchVars, crashes>>

CreateWritesStage(p) ==
  /\ cpc[p] = "staging"
  /\ CreateGoto(p, "done")
  /\ SetStage(CompanyOf[p], "PAYMENT_PENDING")
  /\ UNCHANGED <<seen, rows, paymentVars, charged, taskVars, invoices,
                 patchVars, crashes>>

\* The client pays a link it was sent; a link can be paid once.
Charge(p) ==
  /\ cpc[p] \in {"row", "stage", "staging", "done", "orphan"}
  /\ p \notin charged
  /\ charged' = charged \cup {p}
  /\ UNCHANGED <<stage, createVars, paymentVars, taskVars, invoices, patchVars,
                 crashes>>

-----------------------------------------------------------------------------
(* Finding the row to settle.                                               *)

Goto(t, step) == pc' = [pc EXCEPT ![t] = step]

\* razorpayWebhook: the signature is good and the event is one it handles.
\* An answer other than 200, or none, is delivered again.
Deliver(t) ==
  /\ Kind[t] = "razorpay"
  /\ pc[t] \in {"idle", "refused", "dead"}
  /\ About[t] \in charged
  /\ Goto(t, "find")
  /\ row' = [row EXCEPT ![t] = None]
  /\ UNCHANGED <<stage, createVars, paymentVars, charged, number, invoices,
                 patchVars, crashes>>

FindByProviderAnyStatus(t) == \* a slip: the PAID row is not looked for
  /\ pc[t] = "find"
  /\ Goto(t, "match")
  /\ UNCHANGED <<stage, createVars, paymentVars, charged, row, number,
                 invoices, patchVars, crashes>>

\* findByProviderPaymentId: an id is stored together with PAID, so the row it
\* finds answers 'Already processed'.
FindByProvider(t) ==
  /\ pc[t] = "find"
  /\ Goto(t, IF Latest(Settled(About[t])) # None THEN "done" ELSE "match")
  /\ UNCHANGED <<stage, createVars, paymentVars, charged, row, number,
                 invoices, patchVars, crashes>>

MatchPaymentAnswersOK(t) == \* a slip: 200 where no payment matches
  LET p     == About[t]
      mine  == Latest({p} \ paid)
      found == IF t \notin Notes /\ mine # None THEN mine
               ELSE Latest(CreatedOf(CompanyOf[p]))
  IN
  /\ pc[t] = "match"
  /\ Goto(t, IF found = None THEN "done" ELSE "mark")
  /\ row' = [row EXCEPT ![t] = found]
  /\ UNCHANGED <<stage, createVars, paymentVars, charged, number, invoices,
                 patchVars, crashes>>

MatchPaymentMarksAny(t) == \* a slip: no return when nothing is found
  /\ pc[t] = "match"
  /\ Goto(t, "mark")
  /\ row' = [row EXCEPT ![t] = Latest(CreatedOf(CompanyOf[About[t]]))]
  /\ UNCHANGED <<stage, createVars, paymentVars, charged, number, invoices,
                 patchVars, crashes>>

\* With the company in the payload's notes the latest CREATED row of that
\* company is taken, whichever link was paid.  Without it the row of the link
\* is, and the company's latest CREATED row only when that is not CREATED;
\* None is the 400 'No matching payment found'.
MatchPayment(t) ==
  LET p     == About[t]
      mine  == Latest({p} \ paid)
      found == IF t \notin Notes /\ mine # None THEN mine
               ELSE Latest(CreatedOf(CompanyOf[p]))
  IN
  /\ pc[t] = "match"
  /\ Goto(t, IF found = None THEN "refused" ELSE "mark")
  /\ row' = [row EXCEPT ![t] = found]
  /\ UNCHANGED <<stage, createVars, paymentVars, charged, number, invoices,
                 patchVars, crashes>>

\* Without notes the payload may not name the link, and asking Razorpay's API
\* for it may fail.
MatchFails(t) ==
  /\ pc[t] = "match"
  /\ t \notin Notes
  /\ Goto(t, "refused")
  /\ UNCHANGED <<stage, createVars, paymentVars, charged, row, number,
                 invoices, patchVars, crashes>>

\* AdminPaymentsController.markAsPaid reads the row; PAID is left alone.
MarkByHand(t) ==
  /\ Kind[t] = "admin"
  /\ pc[t] = "idle"
  /\ Exists(About[t])
  /\ row' = [row EXCEPT ![t] = About[t]]
  /\ Goto(t, IF About[t] \in paid THEN "done" ELSE "mark")
  /\ UNCHANGED <<stage, createVars, paymentVars, charged, number, invoices,
                 patchVars, crashes>>

\* PaymentsController.paymentWebhook with a payment id: the row's status is
\* not looked at.
PaymentWebhook(t) ==
  /\ Kind[t] = "legacy"
  /\ pc[t] = "idle"
  /\ About[t] \in charged
  /\ Exists(About[t])
  /\ row' = [row EXCEPT ![t] = About[t]]
  /\ Goto(t, "mark")
  /\ UNCHANGED <<stage, createVars, paymentVars, charged, number, invoices,
                 patchVars, crashes>>

\* Without one, findByCompanyAndProvider looks for it, and not finding it
\* does not stop the request.
PaymentWebhookLookup(t) ==
  LET found == Latest(Settled(About[t])) IN
  /\ Kind[t] = "lookup"
  /\ pc[t] = "idle"
  /\ About[t] \in charged
  /\ row' = [row EXCEPT ![t] = found]
  /\ Goto(t, IF found = None THEN "assert" ELSE "mark")
  /\ UNCHANGED <<stage, createVars, paymentVars, charged, number, invoices,
                 patchVars, crashes>>

-----------------------------------------------------------------------------
(* Settling it.                                                             *)

\* Other tasks that are about to store the same Razorpay id.
Searching(t) ==
  {u \in Task \ {t} : /\ Kind[u] # "admin" /\ About[u] = About[t]
                      /\ pc[u] \in {"match", "mark"}}

RecordOverlap(t) ==
  overlapped' = IF Searching(t) = {} THEN overlapped ELSE overlapped \cup {About[t]}

MarkAsPaidByRow(t) == \* a slip: the row's own link is written as the one paid
  /\ pc[t] = "mark"
  /\ paid' = paid \cup {row[t]}
  /\ provider' = IF Kind[t] = "admin" THEN provider
                 ELSE [provider EXCEPT ![row[t]] = row[t]]
  /\ RecordOverlap(t)
  /\ Goto(t, "assert")
  /\ UNCHANGED <<stage, createVars, charged, row, number, invoices, patchVars,
                 crashes>>

MarkAsPaidKeepsStatus(t) == \* a slip: status is not among the data written
  /\ pc[t] = "mark"
  /\ paid' = paid
  /\ provider' = IF Kind[t] = "admin" THEN provider
                 ELSE [provider EXCEPT ![row[t]] = About[t]]
  /\ RecordOverlap(t)
  /\ Goto(t, "assert")
  /\ UNCHANGED <<stage, createVars, charged, row, number, invoices, patchVars,
                 crashes>>

\* paymentsService.markAsPaid: an update by id that looks at no status; an
\* admin's carries no Razorpay id.
MarkAsPaid(t) ==
  /\ pc[t] = "mark"
  /\ paid' = paid \cup {row[t]}
  /\ provider' = IF Kind[t] = "admin" THEN provider
                 ELSE [provider EXCEPT ![row[t]] = About[t]]
  /\ RecordOverlap(t)
  /\ Goto(t, "assert")
  /\ UNCHANGED <<stage, createVars, charged, row, number, invoices, patchVars,
                 crashes>>

\* Where a task goes once the stage is set, or its update threw: the older
\* webhook then answers 400 and makes no invoice, the others swallow it.
AfterStage(t)      == IF row[t] = None THEN "done" ELSE "invoice"
AfterStageFails(t) == IF Kind[t] \in {"legacy", "lookup"} THEN "done"
                      ELSE "invoice"

\* A read of onPaymentConfirmed or of the updateStage it calls: the step is
\* taken if the stage allows it, or else throws.
StageRead(t, step, allowed, then) ==
  /\ pc[t] = step
  /\ Goto(t, IF allowed THEN then ELSE AfterStageFails(t))
  /\ UNCHANGED <<stage, createVars, paymentVars, charged, row, number,
                 invoices, patchVars, crashes>>

StageWrite(t, step, s, then) ==
  /\ pc[t] = step
  /\ SetStage(CompanyFor(t), s)
  /\ Goto(t, then)
  /\ UNCHANGED <<createVars, paymentVars, charged, row, number, invoices,
                 patchVars, crashes>>

AssertPaymentPending(t) ==
  StageRead(t, "assert", stage[CompanyFor(t)] = "PAYMENT_PENDING", "confirm")
ReadForConfirmed(t) ==
  StageRead(t, "confirm",
            CanTransition(stage[CompanyFor(t)], "PAYMENT_CONFIRMED"), "confirming")
WriteConfirmed(t) == StageWrite(t, "confirming", "PAYMENT_CONFIRMED", "open")
ReadForKyc(t) ==
  StageRead(t, "open",
            CanTransition(stage[CompanyFor(t)], "KYC_IN_PROGRESS"), "opening")
WriteKyc(t) == StageWrite(t, "opening", "KYC_IN_PROGRESS", AfterStage(t))

\* onPaymentConfirmed.
OnPaymentConfirmed(t) ==
  \/ AssertPaymentPending(t) \/ ReadForConfirmed(t) \/ WriteConfirmed(t)
  \/ ReadForKyc(t) \/ WriteKyc(t)

-----------------------------------------------------------------------------
(* generateInvoiceForPayment.                                               *)

CheckInvoice(t) ==
  /\ pc[t] = "invoice"
  /\ Goto(t, IF \/ \E i \in invoices : i[2] = row[t]
                \/ row[t] \notin paid
             THEN "done" ELSE "number")
  /\ UNCHANGED <<stage, createVars, paymentVars, charged, row, number,
                 invoices, patchVars, crashes>>

NextNumberByPayments == Cardinality(paid) \* a slip: a count of payments

\* generateInvoiceNumber: one more than the last number of the year.  The
\* database orders the numbers as strings, so 9999 stays last after 10000.
NextNumber ==
  LET highest == Max({i[1] : i \in invoices} \cup {0}) IN
  (IF highest < Unpadded THEN highest ELSE Unpadded - 1) + 1

DrawNumber(t) ==
  /\ pc[t] = "number"
  /\ number' = [number EXCEPT ![t] = NextNumber]
  /\ Goto(t, "insert")
  /\ UNCHANGED <<stage, createVars, paymentVars, charged, row, invoices,
                 patchVars, crashes>>

\* invoice.create: invoiceNumber is unique, and what it throws is swallowed.
InsertInvoice(t) ==
  /\ pc[t] = "insert"
  /\ invoices' = IF \E i \in invoices : i[1] = number[t] THEN invoices
                 ELSE invoices \cup {<<number[t], row[t]>>}
  /\ number' = [number EXCEPT ![t] = None]
  /\ Goto(t, "done")
  /\ UNCHANGED <<stage, createVars, paymentVars, charged, row, patchVars,
                 crashes>>

-----------------------------------------------------------------------------
(* Stages set by hand, and restarts.                                        *)

\* ClientProfilesService.updateStage: the stage is read and validated; no
\* payment is asked for.
RequestStage(a, c, s) ==
  /\ target[a] = None
  /\ CanTransition(stage[c], s)
  /\ target' = [target EXCEPT ![a] = <<c, s>>]
  /\ UNCHANGED <<stage, createVars, paymentVars, charged, taskVars, invoices,
                 byHand, crashes>>

WriteRequestedStage(a) ==
  /\ target[a] # None
  /\ SetStage(target[a][1], target[a][2])
  /\ byHand' = byHand \cup {target[a][1]}
  /\ target' = [target EXCEPT ![a] = None]
  /\ UNCHANGED <<createVars, paymentVars, charged, taskVars, invoices, crashes>>

\* The process restarts: what was under way stops where it was.
Crash ==
  /\ crashes < MaxCrashes
  /\ crashes' = crashes + 1
  /\ cpc' = [p \in Payment |->
               CASE cpc[p] = "link" -> "refused"
                 [] cpc[p] = "row" -> "orphan"
                 [] cpc[p] \in {"stage", "staging"} -> "done"
                 [] OTHER -> cpc[p]]
  /\ pc' = [t \in Task |-> IF t \in TaskOpen THEN "dead" ELSE pc[t]]
  /\ number' = [t \in Task |-> None]
  /\ target' = [a \in Patch |-> None]
  /\ UNCHANGED <<stage, seen, rows, paymentVars, charged, row, invoices, byHand>>

-----------------------------------------------------------------------------
Create(p) ==
  \/ BeginCreate(p) \/ CreateLink(p) \/ CreateRow(p)
  \/ CreateReadsStage(p) \/ CreateWritesStage(p)

Settle(t) ==
  \/ FindByProvider(t) \/ MarkAsPaid(t) \/ OnPaymentConfirmed(t)
  \/ CheckInvoice(t) \/ DrawNumber(t) \/ InsertInvoice(t)

Next ==
  \/ \E p \in Payment : Create(p) \/ Charge(p)
  \/ \E t \in Task : \/ Deliver(t) \/ MarkByHand(t) \/ PaymentWebhook(t)
                     \/ PaymentWebhookLookup(t) \/ MatchPayment(t)
                     \/ MatchFails(t) \/ Settle(t)
  \/ \E a \in Patch : \/ \E c \in Company, s \in Asked : RequestStage(a, c, s)
                      \/ WriteRequestedStage(a)
  \/ Crash

Spec == Init /\ [][Next]_vars

\* Razorpay delivers until it is answered with 200, a handler goes on, and
\* its API answers now and then; nobody has to create, pay or mark anything.
Fairness ==
  \A t \in Task : WF_vars(Deliver(t)) /\ WF_vars(Settle(t)) /\ SF_vars(MatchPayment(t))

FairSpec == Spec /\ Fairness

-----------------------------------------------------------------------------
(* Properties.                                                              *)

\* A row is PAID for a reason: it carries the id of a captured payment of its
\* own company, or an admin marked it.  The webhook may settle another row
\* than the one whose link was paid, but never another company's.
PaidHasReason ==
  \A q \in paid :
    \/ provider[q] \in charged /\ CompanyOf[provider[q]] = CompanyOf[q]
    \/ \E t \in Task : Kind[t] = "admin" /\ About[t] = q /\ pc[t] # "idle"

\* One captured payment settles at most one row, unless two deliveries of it
\* searched at once or the older webhook was told the row: this is what
\* looking for the stored id first is for.
SettledOnceUnlessOverlap ==
  \A p \in Payment, q, r \in Payment :
    (provider[q] = p /\ provider[r] = p /\ q # r)
      => \/ p \in overlapped
         \/ \E t \in Task : Kind[t] = "legacy" /\ About[t] = p /\ pc[t] # "idle"

\* A company leaves PAYMENT_PENDING only when one of its payments is PAID, an
\* admin set its stage, or the older webhook was sent no payment id.
KycIsPaidFor ==
  \A c \in Company :
    stage[c] \notin {"ADMIN_CREATED", "PAYMENT_PENDING"}
      => \/ \E p \in paid : CompanyOf[p] = c
         \/ c \in byHand
         \/ \E t \in Task : /\ Kind[t] = "lookup" /\ CompanyOf[About[t]] = c
                            /\ pc[t] # "idle"

\* The invoice numbers of the year have no gap and no duplicate, whatever the
\* chains do at once and wherever they fail.
InvoiceNumbersConsecutive ==
  /\ {i[1] : i \in invoices} = 1..Cardinality(invoices)
  /\ \A i, j \in invoices : i[1] = j[1] => i = j

\* A link is paid and its row exists: in the end the payment is recorded, on
\* the row of the link or on the one its delivery settled.  Deliveries that
\* come before the row exists, or that Razorpay's API leaves unmatched, are
\* refused and come again; restarts lose none.
CapturedIsRecorded ==
  \A p \in {About[t] : t \in {u \in Task : Kind[u] = "razorpay"}} :
    (p \in charged /\ Exists(p)) ~> (\E q \in paid : p \in {q, provider[q]})

=============================================================================
