--------------------------- MODULE PaymentsProofs ---------------------------
(***************************************************************************)
(* Theorems of Payments, for every set of companies, links and tasks.      *)
(***************************************************************************)
EXTENDS Payments, FiniteSetTheorems, WellFoundedInduction, TLAPS

-----------------------------------------------------------------------------
(* Facts about rows and numbers.                                            *)

\* A bounded set of naturals that has an element has a highest one.
LEMMA HighestExists ==
  ASSUME NEW n \in Nat, NEW S \in SUBSET (0..n), S # {}
  PROVE  Max(S) \in S /\ \A i \in S : Max(S) >= i
<1> DEFINE below == {n - i : i \in S}
           R == OpToRel(<, Nat)
<1>0. \A i \in S : i \in Nat /\ n - i \in Nat
  OBVIOUS
<1>1. below \subseteq Nat /\ below # {}
  BY <1>0
<1>2. \A x, y \in Nat : x < y => <<x, y>> \in R
  BY DEF OpToRel
<1>3. \E d \in below : \A e \in below : d <= e
  <2> HIDE DEF below
  <2>1. IsWellFoundedOn(R, Nat)
    BY NatLessThanWellFounded
  <2> HIDE DEF R
  <2>2. PICK d \in below : \A e \in below : ~(<<e, d>> \in R)
    BY <1>1, <2>1, WFMin
  <2>3. \A e \in below : ~(e < d)
    BY <1>1, <1>2, <2>2
  <2> QED BY <1>1, <2>3
<1>4. \E i \in S : \A j \in S : i >= j
  <2>1. PICK i \in S : \A e \in below : n - i <= e
    BY <1>3
  <2>2. \A j \in S : n - i <= n - j
    BY <2>1
  <2> QED BY <1>0, <2>1, <2>2
<1> QED BY <1>4 DEF Max

\* findFirst returns a row of the set it is asked for, and nothing only when
\* the table has none.
LEMMA LatestFound ==
  ASSUME TypeOK, NEW S
  PROVE  /\ Latest(S) # None => Latest(S) \in S \cap Payment /\ Exists(Latest(S))
         /\ Latest(S) = None => \A q \in S : ~Exists(q)
<1> DEFINE hits == {i \in DOMAIN rows : rows[i] \in S}
<1>1. /\ DOMAIN rows = 1..Len(rows) /\ Len(rows) \in Nat
      /\ \A i \in DOMAIN rows : rows[i] \in Payment
  BY DEF TypeOK
<1>2. CASE hits = {}
  BY <1>2 DEF Latest, Exists, Range
<1>3. CASE hits # {}
  <2>1. hits \in SUBSET (0..Len(rows))
    BY <1>1
  <2>2. Max(hits) \in hits
    BY <1>1, <1>3, <2>1, HighestExists
  <2>3. Latest(S) = rows[Max(hits)]
    BY <1>3 DEF Latest
  <2> QED BY <1>1, <2>2, <2>3, PaymentsAssumption DEF Exists, Range
<1> QED BY <1>2, <1>3

\* What is in the table stays when a row is added.
LEMMA AppendKeepsRows ==
  ASSUME TypeOK, NEW p \in Payment, rows' = Append(rows, p), NEW q, Exists(q)
  PROVE  Exists(q)'
<1>1. PICK i \in DOMAIN rows : rows[i] = q
  BY DEF Exists, Range
<1>2. DOMAIN rows = 1..Len(rows) /\ Len(rows) \in Nat
  BY DEF TypeOK
<1>3. i \in DOMAIN rows' /\ rows'[i] = q
  BY <1>1, <1>2 DEF TypeOK
<1> QED BY <1>3 DEF Exists, Range

-----------------------------------------------------------------------------
(* The inductive invariant.                                                 *)

\* Numbers run from 1, and a number drawn but not used is at most one ahead.
NumberInv ==
  /\ IsFiniteSet(invoices)
  /\ InvoiceNumbersConsecutive
  /\ \A t \in Task :
       pc[t] = "insert" => number[t] \in 1..(Cardinality(invoices) + 1)

\* Where a task may be, and what it has found when it is there: a row of the
\* right company, there to be marked, or marked.
Found == {"mark", "invoice", "number", "insert"} \cup StageSteps

TaskInv ==
  \A t \in Task :
    /\ pc[t] \in {"find", "match"} => Kind[t] = "razorpay"
    /\ (pc[t] # "idle" /\ Kind[t] # "admin") => About[t] \in charged
    /\ (pc[t] \in Found /\ row[t] # None) =>
         /\ Exists(row[t])
         /\ CompanyOf[row[t]] = CompanyOf[About[t]]
         /\ Kind[t] = "admin" => row[t] = About[t]
         /\ pc[t] # "mark" => row[t] \in paid

\* A stored id is that of a captured payment of the row's company.
ProviderInv ==
  \A q \in Payment :
    provider[q] # None =>
      /\ q \in paid /\ Exists(q)
      /\ provider[q] \in charged
      /\ CompanyOf[provider[q]] = CompanyOf[q]

\* A payment that more than one row may carry.
Excused(p) ==
  \/ p \in overlapped
  \/ \E t \in Task : Kind[t] = "legacy" /\ About[t] = p /\ pc[t] # "idle"

\* Past the search, no row but the one found carries the id.
SearchInv ==
  \A t \in Task :
    /\ (pc[t] \in {"match", "mark"} /\ Kind[t] = "razorpay")
         => Settled(About[t]) = {} \/ Excused(About[t])
    /\ (pc[t] = "mark" /\ Kind[t] = "lookup")
         => Settled(About[t]) \subseteq {row[t]} \/ Excused(About[t])

IInv == /\ TypeOK
        /\ NumberInv
        /\ TaskInv
        /\ ProviderInv
        /\ SearchInv
        /\ SettledOnceUnlessOverlap
        /\ PaidHasReason
        /\ KycIsPaidFor

-----------------------------------------------------------------------------
(* What the steps of a task do.                                             *)

\* Numbers without gaps: the next one is one more than there are invoices, or
\* one that is taken.
LEMMA NextIsCount ==
  ASSUME NumberInv
  PROVE  /\ Cardinality(invoices) \in Nat
         /\ NextNumber \in 1..(Cardinality(invoices) + 1)
<1> DEFINE n == Cardinality(invoices)
           drawn == {i[1] : i \in invoices} \cup {0}
<1>1. n \in Nat
  BY FS_CardinalityType DEF NumberInv
<1>2. drawn = 0..n
  BY <1>1 DEF NumberInv, InvoiceNumbersConsecutive
<1>3. Max(drawn) \in drawn /\ \A i \in drawn : Max(drawn) >= i
  <2> HIDE DEF n, drawn
  <2>1. drawn \in SUBSET (0..n) /\ 0 \in drawn
    BY <1>1, <1>2
  <2> QED BY <1>1, <2>1, HighestExists
<1>4. Max(drawn) = n
  <2> HIDE DEF n, drawn
  <2> QED BY <1>1, <1>2, <1>3
<1>5. NextNumber = (IF n < Unpadded THEN n ELSE Unpadded - 1) + 1
  BY <1>4 DEF NextNumber
<1> HIDE DEF n
<1> QED BY <1>1, <1>5, PaymentsAssumption DEF n

\* A read of the stage chain only moves its task, and to the invoice only if
\* there is a row.
LEMMA StageReads ==
  ASSUME TypeOK, NEW t \in Task,
         AssertPaymentPending(t) \/ ReadForConfirmed(t) \/ ReadForKyc(t)
  PROVE  /\ pc[t] \in StageSteps
         /\ \E s \in {"confirm", "confirming", "opening", "done", "invoice"} :
              /\ pc' = [pc EXCEPT ![t] = s]
              /\ row[t] = None => s # "invoice"
         /\ UNCHANGED <<stage, createVars, paymentVars, charged, row, number,
                        invoices, patchVars, crashes>>
<1>1. row[t] = None /\ pc[t] \in StageSteps => AfterStageFails(t) = "done"
  BY DEF TypeOK, AfterStageFails
<1>2. AfterStageFails(t) \in {"done", "invoice"}
  BY DEF AfterStageFails
<1> QED BY <1>1, <1>2 DEF AssertPaymentPending, ReadForConfirmed, ReadForKyc,
                          StageRead, Goto, StageSteps

\* A write of the chain sets one of its two stages for the task's company.
LEMMA StageWrites ==
  ASSUME NEW t \in Task, WriteConfirmed(t) \/ WriteKyc(t)
  PROVE  /\ pc[t] \in StageSteps
         /\ \E s \in {"PAYMENT_CONFIRMED", "KYC_IN_PROGRESS"} :
              SetStage(CompanyFor(t), s)
         /\ \E s \in {"open", "done", "invoice"} :
              /\ pc' = [pc EXCEPT ![t] = s]
              /\ row[t] = None => s # "invoice"
         /\ UNCHANGED <<createVars, paymentVars, charged, row, number,
                        invoices, patchVars, crashes>>
  BY DEF WriteConfirmed, WriteKyc, StageWrite, AfterStage, Goto, StageSteps

\* A step of create, a payment or an admin's stage request leaves everything
\* that settles a payment alone; rows and charged only grow.
LEMMA OtherSteps ==
  ASSUME TypeOK,
         \/ \E p \in Payment : Create(p) \/ Charge(p)
         \/ \E a \in Patch : \/ \E c \in Company, s \in Asked : RequestStage(a, c, s)
                             \/ WriteRequestedStage(a)
         \/ UNCHANGED vars
  PROVE  /\ UNCHANGED <<paymentVars, taskVars, invoices>>
         /\ charged \subseteq charged'
         /\ \A q : Exists(q) => Exists(q)'
<1> USE DEF createVars, paymentVars, patchVars, taskVars
<1>1. ASSUME NEW p \in Payment, Create(p)
      PROVE  /\ UNCHANGED <<paymentVars, taskVars, invoices, charged>>
             /\ rows' = rows \/ rows' = Append(rows, p)
  BY <1>1 DEF Create, BeginCreate, CreateLink, CreateRow, CreateReadsStage,
              CreateWritesStage
<1>2. ASSUME NEW p \in Payment, Charge(p)
      PROVE  /\ UNCHANGED <<paymentVars, taskVars, invoices, rows>>
             /\ charged \subseteq charged'
  BY <1>2 DEF Charge
<1>3. ASSUME NEW a \in Patch, NEW c \in Company, NEW s \in Asked, RequestStage(a, c, s)
      PROVE  UNCHANGED <<paymentVars, taskVars, invoices, rows, charged>>
  BY <1>3 DEF RequestStage
<1>4. ASSUME NEW a \in Patch, WriteRequestedStage(a)
      PROVE  UNCHANGED <<paymentVars, taskVars, invoices, rows, charged>>
  BY <1>4 DEF WriteRequestedStage
<1>5. ASSUME UNCHANGED vars
      PROVE  UNCHANGED <<paymentVars, taskVars, invoices, rows, charged>>
  BY <1>5 DEF vars
<1>6. \/ UNCHANGED <<paymentVars, taskVars, invoices, rows, charged>>
      \/ /\ UNCHANGED <<paymentVars, taskVars, invoices, charged>>
         /\ \E p \in Payment : rows' = Append(rows, p)
      \/ /\ UNCHANGED <<paymentVars, taskVars, invoices, rows>>
         /\ charged \subseteq charged'
  BY <1>1, <1>2, <1>3, <1>4, <1>5
<1>7. \A q : rows' = rows /\ Exists(q) => Exists(q)'
  BY DEF Exists
<1> QED BY <1>6, <1>7, AppendKeepsRows

-----------------------------------------------------------------------------
(* The type invariant.                                                      *)

\* Every step keeps the variables in their types.
LEMMA TypeStep == TypeOK /\ NumberInv /\ [Next]_vars => TypeOK'
<1> SUFFICES ASSUME TypeOK, NumberInv, [Next]_vars
             PROVE  TypeOK'
  OBVIOUS
<1> USE DEF TypeOK, createVars, paymentVars, patchVars, taskVars, StageSteps
<1>1. ASSUME NEW p \in Payment, BeginCreate(p)
      PROVE  TypeOK'
  BY <1>1, PaymentsAssumption DEF BeginCreate, CreateGoto, CreateStep
<1>2. ASSUME NEW p \in Payment, CreateLink(p)
      PROVE  TypeOK'
  BY <1>2 DEF CreateLink, CreateGoto, CreateStep
<1>3. ASSUME NEW p \in Payment, CreateRow(p)
      PROVE  TypeOK'
  <2>1. rows' \in Seq(Payment)
    <3>1. rows \in Seq(Payment) /\ (rows' = Append(rows, p) \/ rows' = rows)
      BY <1>3 DEF CreateRow
    <3>2. Append(rows, p) \in Seq(Payment)
      BY ONLY <3>1, p \in Payment
    <3> QED BY <3>1, <3>2
  <2>2. cpc' \in [Payment -> CreateStep]
    BY <1>3 DEF CreateRow, CreateGoto, CreateStep
  <2> QED BY <1>3, <2>1, <2>2 DEF CreateRow
<1>4. ASSUME NEW p \in Payment, CreateReadsStage(p)
      PROVE  TypeOK'
  BY <1>4 DEF CreateReadsStage, CreateGoto, CreateStep
<1>5. ASSUME NEW p \in Payment, CreateWritesStage(p)
      PROVE  TypeOK'
  BY <1>5 DEF CreateWritesStage, CreateGoto, CreateStep, SetStage, Stage
<1>6. ASSUME NEW p \in Payment, Charge(p)
      PROVE  TypeOK'
  BY <1>6 DEF Charge
<1>7. ASSUME NEW t \in Task, Deliver(t)
      PROVE  TypeOK'
  BY <1>7 DEF Deliver, Goto, TaskStep
<1>8. ASSUME NEW t \in Task, MarkByHand(t)
      PROVE  TypeOK'
  BY <1>8, PaymentsAssumption, ZenonT(40) DEF MarkByHand, Goto, TaskStep
<1>9. ASSUME NEW t \in Task, PaymentWebhook(t)
      PROVE  TypeOK'
  BY <1>9, PaymentsAssumption DEF PaymentWebhook, Goto, TaskStep
<1>10. ASSUME NEW t \in Task, PaymentWebhookLookup(t)
       PROVE  TypeOK'
  <2>1. Latest(Settled(About[t])) \in Payment \cup {None}
    BY LatestFound
  <2> QED BY <1>10, <2>1 DEF PaymentWebhookLookup, Goto, TaskStep
<1>11. ASSUME NEW t \in Task, MatchPayment(t)
       PROVE  TypeOK'
  <2>1. PICK found : /\ found \in Payment \cup {None}
                     /\ Goto(t, IF found = None THEN "refused" ELSE "mark")
                     /\ row' = [row EXCEPT ![t] = found]
    BY <1>11, LatestFound DEF MatchPayment
  <2> QED BY <1>11, <2>1 DEF MatchPayment, Goto, TaskStep
<1>12. ASSUME NEW t \in Task, MatchFails(t)
       PROVE  TypeOK'
  BY <1>12 DEF MatchFails, Goto, TaskStep
<1>13. ASSUME NEW t \in Task, FindByProvider(t)
       PROVE  TypeOK'
  BY <1>13 DEF FindByProvider, Goto, TaskStep
<1>14. ASSUME NEW t \in Task, MarkAsPaid(t)
       PROVE  TypeOK'
  <2>1. row[t] \in Payment /\ About[t] \in Payment
    BY <1>14, PaymentsAssumption DEF MarkAsPaid
  <2>2. paid' \subseteq Payment /\ overlapped' \subseteq Payment
    BY <1>14, <2>1 DEF MarkAsPaid, RecordOverlap
  <2>3. provider' \in [Payment -> Payment \cup {None}]
    BY <1>14, <2>1 DEF MarkAsPaid
  <2> QED BY <1>14, <2>1, <2>2, <2>3 DEF MarkAsPaid, Goto, TaskStep
<1>15. ASSUME NEW t \in Task,
              AssertPaymentPending(t) \/ ReadForConfirmed(t) \/ ReadForKyc(t)
       PROVE  TypeOK'
  BY <1>15, StageReads, ZenonT(40) DEF TaskStep
<1>16. ASSUME NEW t \in Task, WriteConfirmed(t) \/ WriteKyc(t)
       PROVE  TypeOK'
  BY <1>16, StageWrites DEF TaskStep, SetStage, Stage
<1>17. ASSUME NEW t \in Task, CheckInvoice(t)
       PROVE  TypeOK'
  BY <1>17 DEF CheckInvoice, Goto, TaskStep
<1>18. ASSUME NEW t \in Task, DrawNumber(t)
       PROVE  TypeOK'
  <2>1. NextNumber \in Nat
    BY NextIsCount
  <2> QED BY <1>18, <2>1 DEF DrawNumber, Goto, TaskStep
<1>19. ASSUME NEW t \in Task, InsertInvoice(t)
       PROVE  TypeOK'
  <2>1. number[t] \in Nat /\ row[t] \in Payment
    BY <1>19 DEF InsertInvoice
  <2>2. invoices' \subseteq Nat \X Payment
    BY <1>19, <2>1 DEF InsertInvoice
  <2> QED BY <1>19, <2>2 DEF InsertInvoice, Goto, TaskStep
<1>20. ASSUME NEW a \in Patch, NEW c \in Company, NEW s \in Asked, RequestStage(a, c, s)
       PROVE  TypeOK'
  BY <1>20, PaymentsAssumption DEF RequestStage
<1>21. ASSUME NEW a \in Patch, WriteRequestedStage(a)
       PROVE  TypeOK'
  BY <1>21 DEF WriteRequestedStage, SetStage
<1>22. ASSUME Crash
       PROVE  TypeOK'
  <2>1. cpc' \in [Payment -> CreateStep]
    BY <1>22 DEF Crash, CreateStep
  <2>2. pc' \in [Task -> TaskStep]
    BY <1>22 DEF Crash, TaskStep
  <2>3. \A t \in Task : pc'[t] \in {"idle", "done", "refused", "dead"}
    BY <1>22 DEF Crash, TaskOpen
  <2>4. crashes' \in 0..MaxCrashes
    BY <1>22, PaymentsAssumption DEF Crash
  <2> QED BY <1>22, <2>1, <2>2, <2>3, <2>4 DEF Crash
<1>23. CASE UNCHANGED vars
  BY <1>23 DEF vars
<1> QED BY <1>1, <1>2, <1>3, <1>4, <1>5, <1>6, <1>7, <1>8, <1>9, <1>10, <1>11,
           <1>12, <1>13, <1>14, <1>15, <1>16, <1>17, <1>18, <1>19, <1>20,
           <1>21, <1>22, <1>23
        DEF Next, Create, Settle, OnPaymentConfirmed

-----------------------------------------------------------------------------
(* Invoice numbers.                                                         *)

\* Drawing and inserting keep the numbers without a gap: of the tasks that
\* drew the same number one is let in.
LEMMA NumberStep ==
  ASSUME TypeOK, NumberInv, [Next]_vars
  PROVE  NumberInv'
<1> USE DEF createVars, paymentVars, patchVars, taskVars
<1>0. Cardinality(invoices) \in Nat
  BY NextIsCount
<1>1. ASSUME invoices' = invoices,
             \A t \in Task : pc'[t] = "insert"
                => pc[t] = "insert" /\ number'[t] = number[t]
      PROVE  NumberInv'
  BY <1>1 DEF NumberInv, InvoiceNumbersConsecutive
<1>2. ASSUME NEW t \in Task, Deliver(t) \/ MarkByHand(t) \/ PaymentWebhook(t)
      PROVE  NumberInv'
  BY <1>1, <1>2 DEF Deliver, MarkByHand, PaymentWebhook, Goto, TypeOK
<1>3. ASSUME NEW t \in Task,
             PaymentWebhookLookup(t) \/ MatchPayment(t) \/ MatchFails(t)
      PROVE  NumberInv'
  BY <1>1, <1>3 DEF PaymentWebhookLookup, MatchPayment, MatchFails, Goto, TypeOK
<1>4. ASSUME NEW t \in Task, FindByProvider(t) \/ MarkAsPaid(t) \/ CheckInvoice(t)
      PROVE  NumberInv'
  BY <1>1, <1>4 DEF FindByProvider, MarkAsPaid, CheckInvoice, Goto, TypeOK
<1>5. ASSUME NEW t \in Task, OnPaymentConfirmed(t)
      PROVE  NumberInv'
  <2>1. UNCHANGED <<number, invoices>>
    BY <1>5, StageReads, StageWrites DEF OnPaymentConfirmed
  <2>2. \E s \in TaskStep \ {"insert"} : pc' = [pc EXCEPT ![t] = s]
    BY <1>5, StageReads, StageWrites DEF OnPaymentConfirmed, TaskStep
  <2> QED BY <1>1, <2>1, <2>2 DEF TypeOK
<1>6. ASSUME NEW t \in Task, DrawNumber(t)
      PROVE  NumberInv'
  <2>1. NextNumber \in 1..(Cardinality(invoices) + 1)
    BY <1>0, NextIsCount
  <2>2. \A u \in Task : pc'[u] = "insert" =>
                          number'[u] \in 1..(Cardinality(invoices) + 1)
    BY <1>6, <2>1 DEF DrawNumber, Goto, NumberInv, TypeOK
  <2> QED BY <1>6, <2>2 DEF DrawNumber, NumberInv, InvoiceNumbersConsecutive
<1>7. ASSUME NEW t \in Task, InsertInvoice(t)
      PROVE  NumberInv'
  <2>1. CASE \E i \in invoices : i[1] = number[t]
    BY <1>1, <1>7, <2>1 DEF InsertInvoice, Goto, TypeOK
  <2>2. CASE \A i \in invoices : i[1] # number[t]
    <3> DEFINE n == Cardinality(invoices)
               new == <<number[t], row[t]>>
    <3>1. /\ number[t] \in 1..(n + 1)
          /\ invoices' = invoices \cup {new}
      BY <1>7, <2>2 DEF InsertInvoice, NumberInv
    <3>2. number[t] = n + 1
      BY <1>0, <2>2, <3>1 DEF NumberInv, InvoiceNumbersConsecutive
    <3>3. new \notin invoices
      BY <2>2
    <3>4. IsFiniteSet(invoices') /\ Cardinality(invoices') = n + 1
      BY <3>1, <3>3, FS_AddElement DEF NumberInv
    <3>5. {i[1] : i \in invoices'} = 1..(n + 1)
      <4>1. {i[1] : i \in invoices'} = {i[1] : i \in invoices} \cup {n + 1}
        <5>1. new[1] = n + 1
          BY <3>2
        <5> HIDE DEF new, n
        <5> QED BY <3>1, <5>1
      <4> QED BY <1>0, <4>1 DEF NumberInv, InvoiceNumbersConsecutive
    <3>6. \A i, j \in invoices' : i[1] = j[1] => i = j
      BY <2>2, <3>1 DEF NumberInv, InvoiceNumbersConsecutive
    <3>7. \A u \in Task : pc'[u] = "insert" =>
                            pc[u] = "insert" /\ number'[u] = number[u]
      BY <1>7 DEF InsertInvoice, Goto, TypeOK
    <3>8. \A u \in Task : pc'[u] = "insert" => number'[u] \in 1..((n + 1) + 1)
      BY <1>0, <3>7 DEF NumberInv
    <3> HIDE DEF n
    <3> QED BY <3>4, <3>5, <3>6, <3>8 DEF NumberInv, InvoiceNumbersConsecutive
  <2> QED BY <2>1, <2>2
<1>8. CASE Crash
  <2>1. \A t \in Task : pc'[t] # "insert"
    BY <1>8 DEF Crash, TaskOpen
  <2> QED BY <1>1, <1>8, <2>1 DEF Crash
<1>9. ASSUME \/ \E p \in Payment : Create(p) \/ Charge(p)
             \/ \E a \in Patch : \/ \E c \in Company, s \in Asked : RequestStage(a, c, s)
                                 \/ WriteRequestedStage(a)
             \/ UNCHANGED vars
      PROVE  NumberInv'
  BY <1>1, <1>9, OtherSteps
<1> QED BY <1>2, <1>3, <1>4, <1>5, <1>6, <1>7, <1>8, <1>9 DEF Next, Settle

-----------------------------------------------------------------------------
(* Tasks and stored ids.                                                    *)

\* What a task has found stays found: rows are never removed, PAID is never
\* taken back, and a task goes past the mark only by marking its row.
LEMMA TaskStepInv ==
  ASSUME TypeOK, TaskInv, ProviderInv, [Next]_vars
  PROVE  TaskInv'
<1> USE DEF createVars, paymentVars, patchVars, taskVars
<1>0. ASSUME charged \subseteq charged', paid \subseteq paid',
             \A q : Exists(q) => Exists(q)',
             row' = row,
             \A t \in Task :
               pc'[t] # pc[t] =>
                 pc'[t] \in {"done", "refused", "dead"} /\ pc[t] # "idle"
      PROVE  TaskInv'
  BY <1>0 DEF TaskInv, Found, StageSteps
<1>1. ASSUME NEW t \in Task, Deliver(t)
      PROVE  TaskInv'
  BY <1>1 DEF Deliver, Goto, TypeOK, TaskInv, Found, StageSteps, Exists
<1>2. ASSUME NEW t \in Task, MarkByHand(t)
      PROVE  TaskInv'
  BY <1>2 DEF MarkByHand, Goto, TypeOK, TaskInv, Found, StageSteps, Exists
<1>3. ASSUME NEW t \in Task, PaymentWebhook(t)
      PROVE  TaskInv'
  BY <1>3 DEF PaymentWebhook, Goto, TypeOK, TaskInv, Found, StageSteps, Exists
<1>4. ASSUME NEW t \in Task, PaymentWebhookLookup(t)
      PROVE  TaskInv'
  <2> DEFINE found == Latest(Settled(About[t]))
  <2>1. found # None => /\ found \in Payment /\ provider[found] = About[t]
                        /\ Exists(found)
    BY LatestFound DEF Settled
  <2>2. found # None => /\ found \in paid /\ Exists(found)
                        /\ CompanyOf[found] = CompanyOf[About[t]]
    BY <2>1, PaymentsAssumption DEF ProviderInv
  <2>3. /\ row' = [row EXCEPT ![t] = found]
        /\ pc' = [pc EXCEPT ![t] = IF found = None THEN "assert" ELSE "mark"]
        /\ Kind[t] = "lookup" /\ About[t] \in charged
    BY <1>4 DEF PaymentWebhookLookup, Goto
  <2> HIDE DEF found
  <2> QED BY <1>4, <2>2, <2>3
          DEF PaymentWebhookLookup, TypeOK, TaskInv, Found, StageSteps, Exists
<1>5. ASSUME NEW t \in Task, MatchPayment(t)
      PROVE  TaskInv'
  <2>1. PICK found :
          /\ found # None => /\ Exists(found) /\ found \in Payment
                             /\ CompanyOf[found] = CompanyOf[About[t]]
          /\ pc' = [pc EXCEPT ![t] = IF found = None THEN "refused" ELSE "mark"]
          /\ row' = [row EXCEPT ![t] = found]
    <3> DEFINE mine  == Latest({About[t]} \ paid)
               other == Latest(CreatedOf(CompanyOf[About[t]]))
    <3>1. mine # None => /\ Exists(mine) /\ mine \in Payment /\ mine = About[t]
      BY LatestFound
    <3>2. other # None => /\ Exists(other) /\ other \in Payment
                          /\ CompanyOf[other] = CompanyOf[About[t]]
      BY LatestFound DEF CreatedOf
    <3> QED BY <1>5, <3>1, <3>2 DEF MatchPayment, Goto
  <2>2. Kind[t] = "razorpay" /\ About[t] \in charged
    BY <1>5, PaymentsAssumption DEF MatchPayment, TaskInv, Kinds
  <2> QED BY <1>5, <2>1, <2>2
          DEF MatchPayment, TypeOK, TaskInv, Found, StageSteps, Exists
<1>6. ASSUME NEW t \in Task, MatchFails(t)
      PROVE  TaskInv'
  <2>1. UNCHANGED <<charged, paid, rows, row>>
    BY <1>6 DEF MatchFails
  <2>2. \A u \in Task : pc'[u] # pc[u] => pc'[u] = "refused" /\ pc[u] # "idle"
    BY <1>6 DEF MatchFails, Goto, TypeOK
  <2> QED BY <1>0, <2>1, <2>2 DEF Exists
<1>7. ASSUME NEW t \in Task, FindByProvider(t)
      PROVE  TaskInv'
  BY <1>7 DEF FindByProvider, Goto, TypeOK, TaskInv, Found, StageSteps, Exists
<1>8. ASSUME NEW t \in Task, MarkAsPaid(t)
      PROVE  TaskInv'
  BY <1>8 DEF MarkAsPaid, Goto, TypeOK, TaskInv, Found, StageSteps, Exists
<1>9. ASSUME NEW t \in Task, OnPaymentConfirmed(t)
      PROVE  TaskInv'
  <2>1. /\ pc[t] \in StageSteps
        /\ \E s \in {"confirm", "confirming", "open", "opening", "done", "invoice"} :
             pc' = [pc EXCEPT ![t] = s]
        /\ UNCHANGED <<rows, charged, paid, row>>
    BY <1>9, StageReads, StageWrites DEF OnPaymentConfirmed
  <2> QED BY <2>1 DEF TypeOK, TaskInv, Found, StageSteps, Exists
<1>10. ASSUME NEW t \in Task, CheckInvoice(t) \/ DrawNumber(t) \/ InsertInvoice(t)
       PROVE  TaskInv'
  <2>1. /\ pc[t] \in {"invoice", "number", "insert"}
        /\ \E s \in {"number", "insert", "done"} : pc' = [pc EXCEPT ![t] = s]
        /\ UNCHANGED <<rows, charged, paid, row>>
    BY <1>10 DEF CheckInvoice, DrawNumber, InsertInvoice, Goto
  <2> QED BY <2>1 DEF TypeOK, TaskInv, Found, StageSteps, Exists
<1>11. CASE Crash
  <2>1. UNCHANGED <<charged, paid, rows, row>>
    BY <1>11 DEF Crash
  <2>2. \A t \in Task : pc'[t] # pc[t] => pc'[t] = "dead" /\ pc[t] # "idle"
    BY <1>11 DEF Crash, TaskOpen
  <2> QED BY <1>0, <2>1, <2>2 DEF Exists
<1>12. ASSUME \/ \E p \in Payment : Create(p) \/ Charge(p)
              \/ \E a \in Patch : \/ \E c \in Company, s \in Asked : RequestStage(a, c, s)
                                  \/ WriteRequestedStage(a)
              \/ UNCHANGED vars
       PROVE  TaskInv'
  <2>1. UNCHANGED <<paymentVars, taskVars>>
    BY <1>12, OtherSteps
  <2>2. charged \subseteq charged' /\ \A q : Exists(q) => Exists(q)'
    BY <1>12, OtherSteps
  <2> QED BY <1>0, <2>1, <2>2
<1> QED BY <1>1, <1>2, <1>3, <1>4, <1>5, <1>6, <1>7, <1>8, <1>9, <1>10, <1>11, <1>12
        DEF Next, Settle

\* Only a mark changes which rows are PAID and which ids they carry, and it
\* writes the id of a captured payment of the same company.
LEMMA MarkSteps ==
  ASSUME TypeOK, TaskInv, [Next]_vars
  PROVE  \/ UNCHANGED paymentVars
         \/ \E t \in Task :
              /\ MarkAsPaid(t)
              /\ row[t] \in Payment /\ About[t] \in Payment /\ Exists(row[t])
              /\ CompanyOf[row[t]] = CompanyOf[About[t]]
              /\ Kind[t] = "admin" => row[t] = About[t]
              /\ Kind[t] # "admin" => About[t] \in charged
<1> USE DEF createVars, patchVars, taskVars
<1>1. ASSUME NEW t \in Task, Deliver(t) \/ MarkByHand(t) \/ PaymentWebhook(t)
      PROVE  UNCHANGED paymentVars
  BY <1>1 DEF Deliver, MarkByHand, PaymentWebhook
<1>2. ASSUME NEW t \in Task,
             PaymentWebhookLookup(t) \/ MatchPayment(t) \/ MatchFails(t)
      PROVE  UNCHANGED paymentVars
  BY <1>2 DEF PaymentWebhookLookup, MatchPayment, MatchFails
<1>3. ASSUME NEW t \in Task, \/ FindByProvider(t) \/ CheckInvoice(t)
                             \/ DrawNumber(t) \/ InsertInvoice(t)
      PROVE  UNCHANGED paymentVars
  BY <1>3 DEF FindByProvider, CheckInvoice, DrawNumber, InsertInvoice
<1>4. ASSUME NEW t \in Task, OnPaymentConfirmed(t)
      PROVE  UNCHANGED paymentVars
  BY <1>4, StageReads, StageWrites DEF OnPaymentConfirmed
<1>5. ASSUME NEW t \in Task, MarkAsPaid(t)
      PROVE  /\ row[t] \in Payment /\ About[t] \in Payment /\ Exists(row[t])
             /\ CompanyOf[row[t]] = CompanyOf[About[t]]
             /\ Kind[t] = "admin" => row[t] = About[t]
             /\ Kind[t] # "admin" => About[t] \in charged
  BY <1>5, PaymentsAssumption DEF MarkAsPaid, TypeOK, TaskInv, Found
<1>6. CASE Crash
  BY <1>6 DEF Crash
<1> QED BY <1>1, <1>2, <1>3, <1>4, <1>5, <1>6, OtherSteps DEF Next, Settle

\* Nothing takes a payment, a row, a mark or a request back.
LEMMA OnlyGrows ==
  ASSUME TypeOK, TaskInv, [Next]_vars
  PROVE  /\ charged \subseteq charged'
         /\ \A q : Exists(q) => Exists(q)'
         /\ paid \subseteq paid'
         /\ overlapped \subseteq overlapped'
         /\ byHand \subseteq byHand'
         /\ \A t \in Task : pc[t] # "idle" => pc'[t] # "idle"
<1> USE DEF createVars, taskVars, patchVars
<1>1. paid \subseteq paid' /\ overlapped \subseteq overlapped'
  BY MarkSteps DEF paymentVars, MarkAsPaid, RecordOverlap
<1>2. ASSUME NEW t \in Task, Deliver(t) \/ MarkByHand(t) \/ PaymentWebhook(t)
      PROVE  /\ UNCHANGED <<charged, rows, byHand>>
             /\ \A u \in Task : pc[u] # "idle" => pc'[u] # "idle"
  BY <1>2 DEF Deliver, MarkByHand, PaymentWebhook, Goto, TypeOK
<1>3. ASSUME NEW t \in Task,
             PaymentWebhookLookup(t) \/ MatchPayment(t) \/ MatchFails(t)
      PROVE  /\ UNCHANGED <<charged, rows, byHand>>
             /\ \A u \in Task : pc[u] # "idle" => pc'[u] # "idle"
  BY <1>3 DEF PaymentWebhookLookup, MatchPayment, MatchFails, Goto, TypeOK
<1>4. ASSUME NEW t \in Task, \/ FindByProvider(t) \/ MarkAsPaid(t)
                             \/ CheckInvoice(t) \/ DrawNumber(t) \/ InsertInvoice(t)
      PROVE  /\ UNCHANGED <<charged, rows, byHand>>
             /\ \A u \in Task : pc[u] # "idle" => pc'[u] # "idle"
  BY <1>4 DEF FindByProvider, MarkAsPaid, CheckInvoice, DrawNumber, InsertInvoice,
              Goto, TypeOK
<1>5. ASSUME NEW t \in Task, OnPaymentConfirmed(t)
      PROVE  /\ UNCHANGED <<charged, rows, byHand>>
             /\ \A u \in Task : pc[u] # "idle" => pc'[u] # "idle"
  <2>1. \E s \in {"confirm", "confirming", "open", "opening", "done", "invoice"} :
          pc' = [pc EXCEPT ![t] = s]
    BY <1>5, StageReads, StageWrites DEF OnPaymentConfirmed
  <2>2. UNCHANGED <<charged, rows, byHand>>
    BY <1>5, StageReads, StageWrites DEF OnPaymentConfirmed
  <2> QED BY <2>1, <2>2 DEF TypeOK
<1>6. ASSUME Crash
      PROVE  /\ UNCHANGED <<charged, rows, byHand>>
             /\ \A u \in Task : pc[u] # "idle" => pc'[u] # "idle"
  BY <1>6 DEF Crash
<1>7. ASSUME \/ \E p \in Payment : Create(p) \/ Charge(p)
             \/ \E a \in Patch : \/ \E c \in Company, s \in Asked : RequestStage(a, c, s)
                                 \/ WriteRequestedStage(a)
             \/ UNCHANGED vars
      PROVE  /\ charged \subseteq charged' /\ byHand \subseteq byHand'
             /\ \A q : Exists(q) => Exists(q)'
             /\ \A u \in Task : pc[u] # "idle" => pc'[u] # "idle"
  <2>1. byHand \subseteq byHand'
    BY <1>7 DEF Create, BeginCreate, CreateLink, CreateRow, CreateReadsStage,
                CreateWritesStage, Charge, RequestStage, WriteRequestedStage, vars
  <2> QED BY <1>7, <2>1, OtherSteps
<1>8. \A q : rows' = rows /\ Exists(q) => Exists(q)'
  BY DEF Exists
<1>9. \/ \E t \in Task : Deliver(t) \/ MarkByHand(t) \/ PaymentWebhook(t)
      \/ \E t \in Task : PaymentWebhookLookup(t) \/ MatchPayment(t) \/ MatchFails(t)
      \/ \E t \in Task : \/ FindByProvider(t) \/ MarkAsPaid(t)
                         \/ CheckInvoice(t) \/ DrawNumber(t) \/ InsertInvoice(t)
      \/ \E t \in Task : OnPaymentConfirmed(t)
      \/ Crash
      \/ \/ \E p \in Payment : Create(p) \/ Charge(p)
         \/ \E a \in Patch : \/ \E c \in Company, s \in Asked : RequestStage(a, c, s)
                             \/ WriteRequestedStage(a)
         \/ UNCHANGED vars
  BY DEF Next, Settle
<1>10. /\ charged \subseteq charged' /\ byHand \subseteq byHand'
       /\ \A q : Exists(q) => Exists(q)'
       /\ \A u \in Task : pc[u] # "idle" => pc'[u] # "idle"
  BY <1>2, <1>3, <1>4, <1>5, <1>6, <1>7, <1>8, <1>9
<1> QED BY <1>1, <1>10

\* A stored id stays that of a captured payment of the row's company.
LEMMA ProviderStep ==
  ASSUME TypeOK, TaskInv, ProviderInv, [Next]_vars
  PROVE  ProviderInv'
<1>1. CASE UNCHANGED paymentVars
  BY <1>1, OnlyGrows DEF ProviderInv, paymentVars
<1>2. ASSUME NEW t \in Task, MarkAsPaid(t),
             row[t] \in Payment, About[t] \in Payment, Exists(row[t]),
             CompanyOf[row[t]] = CompanyOf[About[t]],
             Kind[t] # "admin" => About[t] \in charged
      PROVE  ProviderInv'
  <2>1. /\ paid' = paid \cup {row[t]}
        /\ \A q \in Payment :
             \/ provider'[q] = provider[q]
             \/ q = row[t] /\ provider'[q] = About[t] /\ Kind[t] # "admin"
    BY <1>2 DEF MarkAsPaid, TypeOK
  <2> QED BY <1>2, <2>1, OnlyGrows DEF ProviderInv
<1> QED BY <1>1, <1>2, MarkSteps

\* A row that becomes PAID does so for a reason, and none loses its reason.
LEMMA ReasonStep ==
  ASSUME TypeOK, TaskInv, PaidHasReason, [Next]_vars
  PROVE  PaidHasReason'
<1>1. CASE UNCHANGED paymentVars
  BY <1>1, OnlyGrows DEF PaidHasReason, paymentVars
<1>2. ASSUME NEW t \in Task, MarkAsPaid(t),
             row[t] \in Payment, About[t] \in Payment,
             CompanyOf[row[t]] = CompanyOf[About[t]],
             Kind[t] = "admin" => row[t] = About[t],
             Kind[t] # "admin" => About[t] \in charged
      PROVE  PaidHasReason'
  <2>1. /\ paid' = paid \cup {row[t]}
        /\ \A q \in paid' :
             \/ provider'[q] = provider[q] /\ (q \in paid \/ Kind[t] = "admin")
             \/ q = row[t] /\ provider'[q] = About[t] /\ Kind[t] # "admin"
    BY <1>2 DEF MarkAsPaid, TypeOK
  <2>2. pc[t] # "idle" /\ pc'[t] # "idle"
    BY <1>2, OnlyGrows DEF MarkAsPaid
  <2>3. \A q \in paid' \ paid : q = row[t]
    BY <2>1
  <2> QED BY <1>2, <2>1, <2>2, <2>3, OnlyGrows DEF PaidHasReason
<1> QED BY <1>1, <1>2, MarkSteps

-----------------------------------------------------------------------------
(* Stages.                                                                  *)

\* The stage of a company is set by its own create calls, by the chain of a
\* task that found one of its rows PAID, or by an admin.
LEMMA StageSetters ==
  ASSUME TypeOK, TaskInv, [Next]_vars
  PROVE  \/ UNCHANGED stage
         \/ \E c \in Company : SetStage(c, "PAYMENT_PENDING")
         \/ \E t \in Task, s \in Stage : /\ SetStage(CompanyFor(t), s)
                                         /\ pc[t] \in StageSteps
         \/ \E a \in Patch, c \in Company, s \in Stage :
              SetStage(c, s) /\ c \in byHand'
<1> USE DEF createVars, paymentVars, taskVars, patchVars
<1>1. ASSUME NEW p \in Payment, Create(p) \/ Charge(p)
      PROVE  UNCHANGED stage \/ SetStage(CompanyOf[p], "PAYMENT_PENDING")
  BY <1>1 DEF Create, BeginCreate, CreateLink, CreateRow, CreateReadsStage,
              CreateWritesStage, Charge
<1>2. ASSUME NEW t \in Task, Deliver(t) \/ MarkByHand(t) \/ PaymentWebhook(t)
      PROVE  UNCHANGED stage
  BY <1>2 DEF Deliver, MarkByHand, PaymentWebhook
<1>3. ASSUME NEW t \in Task,
             PaymentWebhookLookup(t) \/ MatchPayment(t) \/ MatchFails(t)
      PROVE  UNCHANGED stage
  BY <1>3 DEF PaymentWebhookLookup, MatchPayment, MatchFails
<1>4. ASSUME NEW t \in Task, \/ FindByProvider(t) \/ MarkAsPaid(t)
                             \/ CheckInvoice(t) \/ DrawNumber(t) \/ InsertInvoice(t)
      PROVE  UNCHANGED stage
  BY <1>4 DEF FindByProvider, MarkAsPaid, CheckInvoice, DrawNumber, InsertInvoice
<1>5. ASSUME NEW t \in Task, OnPaymentConfirmed(t)
      PROVE  \/ UNCHANGED stage
             \/ \E s \in Stage : SetStage(CompanyFor(t), s) /\ pc[t] \in StageSteps
  BY <1>5, StageReads, StageWrites DEF OnPaymentConfirmed, Stage
<1>6. ASSUME NEW a \in Patch, WriteRequestedStage(a)
      PROVE  \E c \in Company, s \in Stage : SetStage(c, s) /\ c \in byHand'
  <2>1. PICK c \in Company, s \in Stage : target[a] = <<c, s>>
    BY <1>6 DEF WriteRequestedStage, TypeOK
  <2> QED BY <1>6, <2>1 DEF WriteRequestedStage
<1>7. ASSUME NEW a \in Patch, NEW c \in Company, NEW s \in Asked, RequestStage(a, c, s)
      PROVE  UNCHANGED stage
  BY <1>7 DEF RequestStage
<1>8. CASE Crash
  BY <1>8 DEF Crash
<1>9. CASE UNCHANGED vars
  BY <1>9 DEF vars
<1> QED BY <1>1, <1>2, <1>3, <1>4, <1>5, <1>6, <1>7, <1>8, <1>9, PaymentsAssumption
        DEF Next, Settle

\* Who moves a company on has a payment of it, or is one of the exceptions.
LEMMA KycStep ==
  ASSUME TypeOK, TaskInv, KycIsPaidFor, [Next]_vars
  PROVE  KycIsPaidFor'
<1> DEFINE Reason(c) ==
             \/ \E p \in paid : CompanyOf[p] = c
             \/ c \in byHand
             \/ \E t \in Task : /\ Kind[t] = "lookup" /\ CompanyOf[About[t]] = c
                                /\ pc[t] # "idle"
<1>1. \A c \in Company : Reason(c) => Reason(c)'
  BY OnlyGrows
<1>2. ASSUME NEW t \in Task, pc[t] \in StageSteps
      PROVE  Reason(CompanyFor(t))
  <2>1. CASE row[t] = None
    BY <1>2, <2>1 DEF TypeOK, CompanyFor, StageSteps
  <2>2. CASE row[t] # None
    BY <1>2, <2>2 DEF TaskInv, Found, CompanyFor, StageSteps
  <2> QED BY <2>1, <2>2
<1>3. \A c \in Company :
        stage'[c] = stage[c] \/ stage'[c] = "PAYMENT_PENDING" \/ Reason(c)'
  <2> HIDE DEF Reason
  <2>1. CASE UNCHANGED stage \/ \E c \in Company : SetStage(c, "PAYMENT_PENDING")
    BY <2>1 DEF SetStage, TypeOK
  <2>2. ASSUME NEW t \in Task, NEW s \in Stage, SetStage(CompanyFor(t), s),
               pc[t] \in StageSteps
        PROVE  \A c \in Company : stage'[c] = stage[c] \/ Reason(c)'
    BY <1>1, <1>2, <2>2 DEF SetStage, TypeOK
  <2>3. ASSUME NEW c \in Company, NEW s \in Stage, SetStage(c, s), c \in byHand'
        PROVE  \A d \in Company : stage'[d] = stage[d] \/ Reason(d)'
    BY <2>3 DEF SetStage, TypeOK, Reason
  <2> QED BY <2>1, <2>2, <2>3, StageSetters
<1>4. \A c \in Company :
        stage[c] \notin {"ADMIN_CREATED", "PAYMENT_PENDING"} => Reason(c)
  BY DEF KycIsPaidFor
<1> HIDE DEF Reason
<1>5. \A c \in Company :
        stage'[c] \notin {"ADMIN_CREATED", "PAYMENT_PENDING"} => Reason(c)'
  BY <1>1, <1>3, <1>4
<1> QED BY <1>5 DEF Reason, KycIsPaidFor

-----------------------------------------------------------------------------
(* One payment, one row.                                                    *)

\* How a task comes to be past its search.
LEMMA SearchSteps ==
  ASSUME TypeOK, [Next]_vars, NEW u \in Task, pc'[u] \in {"match", "mark"}
  PROVE  \/ pc'[u] = pc[u] /\ row'[u] = row[u]
         \/ FindByProvider(u) /\ pc'[u] = "match"
         \/ MatchPayment(u)
         \/ MarkByHand(u)
         \/ PaymentWebhook(u)
         \/ PaymentWebhookLookup(u)
<1> USE DEF createVars, paymentVars, patchVars, taskVars
<1>1. ASSUME NEW t \in Task, Deliver(t) \/ MarkByHand(t) \/ PaymentWebhook(t)
      PROVE  \/ pc'[u] = pc[u] /\ row'[u] = row[u]
             \/ MarkByHand(u) \/ PaymentWebhook(u)
  BY <1>1 DEF Deliver, MarkByHand, PaymentWebhook, Goto, TypeOK
<1>2. ASSUME NEW t \in Task,
             PaymentWebhookLookup(t) \/ MatchPayment(t) \/ MatchFails(t)
      PROVE  \/ pc'[u] = pc[u] /\ row'[u] = row[u]
             \/ PaymentWebhookLookup(u) \/ MatchPayment(u)
  BY <1>2 DEF PaymentWebhookLookup, MatchPayment, MatchFails, Goto, TypeOK
<1>3. ASSUME NEW t \in Task, \/ FindByProvider(t) \/ MarkAsPaid(t)
                             \/ CheckInvoice(t) \/ DrawNumber(t) \/ InsertInvoice(t)
      PROVE  \/ pc'[u] = pc[u] /\ row'[u] = row[u]
             \/ FindByProvider(u) /\ pc'[u] = "match"
  BY <1>3 DEF FindByProvider, MarkAsPaid, CheckInvoice, DrawNumber, InsertInvoice,
              Goto, TypeOK
<1>4. ASSUME NEW t \in Task, OnPaymentConfirmed(t)
      PROVE  pc'[u] = pc[u] /\ row'[u] = row[u]
  <2>1. \E s \in {"confirm", "confirming", "open", "opening", "done", "invoice"} :
          pc' = [pc EXCEPT ![t] = s]
    BY <1>4, StageReads, StageWrites DEF OnPaymentConfirmed
  <2>2. row' = row
    BY <1>4, StageReads, StageWrites DEF OnPaymentConfirmed
  <2> QED BY <2>1, <2>2 DEF TypeOK
<1>5. ASSUME Crash
      PROVE  pc'[u] = pc[u] /\ row'[u] = row[u]
  BY <1>5 DEF Crash, TaskOpen
<1> QED BY <1>1, <1>2, <1>3, <1>4, <1>5, OtherSteps DEF Next, Settle

\* A task that is past its search when another stores the same id makes the
\* payment an excused one; otherwise the search has seen every row with it.
LEMMA SearchStep ==
  ASSUME TypeOK, TaskInv, ProviderInv, SearchInv, SettledOnceUnlessOverlap,
         [Next]_vars
  PROVE  SearchInv' /\ SettledOnceUnlessOverlap'
<1>1. \A p : Excused(p) => Excused(p)'
  BY OnlyGrows DEF Excused
<1>2. \A p \in Payment : \A q, r \in Settled(p) : q # r => Excused(p)
  BY DEF SettledOnceUnlessOverlap, Settled, Excused
<1>3. SettledOnceUnlessOverlap' <=>
        \A p \in Payment : \A q, r \in Settled(p)' : q # r => Excused(p)'
  BY DEF SettledOnceUnlessOverlap, Settled, Excused
<1>4. CASE UNCHANGED paymentVars
  <2>1. \A p : Settled(p)' = Settled(p)
    BY <1>4 DEF Settled, paymentVars
  <2>2. SettledOnceUnlessOverlap'
    BY <1>1, <1>2, <1>3, <2>1
  <2>3. ASSUME NEW u \in Task, pc'[u] \in {"match", "mark"}, Kind[u] = "razorpay"
        PROVE  Settled(About[u]) = {} \/ Excused(About[u])
    <3>1. CASE pc[u] \in {"match", "mark"}
      BY <2>3, <3>1 DEF SearchInv
    <3>2. CASE FindByProvider(u) /\ pc'[u] = "match"
      <4>1. Latest(Settled(About[u])) = None
        BY <3>2 DEF FindByProvider, Goto, TypeOK
      <4>2. \A q \in Settled(About[u]) : ~Exists(q)
        BY <4>1, LatestFound
      <4>3. \A q \in Settled(About[u]) : Exists(q)
        BY PaymentsAssumption DEF ProviderInv, Settled
      <4> QED BY <4>2, <4>3
    <3> QED BY <2>3, <3>1, <3>2, SearchSteps
            DEF MatchPayment, MarkByHand, PaymentWebhook, PaymentWebhookLookup
  <2>4. ASSUME NEW u \in Task, pc'[u] = "mark", Kind[u] = "lookup"
        PROVE  Settled(About[u]) \subseteq {row'[u]} \/ Excused(About[u])
    <3>1. CASE pc'[u] = pc[u] /\ row'[u] = row[u]
      BY <2>4, <3>1 DEF SearchInv
    <3>2. CASE PaymentWebhookLookup(u)
      <4>1. row'[u] = Latest(Settled(About[u])) /\ row'[u] # None
        BY <2>4, <3>2 DEF PaymentWebhookLookup, Goto, TypeOK
      <4>2. row'[u] \in Settled(About[u])
        BY <4>1, LatestFound
      <4> QED BY <1>2, <4>2, PaymentsAssumption
    <3>3. ~MatchPayment(u)
      BY <2>4 DEF MatchPayment, TaskInv
    <3> QED BY <2>4, <3>1, <3>2, <3>3, SearchSteps
            DEF FindByProvider, MarkByHand, PaymentWebhook
  <2>5. SearchInv'
    BY <1>1, <2>1, <2>3, <2>4 DEF SearchInv
  <2> QED BY <2>2, <2>5
<1>5. ASSUME NEW t \in Task, MarkAsPaid(t), row[t] \in Payment, About[t] \in Payment
      PROVE  SearchInv' /\ SettledOnceUnlessOverlap'
  <2> DEFINE p == About[t]
  <2>1. \A q \in Payment : q # p => Settled(q)' \subseteq Settled(q)
    BY <1>5 DEF MarkAsPaid, Settled, TypeOK
  <2>2. /\ Kind[t] = "admin" => Settled(p)' = Settled(p)
        /\ Settled(p)' \subseteq Settled(p) \cup {row[t]}
    BY <1>5 DEF MarkAsPaid, Settled, TypeOK
  <2>3. /\ pc[t] = "mark"
        /\ \A u \in Task : /\ u # t => pc'[u] = pc[u]
                           /\ row'[u] = row[u]
        /\ pc'[t] = "assert"
    BY <1>5 DEF MarkAsPaid, Goto, TypeOK
  <2>4. Kind[t] = "admin" \/ Settled(p)' \subseteq {row[t]} \/ Excused(p)'
    <3>1. CASE Kind[t] = "razorpay"
      BY <1>1, <2>2, <2>3, <3>1 DEF SearchInv
    <3>2. CASE Kind[t] = "lookup"
      BY <1>1, <2>2, <2>3, <3>2 DEF SearchInv
    <3>3. CASE Kind[t] = "legacy"
      BY <1>1, <2>3, <3>3 DEF Excused
    <3> QED BY <3>1, <3>2, <3>3, PaymentsAssumption DEF Kinds
  <2>5. \A q, r \in Settled(p)' : q # r => Excused(p)'
    BY <1>1, <1>2, <1>5, <2>2, <2>4
  <2>6. SettledOnceUnlessOverlap'
    BY <1>1, <1>2, <1>3, <2>1, <2>5
  <2>7. ASSUME NEW u \in Task, u # t, About[u] = p, Kind[u] # "admin",
               pc[u] \in {"match", "mark"}
        PROVE  Excused(p)'
    <3>1. u \in Searching(t)
      BY <2>7 DEF Searching
    <3> QED BY <1>5, <3>1 DEF MarkAsPaid, RecordOverlap, Excused
  <2>8. ASSUME NEW u \in Task, pc'[u] \in {"match", "mark"}, Kind[u] = "razorpay"
        PROVE  Settled(About[u])' = {} \/ Excused(About[u])'
    <3>1. u # t /\ pc[u] \in {"match", "mark"} /\ About[u] \in Payment
      BY <2>3, <2>8, PaymentsAssumption
    <3>2. CASE About[u] = p
      BY <2>7, <2>8, <3>1, <3>2
    <3>3. CASE About[u] # p
      BY <1>1, <2>1, <2>8, <3>1, <3>3 DEF SearchInv
    <3> QED BY <3>2, <3>3
  <2>9. ASSUME NEW u \in Task, pc'[u] = "mark", Kind[u] = "lookup"
        PROVE  Settled(About[u])' \subseteq {row'[u]} \/ Excused(About[u])'
    <3>1. u # t /\ pc[u] = "mark" /\ row'[u] = row[u] /\ About[u] \in Payment
      BY <2>3, <2>9, PaymentsAssumption
    <3>2. CASE About[u] = p
      BY <2>7, <2>9, <3>1, <3>2
    <3>3. CASE About[u] # p
      BY <1>1, <2>1, <2>9, <3>1, <3>3 DEF SearchInv
    <3> QED BY <3>2, <3>3
  <2>10. SearchInv'
    BY <2>8, <2>9 DEF SearchInv
  <2> QED BY <2>6, <2>10
<1> QED BY <1>4, <1>5, MarkSteps

-----------------------------------------------------------------------------
(* Theorems.                                                                *)

\* The invariant the properties below rest on holds in every reachable state.
THEOREM Inductive == Spec => []IInv
<1>1. Init => IInv
  <2> SUFFICES ASSUME Init
               PROVE  IInv
    OBVIOUS
  <2> USE DEF Init
  <2>1. TypeOK
    BY PaymentsAssumption DEF TypeOK, CreateStep, TaskStep, StageSteps, Stage
  <2>2. NumberInv
    BY FS_EmptySet DEF NumberInv, InvoiceNumbersConsecutive
  <2>3. TaskInv /\ ProviderInv /\ SearchInv
    BY DEF TaskInv, Found, StageSteps, ProviderInv, SearchInv
  <2>4. SettledOnceUnlessOverlap
    BY PaymentsAssumption DEF SettledOnceUnlessOverlap
  <2>5. PaidHasReason /\ KycIsPaidFor
    BY DEF PaidHasReason, KycIsPaidFor
  <2> QED BY <2>1, <2>2, <2>3, <2>4, <2>5 DEF IInv
<1>2. IInv /\ [Next]_vars => IInv'
  BY TypeStep, NumberStep, TaskStepInv, ProviderStep, SearchStep, ReasonStep,
     KycStep DEF IInv
<1> QED BY <1>1, <1>2, PTL DEF Spec

\* Rows, tasks, numbers and stages have their types, and a task that is to
\* settle or invoice something has a row.
THEOREM TypeCorrect == Spec => []TypeOK
<1>1. IInv => TypeOK
  BY DEF IInv
<1> QED BY <1>1, Inductive, PTL

\* One captured payment settles one row, unless deliveries of it searched at
\* once or the older webhook was told the row.
THEOREM SettledOnce == Spec => []SettledOnceUnlessOverlap
<1>1. IInv => SettledOnceUnlessOverlap
  BY DEF IInv
<1> QED BY <1>1, Inductive, PTL

\* A row is PAID by a captured payment of its own company, or by an admin.
THEOREM PaidSafe == Spec => []PaidHasReason
<1>1. IInv => PaidHasReason
  BY DEF IInv
<1> QED BY <1>1, Inductive, PTL

\* A company leaves PAYMENT_PENDING only when one of its payments is PAID, or
\* by one of the two doors that ask for none.
THEOREM KycSafe == Spec => []KycIsPaidFor
<1>1. IInv => KycIsPaidFor
  BY DEF IInv
<1> QED BY <1>1, Inductive, PTL

\* However chains overlap, fail or die, the invoice numbers are 1 to n.
THEOREM NumbersSafe == Spec => []InvoiceNumbersConsecutive
<1>1. IInv => InvoiceNumbersConsecutive
  BY DEF IInv, NumberInv
<1> QED BY <1>1, Inductive, PTL

=============================================================================
