--------------------------- MODULE PaymentAmounts ---------------------------
(***************************************************************************)
(* The money of an onboarding payment, from the form an admin fills in     *)
(* (src/frontend/src/components/company-detail/CompanyReviewActionsTab.tsx)*)
(* over the payment link and its mail (src/src/payments/) to the invoice   *)
(* of what was paid (src/src/invoices/invoices.service.ts).  Whose payment *)
(* it is, and who else works on it, is in Payments and CompanyReviewPage.  *)
(*                                                                         *)
(* An amount typed in is in tenths of a paisa, an amount of a payment in   *)
(* paise, one of an invoice in ten-thousandths of a paisa, which is not    *)
(* rounded; a rate is in hundredths of a percent.  A half is rounded up:   *)
(* the code's binary fractions may put it on either side, the same one in  *)
(* both copies of the calculation.                                         *)
(***************************************************************************)
EXTENDS Integers

CONSTANTS
  Amounts,         \* amounts typed in, 0 for none
  Rates,           \* rates typed in
  GST_RATE, TDS_RATE, \* of the server's environment: an even rate, and 0 unless TDS applies
  MaxTyping        \* bound: changes of the form

NaN == 99999 \* what a rate is that is no number

VARIABLES
  amounts,   \* the form: includeGst, taxMode, amount, taxable and the three rates
  creating,  \* the request under way, or no request
  onScreen,  \* the preview beside the button when it was pressed (history)
  payment,   \* the row of the payment, or no payment
  letter,    \* the amounts of the last mail written with the link, or no mail
  billed,    \* its invoice, or no invoice
  inKarnataka, \* the company is: its taxes are CGST and SGST
  typings

amountsVars == <<amounts, creating, onScreen, payment, letter, billed, inKarnataka, typings>>

Nothing == [gstMode |-> "nothing"]

AmountsInit ==
  /\ amounts = [includeGst |-> FALSE, taxMode |-> "CGST_SGST", amount |-> 0, taxable |-> 0,
                cgst |-> 500, sgst |-> 500, igst |-> 1800]
  /\ creating = Nothing /\ onScreen = Nothing /\ payment = Nothing /\ billed = Nothing
  /\ letter = Nothing
  /\ inKarnataka \in BOOLEAN /\ typings = 0

-----------------------------------------------------------------------------
\* Tenths of a paisa to paise.
round2(value) == (value + 5) \div 10

\* The paise of a tax on tenths of a paisa.
taxOn(value, rate) == (2 * value * rate + 100000) \div 200000

Input(mode, amount, taxable, cgst, sgst, igst) ==
  [gstMode |-> mode, amount |-> amount, taxable |-> taxable,
   cgst |-> cgst, sgst |-> sgst, igst |-> igst]

\* The amounts, and the rates that apply to them.
Totals(in, cgst, sgst, igst, total) ==
  [gstMode |-> in.gstMode, cgst |-> cgst, sgst |-> sgst, igst |-> igst, total |-> total,
   taxable |-> round2(IF in.gstMode = "NONE" THEN in.amount ELSE in.taxable),
   rates |-> [cgst |-> IF in.gstMode = "CGST_SGST" THEN in.cgst ELSE NaN,
              sgst |-> IF in.gstMode = "CGST_SGST" THEN in.sgst ELSE NaN,
              igst |-> IF in.gstMode = "IGST" THEN in.igst ELSE NaN]]

\* The amounts of a payment with these taxes, Nothing where the code throws; the total is
\* rounded once more.
TotalsOf(in, cgst, sgst, igst) ==
  CASE in.gstMode = "NONE" /\ in.amount > 0 ->
         Totals(in, 0, 0, 0, round2(in.amount))
  [] in.gstMode = "CGST_SGST" /\ in.taxable > 0 /\ NaN \notin {in.cgst, in.sgst} ->
         Totals(in, cgst, sgst, 0, round2(in.taxable + 10 * (cgst + sgst)))
  [] in.gstMode = "IGST" /\ in.taxable > 0 /\ in.igst # NaN ->
         Totals(in, 0, 0, igst, round2(in.taxable + 10 * igst))
  [] OTHER -> Nothing

Taxed(in) == TotalsOf(in, taxOn(in.taxable, in.cgst), taxOn(in.taxable, in.sgst),
                      taxOn(in.taxable, in.igst))

TaxDown(value, rate) == (value * rate) \div 100000
RoundedDown(in) == \* a slip
  TotalsOf(in, TaxDown(in.taxable, in.cgst), TaxDown(in.taxable, in.sgst),
           TaxDown(in.taxable, in.igst))

\* The server's calculation, and the page's copy of it.
computePaymentTotals(in) == Taxed(in)
computeOnPage(in)        == Taxed(in)

preview ==
  computeOnPage(
    IF ~amounts.includeGst THEN Input("NONE", amounts.amount, 0, NaN, NaN, NaN)
    ELSE IF amounts.taxMode = "CGST_SGST"
         THEN Input("CGST_SGST", 0, amounts.taxable, amounts.cgst, amounts.sgst, NaN)
         ELSE Input("IGST", 0, amounts.taxable, NaN, NaN, amounts.igst))

canGenerate == preview # Nothing /\ preview.total > 0

\* What the page asks for: the base as the preview has it, with the rates of the form.
requested ==
  IF ~amounts.includeGst THEN Input("NONE", 10 * preview.total, 0, NaN, NaN, NaN)
  ELSE IF amounts.taxMode = "CGST_SGST"
       THEN Input("CGST_SGST", 0, 10 * preview.taxable, amounts.cgst, amounts.sgst, NaN)
       ELSE Input("IGST", 0, 10 * preview.taxable, NaN, NaN, amounts.igst)

\* What the server takes: the amount of its kind, above nothing, and rates up to 100 %.
createPaymentSchema(in) ==
  /\ in.gstMode = "NONE" => in.amount > 0
  /\ in.gstMode # "NONE" => in.taxable > 0
  /\ \A rate \in {in.cgst, in.sgst, in.igst} : rate # NaN => rate <= 10000
  /\ in.gstMode = "CGST_SGST" => NaN \notin {in.cgst, in.sgst}
  /\ in.gstMode = "IGST" => in.igst # NaN

-----------------------------------------------------------------------------
\* The form is there until there is a payment, and closed while one is asked for.
Open == payment = Nothing /\ creating = Nothing

typed ==
  /\ Open /\ typings < MaxTyping /\ typings' = typings + 1
  /\ \/ amounts' = [amounts EXCEPT !.includeGst = ~@]
     \/ amounts.includeGst /\ \E mode \in {"CGST_SGST", "IGST"} \ {amounts.taxMode} :
          amounts' = [amounts EXCEPT !.taxMode = mode]
     \/ \E a \in Amounts : amounts' = IF amounts.includeGst
                                      THEN [amounts EXCEPT !.taxable = a]
                                      ELSE [amounts EXCEPT !.amount = a]
     \/ /\ amounts.includeGst
        /\ \E r \in Rates \cup {NaN} :
             IF amounts.taxMode = "CGST_SGST"
             THEN amounts' \in {[amounts EXCEPT !.cgst = r], [amounts EXCEPT !.sgst = r]}
             ELSE amounts' = [amounts EXCEPT !.igst = r]
  /\ UNCHANGED <<creating, onScreen, payment, letter, billed, inKarnataka>>

handleGenerate ==
  /\ Open /\ canGenerate
  /\ creating' = requested /\ onScreen' = preview
  /\ UNCHANGED <<amounts, payment, letter, billed, inKarnataka, typings>>

\* What a mail says of amounts, 0 for one it leaves out.
formatPaymentAmountForEmail(t) ==
  [gstMode |-> t.gstMode, total |-> t.total,
   parts |-> IF t.gstMode = "NONE" THEN <<>>
             ELSE IF t.gstMode = "CGST_SGST" THEN <<t.taxable, t.cgst, t.sgst>>
             ELSE <<t.taxable, t.igst, 0>>]

\* Of a payment with taxes the row tells the amounts, of another the calculation.
buildEmailBreakdown(totals, row) ==
  formatPaymentAmountForEmail(IF row.gstMode = "NONE" THEN totals ELSE row)

\* create of the payments: the link and the row are for the total.  Razorpay may refuse,
\* and is sure to be asked for nothing the server itself refuses.
paymentCreated ==
  /\ creating # Nothing /\ creating' = Nothing
  /\ \/ LET totals == computePaymentTotals(creating)
        IN /\ createPaymentSchema(creating) /\ totals # Nothing
           /\ payment' = totals /\ letter' = buildEmailBreakdown(totals, totals)
           /\ UNCHANGED onScreen
     \/ onScreen' = Nothing /\ UNCHANGED <<payment, letter>>
  /\ UNCHANGED <<amounts, billed, inKarnataka, typings>>

\* The amounts are calculated once more, from the row of a payment that is not yet paid.
Stored(row) ==
  Input(row.gstMode, IF row.gstMode = "NONE" THEN 10 * row.total ELSE 0,
        IF row.gstMode = "NONE" THEN 0 ELSE 10 * row.taxable,
        row.rates.cgst, row.rates.sgst, row.rates.igst)

resendPaymentLink ==
  /\ payment # Nothing /\ billed = Nothing
  /\ LET again == computePaymentTotals(Stored(payment))
     IN letter' = IF again = Nothing THEN Nothing ELSE buildEmailBreakdown(again, payment)
  /\ UNCHANGED <<amounts, creating, onScreen, payment, billed, inKarnataka, typings>>

\* The invoice takes over the taxes of the link; on top of an amount that had none it puts
\* the tax of the company's state, and takes off what the client withholds.
InvoiceOf(p) ==
  LET Scale   == 10000
      stored  == p.gstMode # "NONE"
      taxable == IF stored THEN p.taxable ELSE p.total
      half    == (taxable * GST_RATE) \div 2
      cgst    == IF stored THEN p.cgst * Scale ELSE IF inKarnataka THEN half ELSE 0
      sgst    == IF stored THEN p.sgst * Scale ELSE IF inKarnataka THEN half ELSE 0
      igst    == IF stored THEN p.igst * Scale ELSE IF inKarnataka THEN 0 ELSE 2 * half
      tds     == taxable * TDS_RATE
  IN [amount |-> taxable * Scale, gst |-> cgst + sgst + igst,
      cgst |-> cgst, sgst |-> sgst, igst |-> igst, tds |-> tds,
      total |-> (IF stored THEN p.total * Scale ELSE taxable * Scale + 2 * half) - tds]

generateInvoiceForPayment ==
  /\ payment # Nothing /\ billed = Nothing
  /\ billed' = InvoiceOf(payment)
  /\ UNCHANGED <<amounts, creating, onScreen, payment, letter, inKarnataka, typings>>

AmountsNext ==
  typed \/ handleGenerate \/ paymentCreated \/ resendPaymentLink \/ generateInvoiceForPayment

-----------------------------------------------------------------------------
Near(a, b, d) == a - b \in -d..d

\* The link is for what the admin saw beside the button: to the paisa if the base was in
\* whole paise, else within a paisa for each of two taxes; and what the mails tell the
\* client, the first and those sent again, adds up to the link.
ChargedAsShown ==
  payment # Nothing =>
    LET base == IF payment.gstMode = "NONE" THEN amounts.amount ELSE amounts.taxable
    IN /\ payment.taxable = onScreen.taxable
       /\ IF base % 10 = 0 THEN payment = onScreen ELSE Near(payment.total, onScreen.total, 2)
       /\ letter # Nothing /\ letter.total = payment.total
       /\ letter.parts # <<>> =>
            letter.parts[1] + letter.parts[2] + letter.parts[3] = letter.total

\* An invoice adds up, has the taxes of one kind only, and is for what was paid if the
\* link had its taxes on it.
InvoicedAsPaid ==
  billed # Nothing =>
    /\ billed.total + billed.tds = billed.amount + billed.gst
    /\ billed.gst = billed.cgst + billed.sgst + billed.igst
    /\ billed.igst = 0 \/ billed.cgst + billed.sgst = 0
    /\ payment.gstMode # "NONE" => billed.total + billed.tds = payment.total * 10000
    /\ payment.gstMode = "NONE" => billed.amount = payment.total * 10000

=============================================================================
