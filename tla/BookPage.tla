------------------------------ MODULE BookPage ------------------------------
(***************************************************************************)
(* The public page on which a visitor books a space:                       *)
(* src/frontend/src/pages/Book.tsx, with BookSuccess.tsx it ends on.  The  *)
(* page of one resource is opened from BookListing.  Its calls of the      *)
(* server are answered in any order, and the visitor goes on clicking      *)
(* meanwhile.  The number of desks, the coupon and the amounts are left    *)
(* out: nothing the page decides depends on them.                          *)
(***************************************************************************)
EXTENDS Naturals, Sequences, FiniteSets, SequencesExt

CONSTANTS
  Date,    \* the days a visitor may pick
  Slot,    \* the time slots of the resource
  IsDesk,  \* the resource is a day-pass desk
  MaxAsk,  \* bound: price questions under way at once
  MaxOrder \* bound: orders sent in a visit

VARIABLES
  bookView,      \* "loading", "form", "error", "left" or "success"
  step,
  date,
  timer,     \* the 300 ms of useDebouncedValue are running
  pricing,   \* the answer shown, None if there is none
  pricingLoading,
  selected,  \* selectedSlots
  details,   \* validDetails
  submitting,
  questions,     \* the days of the price questions not answered yet, oldest first
  attempt,   \* the handlePayment in progress: the values of its closure, and what it awaits
  checkout,  \* the order whose Razorpay window is open
  success,   \* what the success page shows, and the order that led to it
  sent,      \* bound: how many orders were sent
  overlap    \* a question was asked before the one before it was answered

bookVars == <<bookView, step, date, timer, pricing, pricingLoading, selected, details, submitting,
              questions, attempt, checkout, success, sent, overlap>>

None == [date |-> "none", slots |-> {}]

BookInit ==
  /\ bookView = "loading" /\ step = 3
  /\ date = "none" /\ timer = FALSE
  /\ pricing = None /\ pricingLoading = FALSE /\ selected = {} /\ details = FALSE
  /\ submitting = FALSE /\ questions = <<>>
  /\ attempt = [at |-> "nothing", order |-> None, seen |-> None, overlap |-> FALSE]
  /\ checkout = None
  /\ success = [shown |-> None, order |-> None]
  /\ sent = 0 /\ overlap = FALSE

\* The Razorpay window covers the page.
Clickable == bookView = "form" /\ checkout = None

order  == <<attempt, checkout, success, sent>>
prices == <<pricing, pricingLoading, questions, overlap>>

-----------------------------------------------------------------------------
\* getLocations finds the resource of the URL, does not, or fails.
locationsLoaded ==
  /\ bookView = "loading"
  /\ bookView' \in {"form", "left", "error"}
  /\ UNCHANGED <<step, date, timer, prices, selected, details, submitting, order>>

\* A day may be picked or unpicked; the picked slots go, the answer shown stays.
handleDateSelect(d) ==
  /\ Clickable /\ step = 3
  /\ date' = d /\ timer' = TRUE
  /\ selected' = {}
  /\ UNCHANGED <<bookView, step, prices, details, submitting, order>>

KeptSelection == selected
ClearedSelection == {}

\* The effect of a new debouncedDate: questions that are under way are not withdrawn.
debouncedDate ==
  /\ bookView = "form" /\ timer
  /\ timer' = FALSE
  /\ pricing' = None
  /\ selected' = ClearedSelection
  /\ IF date = "none"
       THEN UNCHANGED <<pricingLoading, questions, overlap>>
       ELSE /\ Len(questions) < MaxAsk
            /\ pricingLoading' = TRUE
            /\ questions' = Append(questions, date)
            /\ overlap' = (questions # <<>>)
  /\ UNCHANGED <<bookView, step, date, details, submitting, order>>

\* A single free slot is picked for the visitor.
pricingAnswered(i) ==
  /\ bookView = "form" /\ i \in DOMAIN questions
  /\ questions' = RemoveAt(questions, i)
  /\ pricingLoading' = FALSE
  /\ \/ \E free \in SUBSET Slot :
          /\ pricing' = [date |-> questions[i], slots |-> free]
          /\ selected' = IF Cardinality(free) = 1 THEN free ELSE selected
     \/ pricing' = None /\ selected' = {}
  /\ UNCHANGED <<bookView, step, date, timer, details, submitting, order, overlap>>

effectiveSlots ==
  IF selected # {} \/ ~IsDesk \/ pricing.slots = {} THEN selected
  ELSE {CHOOSE s \in pricing.slots : TRUE}

\* A full slot is shown, and cannot be clicked.
handleSlotSelect(s) ==
  /\ Clickable /\ step = 4 /\ ~pricingLoading
  /\ s \in pricing.slots
  /\ selected' = IF s \in selected THEN selected \ {s}
                 ELSE IF IsDesk THEN {s} ELSE selected \cup {s}
  /\ UNCHANGED <<bookView, step, date, timer, prices, details, submitting, order>>

typeDetails ==
  /\ Clickable /\ step = 5
  /\ details' \in BOOLEAN
  /\ UNCHANGED <<bookView, step, date, timer, prices, selected, submitting, order>>

CanContinue ==
  \/ step = 3 /\ date # "none"
  \/ step = 4 /\ effectiveSlots # {} /\ ~pricingLoading
  \/ step = 5 /\ details

goNext ==
  /\ Clickable /\ CanContinue
  /\ step' = step + 1
  /\ UNCHANGED <<bookView, date, timer, prices, selected, details, submitting, order>>

goBack ==
  /\ Clickable
  /\ IF step = 3 THEN bookView' = "left" /\ UNCHANGED step
     ELSE step' = step - 1 /\ UNCHANGED bookView
  /\ UNCHANGED <<date, timer, prices, selected, details, submitting, order>>

-----------------------------------------------------------------------------
(* Payment.                                                                *)

Ready == date # "none" /\ details /\ effectiveSlots # {}

\* Nobody comes from the calendar to the last button within the 300 ms of the timer.
handlePayment ==
  /\ Clickable /\ step = 6 /\ ~submitting /\ Ready /\ ~timer
  /\ sent < MaxOrder
  /\ submitting' = TRUE
  /\ attempt' = [at |-> "order", order |-> [date |-> date, slots |-> effectiveSlots],
                 seen |-> pricing, overlap |-> overlap]
  /\ sent' = sent + 1
  /\ UNCHANGED <<bookView, step, date, timer, prices, selected, details, checkout, success>>

NoAttempt == [at |-> "nothing", order |-> None, seen |-> None, overlap |-> FALSE]

\* The success page is handed the values handlePayment was called with.
WhatWasOrdered(o) == o

Succeed(o) == bookView' = "success" /\ success' = [shown |-> WhatWasOrdered(o), order |-> o]

page == <<step, date, timer, prices, selected, details, sent>>

\* A zero amount or a valid coupon needs no payment.  The visitor may have left the
\* page: what handlePayment has still to do it does all the same.
orderAnswered ==
  /\ attempt.at = "order"
  /\ \/ attempt' = [attempt EXCEPT !.at = "script"] /\ UNCHANGED <<bookView, submitting, success>>
     \/ Succeed(attempt.order) /\ attempt' = NoAttempt /\ submitting' = FALSE
     \/ attempt' = NoAttempt /\ submitting' = FALSE /\ UNCHANGED <<bookView, success>>
  /\ UNCHANGED <<page, checkout>>

\* The key or the script of Razorpay may be missing; the button comes back either way.
scriptLoaded ==
  /\ attempt.at = "script"
  /\ checkout' \in {attempt.order, None}
  /\ attempt' = NoAttempt /\ submitting' = FALSE
  /\ UNCHANGED <<page, bookView, success>>

checkoutPaid ==
  /\ checkout # None
  /\ Succeed(checkout)
  /\ checkout' = None
  /\ UNCHANGED <<page, submitting, attempt>>

\* A failed payment leaves the window open; the visitor may close it.
checkoutClosed ==
  /\ checkout # None
  /\ checkout' = None
  /\ UNCHANGED <<page, bookView, submitting, attempt, success>>

BookNext ==
  \/ locationsLoaded \/ debouncedDate \/ typeDetails \/ goNext \/ goBack
  \/ \E d \in Date \cup {"none"} : handleDateSelect(d)
  \/ \E i \in 1..MaxAsk : pricingAnswered(i)
  \/ \E s \in Slot : handleSlotSelect(s)
  \/ handlePayment \/ orderAnswered \/ scriptLoaded \/ checkoutPaid \/ checkoutClosed


-----------------------------------------------------------------------------
(* Properties.                                                             *)

\* An order asks only for slots that the server's answer for the ordered day offered,
\* although the answer of another day may be on the screen when a day is picked: the
\* page fails it only where two price questions were under way at once, since it shows
\* the last answer to arrive, not that of the last question.
OrderWasOffered ==
  attempt.at # "nothing" /\ ~attempt.overlap =>
    attempt.seen.date = attempt.order.date /\ attempt.order.slots \subseteq attempt.seen.slots

\* The success page shows the day and slots of the order it is about, whatever the
\* visitor has picked on the form while the order was being answered.
SuccessShowsTheOrder == success.shown = success.order

=============================================================================
