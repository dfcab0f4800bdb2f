---------------------------- MODULE AdminPricing ----------------------------
(***************************************************************************)
(* The prices of the public spaces as the admins set them: the page        *)
(* src/frontend/src/pages/AdminPricing.tsx, with one row under edit and a  *)
(* campaign for all rows, and the controller behind it,                    *)
(* src/src/public-bookings/admin-pricing.controller.ts, which writes a     *)
(* campaign row by row.  An amount is known by the kind of space it was    *)
(* meant for.                                                              *)
(***************************************************************************)
EXTENDS Naturals, FiniteSets

CONSTANTS
  Resource,     \* the resources
  Kind,    \* the type of each: "CONFERENCE_ROOM", "DISCUSSION_ROOM" or "DAY_PASS_DESK"
  FirstOf,   \* the first of each type in the list of locations
  Priced,  \* those with a price from the start
  MaxWork  \* bound: saves and campaigns sent

VARIABLES
  price,    \* hourlyPrice of a room and dayPrice of a desk, at the server
  rows,     \* the prices the page shows, no rows before the first answer or after a failed one
  campaignForm,  \* the amounts of the campaign form
  editing,  \* the row under edit
  editHourly, editDay,  \* its two inputs
  savingId, \* the row saved last, until any save is done with
  savingRows,    \* the rows whose save was answered and which are loaded again
  pricesLoading, \* the load of the page itself, or of its Refresh button, is on its way
  applying, \* "idle", "put" or "load": the campaign on its way
  todo, body,    \* the rows it has not written and the amounts it writes
  edited,   \* the rows saved since the last campaign was sent (history)
  applied,  \* the last campaign was answered as done (history)
  pricingWork

pricingVars == <<price, rows, campaignForm, editing, editHourly, editDay, savingId, savingRows,
                 pricesLoading, applying, todo, body, edited, applied, pricingWork>>

Kinds == {Kind[r] : r \in Resource}

None == [for |-> "nothing", is |-> "none"]
Amount(kind, is) == [for |-> kind, is |-> is]

isDesk(r) == Kind[r] = "DAY_PASS_DESK"

PricingInit ==
  /\ price = [r \in Resource |-> IF r \in Priced THEN Amount(Kind[r], "old") ELSE None]
  /\ rows = <<>>
  /\ campaignForm = [k \in Kinds |-> Amount(k, "default")]
  /\ editing = "none" /\ editHourly = None /\ editDay = None
  /\ savingId = "none" /\ savingRows = {} /\ pricesLoading = TRUE
  /\ applying = "idle" /\ todo = {} /\ body = campaignForm
  /\ edited = {} /\ applied = FALSE /\ pricingWork = 0

edit     == <<editing, editHourly, editDay>>
saves    == <<savingId, savingRows>>
campaign == <<applying, todo, body, edited, applied>>

-----------------------------------------------------------------------------
(* Loading.                                                                *)

\* The form takes the amount of the first space of each kind, if that has one.
Prefilled ==
  [k \in Kinds |-> IF price[FirstOf[k]] # None THEN price[FirstOf[k]] ELSE campaignForm[k]]

loadData ==
  \/ rows' = price /\ campaignForm' = Prefilled
  \/ rows' = <<>> /\ campaignForm' = campaignForm

loaded ==
  /\ pricesLoading /\ pricesLoading' = FALSE
  /\ loadData
  /\ UNCHANGED <<price, edit, saves, campaign, pricingWork>>

refresh ==
  /\ ~pricesLoading /\ pricesLoading' = TRUE
  /\ UNCHANGED <<price, rows, campaignForm, edit, saves, campaign, pricingWork>>

-----------------------------------------------------------------------------
(* One row.                                                                *)

\* Both inputs take the amounts of the row, of which it has one.
KeptText(r) == editHourly' = editHourly /\ editDay' = editDay
OwnText(r) ==
  /\ editHourly' = IF isDesk(r) THEN None ELSE rows[r]
  /\ editDay' = IF isDesk(r) THEN rows[r] ELSE None

handleStartEdit(r) ==
  /\ r \in DOMAIN rows /\ editing # r
  /\ editing' = r
  /\ OwnText(r)
  /\ UNCHANGED <<price, rows, campaignForm, saves, pricesLoading, campaign, pricingWork>>

handleCancelEdit ==
  /\ editing \in DOMAIN rows /\ editing # savingId
  /\ editing' = "none" /\ editHourly' = None /\ editDay' = None
  /\ UNCHANGED <<price, rows, campaignForm, saves, pricesLoading, campaign, pricingWork>>

type ==
  /\ editing \in DOMAIN rows
  /\ \E text \in {Amount(Kind[editing], "new"), None} :
       IF isDesk(editing) THEN editDay' = text /\ editHourly' = editHourly
                          ELSE editHourly' = text /\ editDay' = editDay
  /\ UNCHANGED <<price, rows, campaignForm, editing, saves, pricesLoading, campaign, pricingWork>>

\* The save takes along what the input of the row says; it may be lost, or its answer.
handleSaveEdit(r) ==
  /\ editing = r /\ r \in DOMAIN rows /\ r # savingId /\ pricingWork < MaxWork
  /\ pricingWork' = pricingWork + 1
  /\ \/ /\ price' = [price EXCEPT ![r] = IF isDesk(r) THEN editDay ELSE editHourly]
        /\ edited' = edited \cup {r}
        /\ \/ savingRows' = savingRows \cup {r} /\ savingId' = r
           \/ UNCHANGED savingRows /\ savingId' = "none"
     \/ UNCHANGED <<price, edited, savingRows>> /\ savingId' = "none"
  /\ UNCHANGED <<rows, campaignForm, edit, pricesLoading, applying, todo, body, applied>>

\* Once the rows are loaded again, whatever edit is open is closed.
saved(r) ==
  /\ r \in savingRows
  /\ savingRows' = savingRows \ {r} /\ savingId' = "none"
  /\ loadData
  /\ editing' = "none"
  /\ UNCHANGED <<price, editHourly, editDay, pricesLoading, campaign, pricingWork>>

\* Another admin saves a row.
savedElsewhere(r) ==
  /\ pricingWork < MaxWork
  /\ pricingWork' = pricingWork + 1
  /\ price' = [price EXCEPT ![r] = Amount(Kind[r], "new")]
  /\ edited' = edited \cup {r}
  /\ UNCHANGED <<rows, campaignForm, edit, saves, pricesLoading, applying, todo, body, applied>>

-----------------------------------------------------------------------------
(* All rows.                                                               *)

setForm ==
  /\ \E k \in Kinds : campaignForm' = [campaignForm EXCEPT ![k] = Amount(k, "new")]
  /\ UNCHANGED <<price, rows, edit, saves, pricesLoading, campaign, pricingWork>>

OfAllRows == Resource

handleApplyCampaign ==
  /\ applying = "idle" /\ pricingWork < MaxWork
  /\ applying' = "put" /\ pricingWork' = pricingWork + 1
  /\ body' = campaignForm /\ todo' = OfAllRows
  /\ edited' = {} /\ applied' = FALSE
  /\ UNCHANGED <<price, rows, campaignForm, edit, saves, pricesLoading>>

Order == [CONFERENCE_ROOM |-> 1, DISCUSSION_ROOM |-> 2, DAY_PASS_DESK |-> 3]

upsert(r) ==
  /\ applying = "put" /\ r \in todo
  /\ \A q \in todo : Order[Kind[r]] <= Order[Kind[q]]
  /\ price' = [price EXCEPT ![r] = body[Kind[r]]]
  /\ todo' = todo \ {r}
  /\ UNCHANGED <<rows, campaignForm, edit, saves, pricesLoading, applying, body, edited, applied,
                 pricingWork>>

\* A write that fails ends the campaign half way; a lost answer looks the same.
campaignAnswered ==
  /\ applying = "put"
  /\ \/ todo = {} /\ applying' = "load" /\ applied' = TRUE
     \/ applying' = "idle" /\ applied' = FALSE
  /\ todo' = {}
  /\ UNCHANGED <<price, rows, campaignForm, edit, saves, pricesLoading, body, edited, pricingWork>>

campaignShown ==
  /\ applying = "load"
  /\ applying' = "idle"
  /\ loadData
  /\ UNCHANGED <<price, edit, saves, pricesLoading, todo, body, edited, applied, pricingWork>>

PricingNext ==
  \/ loaded \/ refresh \/ handleCancelEdit \/ type \/ setForm
  \/ handleApplyCampaign \/ campaignAnswered \/ campaignShown
  \/ \E r \in Resource : \/ handleStartEdit(r) \/ handleSaveEdit(r) \/ saved(r)
                         \/ savedElsewhere(r) \/ upsert(r)

-----------------------------------------------------------------------------
(* Properties.                                                             *)

\* A price is one that somebody meant for a space of that kind, whichever row was under
\* edit before, and whatever the answers did to the open edit.
PriceOfItsKind == \A r \in Resource : price[r] # None => price[r].for = Kind[r]

\* After a campaign that said it was done, every space has the amount of its kind, also
\* one that had no price, except those an admin saved since it was sent.
CampaignReachesAll ==
  applied => \A r \in Resource \ edited : price[r] = body[Kind[r]]

=============================================================================
