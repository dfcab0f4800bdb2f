------------------------- MODULE InvoiceProfilePage -------------------------
(***************************************************************************)
(* The page on which an aggregator keeps whom to invoice,                  *)
(* src/frontend/src/pages/AggregatorInvoiceProfile.tsx, and its row at the *)
(* server, which is replaced as a whole:                                   *)
(* src/src/aggregator-profile/aggregator-profile.service.ts.  The name and *)
(* the tax number stand for the five fields.                               *)
(***************************************************************************)
EXTENDS Naturals

CONSTANT MaxSave \* bound: saves sent from the page and from elsewhere

Field == {"legalName", "gstin"}
EMPTY == [f \in Field |-> "empty"]

VARIABLES
  stored,   \* the row, EMPTY if there is none
  form,
  loading, saving,
  touched,  \* the fields typed into since the form was last filled (history)
  told,     \* the page said that it could not load, and was not filled since (history)
  elsewhere,\* the row was changed elsewhere since the form was filled (history)
  saves

profileVars == <<stored, form, loading, saving, touched, told, elsewhere, saves>>

ProfileInit ==
  /\ stored \in {EMPTY, [f \in Field |-> "old"]}
  /\ form = EMPTY /\ loading = TRUE /\ saving = FALSE
  /\ touched = {} /\ told = FALSE /\ elsewhere = FALSE /\ saves = 0

Fill(row) == form' = row /\ touched' = {} /\ elsewhere' = FALSE /\ told' = FALSE

profileCame ==
  /\ loading /\ loading' = FALSE
  /\ \/ Fill(stored)
     \/ told' = TRUE /\ UNCHANGED <<form, touched, elsewhere>>
  /\ UNCHANGED <<stored, saving, saves>>

\* While it loads the page has no form.
EditableAtOnce == ~saving
Editable       == ~loading /\ ~saving

handleChange ==
  /\ Editable
  /\ \E f \in Field, text \in {"typed", "empty"} :
       form' = [form EXCEPT ![f] = text] /\ touched' = touched \cup {f}
  /\ UNCHANGED <<stored, loading, saving, told, elsewhere, saves>>

handleSubmit ==
  /\ Editable /\ form["legalName"] # "empty" /\ saves < MaxSave
  /\ saving' = TRUE /\ saves' = saves + 1
  /\ UNCHANGED <<stored, form, loading, touched, told, elsewhere>>

\* The answer, which fills the form with what was stored, may fail to come.
saved ==
  /\ saving /\ saving' = FALSE
  /\ \/ stored' = form /\ Fill(form)
     \/ stored' \in {form, stored} /\ UNCHANGED <<form, touched, told, elsewhere>>
  /\ UNCHANGED <<loading, saves>>

\* A client is registered in another tab, with its invoice fields saved to the profile.
savedElsewhere ==
  /\ saves < MaxSave
  /\ stored' = [f \in Field |-> "other"]
  /\ elsewhere' = TRUE /\ saves' = saves + 1
  /\ UNCHANGED <<form, loading, saving, touched, told>>

ProfileNext == profileCame \/ handleChange \/ handleSubmit \/ saved \/ savedElsewhere

\* A save changes no field that the aggregator left alone, unless the page had said that
\* it could not load what is stored, or that was changed elsewhere in the meantime.
SaveKeepsUntouched ==
  saving /\ ~saving' /\ ~told /\ ~elsewhere =>
    \A f \in Field \ touched : stored'[f] = stored[f]

=============================================================================
