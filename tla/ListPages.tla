------------------------------ MODULE ListPages -----------------------------
(***************************************************************************)
(* The paged lists of src/frontend/src/pages: AdminPayments, AdminBookings,*)
(* AdminInvoices and ClientInvoices.  A change of a filter or of the page  *)
(* sends a load whose answer replaces the rows, and nothing orders the     *)
(* answers of two loads.  One filter stands for the status, dates, company *)
(* and location; a query is what the fields of a page say.                 *)
(***************************************************************************)
EXTENDS Naturals, Sequences, SequencesExt

CONSTANTS
  Hits,    \* the pages on which the text searched for is found, of the 2 unfiltered ones
  MaxCalls \* bound: loads on their way

VARIABLES
  list,       \* the open page
  asked,      \* what its fields say
  calls,      \* the queries of the loads on their way, the oldest first
  listLoading,\* as the page has it: the first answer of several lowers it
  shown,      \* the query of the rows shown, None before the first and after a failed load
  pagination, \* the number of pages the last answer told, 0 if there is none
  crossed,    \* of the loads now or last on their way, one was overtaken (history)
  hasty       \* the page was turned before the rows were those of the query (history)

listsVars == <<list, asked, calls, listLoading, shown, pagination, crossed, hasty>>

First == [filter |-> FALSE, search |-> FALSE, page |-> 1]
None  == [filter |-> FALSE, search |-> FALSE, page |-> 0]

\* The fields whose change makes the page load.  In the other fields a change is
\* only used by the next load.
OnFilterOnly          == {"filter"}
AdminPaymentsReloads  == {"filter", "page"}
AdminBookingsReloads  == {"filter", "search", "page"}
AdminInvoicesReloads  == {"filter", "page"}
ClientInvoicesReloads == {"page"}

Reloads == [AdminPayments  |-> AdminPaymentsReloads,  AdminBookings  |-> AdminBookingsReloads,
            AdminInvoices  |-> AdminInvoicesReloads,  ClientInvoices |-> ClientInvoicesReloads]

\* Only the bookings are searched by the server; the others search the page they got.
Pages(q) == IF q.filter \/ (q.search /\ list = "AdminBookings") THEN 1 ELSE 2

Rows(q) == /\ q # None
           /\ q.page <= Pages(q)
           /\ q.search /\ list # "AdminBookings" => q.page \in Hits

ListsInit ==
  /\ list \in DOMAIN Reloads
  /\ asked = First /\ calls = <<First>> /\ listLoading = TRUE
  /\ shown = None /\ pagination = 0 /\ crossed = FALSE /\ hasty = FALSE

\* While it loads for the first time, or again after a failure, a page has no inputs;
\* the page of the client has none whenever it loads, that of the bookings always.
Inputs == \/ list = "AdminBookings"
          \/ ~listLoading
          \/ list # "ClientInvoices" /\ pagination # 0

\* The rows and the number of pages are of the last query.
Settled == calls = <<>> /\ ~crossed /\ shown # None

Send(qs) ==
  /\ Len(calls) + Len(qs) <= MaxCalls
  /\ calls' = calls \o qs /\ listLoading' = TRUE
  /\ crossed' = (crossed /\ calls # <<>>)

\* The fields become q; the effect of the page loads if one it depends on changed.
Ask(q) ==
  /\ Inputs
  /\ asked' = q
  /\ IF \E f \in Reloads[list] : q[f] # asked[f]
       THEN Send(<<q>>)
       ELSE UNCHANGED <<calls, listLoading, crossed>>
  /\ hasty' = ((q.page > asked.page /\ ~Settled) \/ (hasty /\ q.page > 1))
  /\ UNCHANGED <<list, shown, pagination>>

-----------------------------------------------------------------------------
FirstPage == 1

setFilter ==
  /\ list # "ClientInvoices"
  /\ Ask([asked EXCEPT !.filter = ~@, !.page = FirstPage])

setSearchQuery ==
  /\ list # "ClientInvoices"
  /\ Ask([asked EXCEPT !.search = ~@])

clearFilters ==
  /\ list # "ClientInvoices" /\ (asked.filter \/ asked.search)
  /\ Ask(First)

\* The buttons of the pages are below the rows; only the bookings show them without.
Paged == pagination > 1 /\ (Rows(shown) \/ list = "AdminBookings")

previous == Paged /\ asked.page > 1 /\ Ask([asked EXCEPT !.page = @ - 1])
next     == Paged /\ asked.page < pagination /\ Ask([asked EXCEPT !.page = @ + 1])

\* The load of the search button and that of the effect, if the page changes, are both sent.
handleSearch ==
  /\ list = "AdminBookings"
  /\ LET q == [asked EXCEPT !.page = 1]
     IN  asked' = q /\ Send(IF q = asked THEN <<q>> ELSE <<q, q>>)
  /\ hasty' = FALSE
  /\ UNCHANGED <<list, shown, pagination>>

refreshed ==
  /\ list = "AdminBookings"
  /\ Send(<<asked>>)
  /\ UNCHANGED <<list, asked, shown, pagination, hasty>>

-----------------------------------------------------------------------------
Answered(i) ==
  /\ i \in DOMAIN calls
  /\ calls' = RemoveAt(calls, i) /\ listLoading' = FALSE
  /\ crossed' = (crossed \/ i > 1)
  /\ UNCHANGED <<list, asked, hasty>>

loaded(i) ==
  /\ Answered(i)
  /\ shown' = calls[i]
  /\ pagination' = Pages(calls[i])

loadFailed(i) ==
  /\ Answered(i)
  /\ shown' = None
  /\ pagination' = IF list \in {"AdminPayments", "AdminInvoices"} THEN 0 ELSE pagination

ListsNext ==
  \/ setFilter \/ setSearchQuery \/ clearFilters \/ previous \/ next \/ handleSearch \/ refreshed
  \/ \E i \in 1..MaxCalls : loaded(i) \/ loadFailed(i)

-----------------------------------------------------------------------------
(* Properties.                                                             *)

\* When nothing is on its way and no answer overtook an older one, the rows are those
\* of the page and the filters on the screen, unless the load failed and there are none.
\* The text searched for is only sure to be used in the bookings.
RowsAreOfTheFilters ==
  Settled =>
    /\ shown.page = asked.page /\ shown.filter = asked.filter
    /\ list = "AdminBookings" => shown.search = asked.search

\* A page that the list does not have, which says that nothing was found and takes the
\* buttons away that lead back, is only shown after the page was turned before the answer
\* to a filter came, or where a text is typed on a later page of the bookings.
PageExists ==
  Settled /\ ~hasty =>
    asked.page <= Pages(asked) \/ (list = "AdminBookings" /\ asked.search)

=============================================================================
