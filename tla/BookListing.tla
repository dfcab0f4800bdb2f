----------------------------- MODULE BookListing ----------------------------
(***************************************************************************)
(* The public list of spaces, src/frontend/src/pages/BookListing.tsx: its  *)
(* filters, which of the spaces it shows, and the number of filters its    *)
(* button says are on.                                                     *)
(***************************************************************************)
EXTENDS Naturals, FiniteSets

CONSTANTS
  Space,     \* the resources of all locations
  SpaceType, \* "CONFERENCE_ROOM", "DISCUSSION_ROOM" or "DAY_PASS_DESK" of a space
  Place,     \* the location of a space
  Price,     \* dayPrice of a desk, hourlyPrice of a room
  Active,    \* the spaces with isActive
  Typed      \* the prices a visitor may type into the filters

VARIABLES listed, filters, search, opened

listVars == <<listed, filters, search, opened>>

CATEGORIES == [ALL          |-> {"CONFERENCE_ROOM", "DISCUSSION_ROOM", "DAY_PASS_DESK"},
               BOARDROOM    |-> {"CONFERENCE_ROOM"},
               DAY_PASS     |-> {"DAY_PASS_DESK"},
               HOURLY_PASS  |-> {"CONFERENCE_ROOM", "DISCUSSION_ROOM"},
               MEETING_ROOM |-> {"DISCUSSION_ROOM"}]

DefaultMax == 100000

DEFAULT_FILTERS == [category |-> "ALL", locationId |-> "ALL", minPrice |-> 0,
                    maxPrice |-> DefaultMax, availableOnly |-> FALSE]

\* The text searched for matches the spaces of one place, or all.
Matches(s) == search = "" \/ Place[s] = search

filtered ==
  {s \in listed : /\ SpaceType[s] \in CATEGORIES[filters.category]
                  /\ filters.locationId \in {"ALL", Place[s]}
                  /\ Price[s] \in filters.minPrice..filters.maxPrice
                  /\ filters.availableOnly => s \in Active
                  /\ Matches(s)}

Counted ==
  {f \in {"category", "locationId"} : filters[f] # "ALL"}
    \cup {f \in {"minPrice"} : filters[f] > 0}
    \cup {f \in {"maxPrice"} : filters[f] < DefaultMax}
    \cup {f \in {"availableOnly"} : filters[f]}

activeFilterCount == Cardinality(Counted)

ListInit == listed = {} /\ filters = DEFAULT_FILTERS /\ search = "" /\ opened = "none"

getLocations == listed = {} /\ listed' = Space /\ UNCHANGED <<filters, search, opened>>

Set(field, v) ==
  /\ filters' = [filters EXCEPT ![field] = v]
  /\ UNCHANGED <<listed, search, opened>>

setCategory     == \E c \in DOMAIN CATEGORIES : Set("category", c)
setLocation     == \E l \in {Place[s] : s \in listed} \cup {"ALL"} : Set("locationId", l)
setPrice        == \E p \in Typed : Set("minPrice", p) \/ Set("maxPrice", p)
toggleAvailable == Set("availableOnly", ~filters.availableOnly)

setSearch ==
  /\ search' \in {Place[s] : s \in Space} \cup {""}
  /\ UNCHANGED <<listed, filters, opened>>

resetFilters == filters' = DEFAULT_FILTERS /\ search' = "" /\ UNCHANGED <<listed, opened>>

handleBook(s) ==
  /\ opened = "none" /\ s \in filtered \cap Active
  /\ opened' = s
  /\ UNCHANGED <<listed, filters, search>>

ListNext ==
  \/ getLocations \/ setCategory \/ setLocation \/ setPrice \/ toggleAvailable \/ setSearch
  \/ resetFilters
  \/ \E s \in Space : handleBook(s)

\* When the button says that no filter is on and nothing is searched for, every space
\* is listed, except one dearer than the highest price the list starts with, which no
\* filter that is on explains.
NothingHiddenUnsaid ==
  activeFilterCount = 0 /\ search = "" =>
    \A s \in listed : Price[s] <= DefaultMax => s \in filtered

=============================================================================
