--------------------------- MODULE BookingsProofs ---------------------------
(***************************************************************************)
(* Theorems of Bookings, for every set of orders, deliveries, rooms and    *)
(* desks.                                                                  *)
(***************************************************************************)
EXTENDS Bookings, WellFoundedInduction, FiniteSetTheorems, TLAPS

-----------------------------------------------------------------------------
(* Facts about rows.                                                        *)

\* A row of an order is one of its slots, of one of the two kinds.
LEMMA RowsTyped ==
  ASSUME NEW o \in Order
  PROVE  /\ Rows(o) \subseteq Booking
         /\ DirectRows(o) \subseteq Booking
         /\ \A b \in Rows(o) : b[1] = o /\ b[2] \in DOMAIN Slots[o] /\ b[3] = "order"
         /\ \A b \in DirectRows(o) : b[1] = o /\ b[2] \in DOMAIN Slots[o] /\ b[3] = "direct"
         /\ \A i \in DOMAIN Slots[o] : <<o, i, "order">> \in Rows(o)
  BY DEF Rows, DirectRows, Booking

\* Slots are numbered from 1, and the first one is there.
LEMMA SlotNumbers ==
  ASSUME NEW o \in Order
  PROVE  /\ DOMAIN Slots[o] = 1..Len(Slots[o])
         /\ Len(Slots[o]) \in Nat
         /\ 1 \in DOMAIN Slots[o]
         /\ \A i \in DOMAIN Slots[o] : i \in Nat \ {0} /\ Slots[o][i] \in Cell
  BY BookingsAssumption

\* Both loops of createOrder stay within the slots of the request.
LEMMA NextSlot ==
  ASSUME NEW o \in Order, TypeOK,
         \/ next' = next
         \/ next' = [next EXCEPT ![o] = 1]
         \/ next[o] < Len(Slots[o]) /\ next' = [next EXCEPT ![o] = @ + 1]
  PROVE  /\ next' \in [Order -> Nat \ {0}]
         /\ \A p \in Order : next'[p] \in DOMAIN Slots[p]
<1>1. CASE next' = next
  BY <1>1 DEF TypeOK
<1>2. CASE next' = [next EXCEPT ![o] = 1]
  BY <1>2, SlotNumbers DEF TypeOK
<1>3. CASE next[o] < Len(Slots[o]) /\ next' = [next EXCEPT ![o] = @ + 1]
  <2>1. /\ next[o] \in Nat \ {0} /\ Len(Slots[o]) \in Nat
        /\ next[o] + 1 \in 1..Len(Slots[o])
    BY <1>3, SlotNumbers DEF TypeOK
  <2>2. next[o] + 1 \in DOMAIN Slots[o] /\ next[o] + 1 \in Nat \ {0}
    BY <2>1, SlotNumbers
  <2> QED BY <1>3, <2>2 DEF TypeOK
<1> QED BY <1>1, <1>2, <1>3

\* While rows remain, the loop of a transaction is at one of them.
LEMMA CurrentInTodo ==
  ASSUME NEW h \in Hook, todo[h] \subseteq Booking, todo[h] # {}
  PROVE  Current(h) \in todo[h]
<1> DEFINE places == {b[2] : b \in todo[h]}
           R == OpToRel(<, Nat)
<1>1. places \subseteq Nat /\ places # {}
  BY SlotNumbers DEF Booking, Rows, DirectRows
<1>2. \A x, y \in Nat : x < y => <<x, y>> \in R
  BY DEF OpToRel
<1>3. \E i \in places : \A j \in places : i <= j
  <2> HIDE DEF places
  <2>1. IsWellFoundedOn(R, Nat)
    BY NatLessThanWellFounded
  <2> HIDE DEF R
  <2>2. PICK i \in places : \A j \in places : ~(<<j, i>> \in R)
    BY <1>1, <2>1, WFMin
  <2>3. \A j \in places : ~(j < i)
    BY <1>1, <1>2, <2>2
  <2> QED BY <1>1, <2>3
<1>4. \E b \in todo[h] : \A d \in todo[h] : b[2] <= d[2]
  BY <1>3
<1> QED BY <1>4 DEF Current

-----------------------------------------------------------------------------
(* The type invariant.                                                      *)

\* Every step keeps the variables in their types.
LEMMA TypeStep == TypeOK /\ [Next]_vars => TypeOK'
<1> SUFFICES ASSUME TypeOK, [Next]_vars
             PROVE  TypeOK'
  OBVIOUS
<1> USE DEF TypeOK, requestVars, hookVars
<1>0. InFlight \subseteq Booking
  <2>1. \A h \in Hook : CheckedBy(h) \subseteq Booking
    BY CurrentInTodo DEF CheckedBy
  <2>2. \A o \in Order : CheckedFor(o) \subseteq Booking
    BY RowsTyped DEF CheckedFor
  <2> QED BY <2>1, <2>2 DEF InFlight
<1>1. ASSUME ExpireStale
      PROVE  status' \in [Booking -> Status]
  BY <1>1 DEF ExpireStale, Status
<1>2. ASSUME NEW o \in Order, BeginOrder(o)
      PROVE  TypeOK'
  BY <1>1, <1>2 DEF BeginOrder, Goto, RequestStep
<1>3. ASSUME NEW o \in Order, CheckAvailability(o)
      PROVE  TypeOK'
  <2>1. rpc' \in [Order -> RequestStep]
    BY <1>3 DEF CheckAvailability, Goto, RequestStep
  <2>2. /\ next' \in [Order -> Nat \ {0}]
        /\ \A p \in Order : next'[p] \in DOMAIN Slots[p]
    BY <1>3, NextSlot DEF CheckAvailability
  <2> QED BY <1>3, <2>1, <2>2 DEF CheckAvailability
<1>4. ASSUME NEW o \in Order, OrderFails(o)
      PROVE  TypeOK'
  BY <1>4 DEF OrderFails, Goto, RequestStep
<1>5. ASSUME NEW o \in Order, IssueOrder(o)
      PROVE  TypeOK'
  BY <1>5 DEF IssueOrder, Goto, RequestStep
<1>6. ASSUME NEW o \in Order, InsertRow(o)
      PROVE  TypeOK'
  <2>1. status' \in [Booking -> Status]
    BY <1>6, RowsTyped DEF InsertRow, Status
  <2>2. rpc' \in [Order -> RequestStep]
    BY <1>6 DEF InsertRow, Goto, RequestStep
  <2>3. /\ next' \in [Order -> Nat \ {0}]
        /\ \A p \in Order : next'[p] \in DOMAIN Slots[p]
    BY <1>6, NextSlot DEF InsertRow
  <2> QED BY <1>6, <2>1, <2>2, <2>3 DEF InsertRow
<1>7. ASSUME NEW o \in Order, ConfirmDirect(o)
      PROVE  TypeOK'
  <2>1. status' \in [Booking -> Status]
    BY <1>7 DEF ConfirmDirect, Status
  <2>2. raced' \subseteq Booking \X Booking
    BY <1>7, <1>0, RowsTyped DEF ConfirmDirect, RecordRaces
  <2> QED BY <1>7, <2>1, <2>2 DEF ConfirmDirect, Goto, RequestStep
<1>8. ASSUME NEW h \in Hook, NEW o \in Order, FindPending(h, o)
      PROVE  TypeOK'
  BY <1>8, RowsTyped DEF FindPending, HookGoto, HookStep, Pending
<1>9. ASSUME NEW h \in Hook, ReadCurrent(h)
      PROVE  TypeOK'
  BY <1>9 DEF ReadCurrent, HookGoto, HookStep
<1>10. ASSUME NEW h \in Hook, CheckConflict(h)
       PROVE  TypeOK'
  BY <1>10 DEF CheckConflict, Rollback, HookGoto, HookStep
<1>11. ASSUME NEW h \in Hook, WriteConfirmed(h)
       PROVE  TypeOK'
  <2>1. Current(h) \in Booking
    BY <1>11, CurrentInTodo DEF WriteConfirmed
  <2> QED BY <1>11, <2>1 DEF WriteConfirmed, HookGoto, HookStep
<1>12. ASSUME NEW h \in Hook, TransactionFails(h)
       PROVE  TypeOK'
  BY <1>12 DEF TransactionFails, Rollback, HookGoto, HookStep
<1>13. ASSUME NEW h \in Hook, CommitBookings(h)
       PROVE  TypeOK'
  <2>1. status' \in [Booking -> Status]
    BY <1>13 DEF CommitBookings, Status
  <2>2. raced' \subseteq Booking \X Booking
    BY <1>13, <1>0 DEF CommitBookings, RecordRaces
  <2> QED BY <1>13, <2>1, <2>2 DEF CommitBookings, HookGoto, HookStep
<1>14. ASSUME NEW h \in Hook, SendConfirmation(h)
       PROVE  TypeOK'
  BY <1>14 DEF SendConfirmation, HookGoto, HookStep
<1>15. ASSUME NEW o \in Order, ExpiryPasses(o) \/ Capture(o)
       PROVE  TypeOK'
  BY <1>15 DEF ExpiryPasses, Capture
<1>16. CASE RunExpirePendingBookings
  BY <1>16, <1>1 DEF RunExpirePendingBookings
<1>17. CASE Crash
  BY <1>17 DEF Crash, RequestStep, HookStep, RequestOpen, HookOpen
<1>18. CASE UNCHANGED vars
  BY <1>18 DEF vars
<1> QED BY <1>2, <1>3, <1>4, <1>5, <1>6, <1>7, <1>8, <1>9, <1>10, <1>11, <1>12,
           <1>13, <1>14, <1>15, <1>16, <1>17, <1>18
        DEF Next, CreateOrder, HandlePaymentSuccess

\* Every behaviour of the module keeps its variables in their types; above
\* all, createOrder's two loops stay within the slots of the request.
THEOREM TypeCorrect == Spec => []TypeOK
<1>1. Init => TypeOK
  BY SlotNumbers DEF Init, TypeOK, Status, RequestStep, HookStep
<1> QED BY <1>1, TypeStep, PTL DEF Spec

-----------------------------------------------------------------------------
(* Seats.                                                                   *)

\* The seats that one booking takes: as many as its order asks for.
LEMMA SeatsOfOne ==
  ASSUME NEW b, OrderOf(b) \in Order
  PROVE  /\ IsFiniteSet(SeatsOf({b}))
         /\ Cardinality(SeatsOf({b})) = Quantity[OrderOf(b)]
<1> DEFINE q == Quantity[OrderOf(b)]
<1>1. q \in Nat
  BY BookingsAssumption
<1> HIDE DEF q
<1>2. IsFiniteSet(1..q) /\ Cardinality(1..q) = q
  BY <1>1, FS_Interval
<1>3. IsFiniteSet({b}) /\ Cardinality({b}) = 1
  BY FS_Singleton
<1>4. IsFiniteSet({b} \X (1..q)) /\ Cardinality({b} \X (1..q)) = q
  <2>1. IsFiniteSet({b} \X (1..q)) /\ Cardinality({b} \X (1..q)) = 1 * q
    BY <1>2, <1>3, FS_Product, ZenonT(40)
  <2>2. 1 * q = q
    BY <1>1
  <2> QED BY <2>1, <2>2
<1>5. SeatsOf({b}) = {b} \X (1..q)
  BY DEF SeatsOf, q
<1>6. q = Quantity[OrderOf(b)]
  BY DEF q
<1> QED BY <1>4, <1>5, <1>6

\* The seats of finitely many bookings can be counted.
LEMMA SeatsFinite ==
  ASSUME NEW B, IsFiniteSet(B), \A b \in B : OrderOf(b) \in Order
  PROVE  IsFiniteSet(SeatsOf(B)) /\ Seats(B) \in Nat
<1> DEFINE f == [b \in B |-> SeatsOf({b})]
           T == {SeatsOf({b}) : b \in B}
<1>1. f \in Surjection(B, T)
  BY DEF Surjection
<1>2. IsFiniteSet(T)
  BY <1>1, FS_Surjection
<1>3. \A t \in T : IsFiniteSet(t)
  BY SeatsOfOne
<1>4. IsFiniteSet(UNION T)
  BY <1>2, <1>3, FS_UNION
<1>5. SeatsOf(B) = UNION T
  BY DEF SeatsOf
<1> QED BY <1>4, <1>5, FS_CardinalityType DEF Seats

\* More bookings take no fewer seats.
LEMMA SeatsGrow ==
  ASSUME NEW C, IsFiniteSet(C), \A b \in C : OrderOf(b) \in Order, NEW B \in SUBSET C
  PROVE  IsFiniteSet(B) /\ Seats(B) \in Nat /\ Seats(C) \in Nat /\ Seats(B) <= Seats(C)
<1>1. IsFiniteSet(B)
  BY FS_Subset
<1>2. SeatsOf(B) \in SUBSET SeatsOf(C)
  BY DEF SeatsOf
<1> QED BY <1>1, <1>2, SeatsFinite, FS_Subset DEF Seats

\* A booking more takes at most the seats its order asks for.
LEMMA SeatsWith ==
  ASSUME NEW B, IsFiniteSet(B), \A d \in B : OrderOf(d) \in Order,
         NEW b, OrderOf(b) \in Order
  PROVE  Seats(B \cup {b}) \in Nat /\ Seats(B \cup {b}) <= Seats(B) + Quantity[OrderOf(b)]
<1> DEFINE old == SeatsOf(B)
           own == SeatsOf({b})
<1>1. IsFiniteSet(old) /\ Cardinality(old) \in Nat
  BY SeatsFinite DEF Seats
<1>2. IsFiniteSet(own) /\ Cardinality(own) = Quantity[OrderOf(b)] /\ Cardinality(own) \in Nat
  BY SeatsOfOne, BookingsAssumption
<1>3. SeatsOf(B \cup {b}) = old \cup own
  BY DEF SeatsOf
<1> HIDE DEF old, own
<1>4. /\ IsFiniteSet(old \cup own)
      /\ Cardinality(old \cup own) = Cardinality(old) + Cardinality(own) - Cardinality(old \cap own)
  BY <1>1, <1>2, FS_Union
<1>5. Cardinality(old \cap own) \in Nat /\ Cardinality(old \cup own) \in Nat
  BY <1>1, <1>4, FS_Intersection, FS_CardinalityType
<1>6. Cardinality(old \cup own) <= Cardinality(old) + Cardinality(own)
  BY <1>1, <1>2, <1>4, <1>5
<1> QED BY <1>2, <1>3, <1>5, <1>6 DEF Seats, old

\* An order has finitely many rows.
LEMMA RowsFinite ==
  ASSUME NEW o \in Order
  PROVE  IsFiniteSet(Rows(o)) /\ IsFiniteSet(DirectRows(o))
<1>1. IsFiniteSet(DOMAIN Slots[o])
  BY SlotNumbers, FS_Interval
<1>2. ASSUME NEW kind
      PROVE  IsFiniteSet({o} \X (DOMAIN Slots[o]) \X {kind})
  <2> DEFINE T == {o} \X (DOMAIN Slots[o]) \X {kind}
             f == [i \in DOMAIN Slots[o] |-> <<o, i, kind>>]
  <2>1. f \in [DOMAIN Slots[o] -> T]
    OBVIOUS
  <2>2. \A t \in T : t[2] \in DOMAIN Slots[o] /\ f[t[2]] = t
    OBVIOUS
  <2> HIDE DEF f, T
  <2>3. f \in Surjection(DOMAIN Slots[o], T)
    BY <2>1, <2>2 DEF Surjection
  <2>4. IsFiniteSet(T)
    BY <1>1, <2>3, FS_Surjection
  <2> QED BY <2>4 DEF T
<1> QED BY <1>2 DEF Rows, DirectRows

\* A room check that more bookings pass, fewer pass too.
LEMMA FitsFewer ==
  ASSUME NEW c \in Cell, NEW q \in Nat, NEW C, IsFiniteSet(C),
         \A b \in C : OrderOf(b) \in Order, NEW B \in SUBSET C, Fits(c, q, C)
  PROVE  Fits(c, q, B)
<1>1. CASE c \in Desk
  <2>1. Seats(C) + q <= Capacity[c] /\ Capacity[c] \in Nat
    BY <1>1, BookingsAssumption DEF Fits
  <2> QED BY <1>1, <2>1, SeatsGrow DEF Fits
<1>2. CASE c \notin Desk
  BY <1>2 DEF Fits
<1> QED BY <1>1, <1>2

-----------------------------------------------------------------------------
(* The inductive invariant.                                                 *)

\* Where a request is decides which of its rows exist.
RequestOK(o) ==
  /\ rpc[o] \in {"start", "order"} => next[o] = 1
  /\ rpc[o] = "direct" => o \in Coupon
  /\ rpc[o] \in {"start", "check", "order"} =>
       \A b \in Rows(o) : status[b] = "absent"
  /\ rpc[o] = "rows" =>
       \A b \in Rows(o) : (status[b] = "absent") <=> (b[2] >= next[o])
  /\ rpc[o] = "returned" => \A b \in Rows(o) : status[b] # "absent"
  /\ o \in captured => rpc[o] = "returned"

RequestInv == \A o \in Order : RequestOK(o)

\* A delivery works on the rows of an order that was paid, and has not lost
\* sight of any that is still PENDING.
DeliveryOK(h) ==
  /\ hpc[h] \notin {"read", "check", "write"} => wrote[h] = {} /\ todo[h] = {}
  /\ hpc[h] \in {"read", "check", "write"} =>
       /\ hookOrder[h] \in captured
       /\ todo[h] \cup wrote[h] \subseteq Rows(hookOrder[h])
       /\ Pending \cap Rows(hookOrder[h]) \subseteq todo[h] \cup wrote[h]

DeliveryInv == \A h \in Hook : DeliveryOK(h)

\* Work that has checked a slot and not committed has raced with every other
\* order that is CONFIRMED there.
CheckedInv ==
  \A a \in Confirmed, b \in InFlight :
    (OrderOf(a) # OrderOf(b) /\ CellOf(a) = CellOf(b) /\ CellOf(a) \in Room)
      => Raced(a, b)

\* A desk booking whose seats were counted and that is not committed fits beside those
\* that are, or has raced with one of them.
DeskCheckedInv ==
  \A b \in InFlight : CellOf(b) \in Desk =>
    \/ Seats(ConfirmedOn(CellOf(b)) \cup {b}) <= Capacity[CellOf(b)]
    \/ \E a \in ConfirmedOn(CellOf(b)) : Raced(a, b)

\* What is CONFIRMED can be counted.
CountableInv == IsFiniteSet(Confirmed)

\* A row was CANCELLED by a sweep, and the direct rows are never PENDING.
SweepInv ==
  \A b \in Booking : /\ status[b] = "CANCELLED" => OrderOf(b) \in expired
                     /\ status[b] = "PENDING" => b[3] = "order"

IInv == /\ TypeOK
        /\ RequestInv
        /\ DeliveryInv
        /\ SweepInv
        /\ ConfirmedIsPaidOrCoupon
        /\ NoHalfSettledOrder
        /\ CheckedInv
        /\ RoomExclusiveUnlessRaced
        /\ CountableInv
        /\ DeskCheckedInv
        /\ DeskCapacityUnlessRaced

-----------------------------------------------------------------------------
(* What a step does to the table.                                           *)

\* Only five kinds of step change the table or the history of overlaps, and
\* no payment is ever taken back.
LEMMA TableSteps ==
  ASSUME [Next]_vars
  PROVE  /\ captured \subseteq captured'
         /\ expired \subseteq expired'
         /\ \/ status' = status /\ raced' = raced
            \/ ExpireStale /\ raced' = raced
            \/ \E o \in Order : InsertRow(o)
            \/ \E o \in Order : ConfirmDirect(o)
            \/ \E h \in Hook : CommitBookings(h)
<1> USE DEF requestVars, hookVars
<1>1. ASSUME NEW o \in Order, CreateOrder(o)
      PROVE  /\ captured' = captured /\ expired' = expired
             /\ \/ status' = status /\ raced' = raced
                \/ ExpireStale /\ raced' = raced
                \/ InsertRow(o) \/ ConfirmDirect(o)
  BY <1>1 DEF CreateOrder, BeginOrder, CheckAvailability, OrderFails, IssueOrder,
              InsertRow, ConfirmDirect
<1>2. ASSUME NEW h \in Hook, HandlePaymentSuccess(h)
      PROVE  /\ captured' = captured /\ expired' = expired
             /\ (status' = status /\ raced' = raced) \/ CommitBookings(h)
  BY <1>2 DEF HandlePaymentSuccess, ReadCurrent, CheckConflict, WriteConfirmed,
              CommitBookings, SendConfirmation
<1>3. ASSUME NEW o \in Order, ExpiryPasses(o) \/ Capture(o)
      PROVE  /\ captured \subseteq captured' /\ expired \subseteq expired'
             /\ status' = status /\ raced' = raced
  BY <1>3 DEF ExpiryPasses, Capture
<1>4. ASSUME NEW h \in Hook, TransactionFails(h) \/ \E o \in Order : FindPending(h, o)
      PROVE  /\ captured' = captured /\ expired' = expired
             /\ status' = status /\ raced' = raced
  BY <1>4 DEF TransactionFails, FindPending
<1>5. CASE RunExpirePendingBookings
  BY <1>5 DEF RunExpirePendingBookings
<1>6. CASE Crash
  BY <1>6 DEF Crash
<1>7. CASE UNCHANGED vars
  BY <1>7 DEF vars
<1> QED BY <1>1, <1>2, <1>3, <1>4, <1>5, <1>6, <1>7 DEF Next

\* What those steps do to the CONFIRMED rows.
LEMMA ConfirmedSteps ==
  ASSUME TypeOK, RequestInv, [Next]_vars
  PROVE  \/ Confirmed' = Confirmed /\ raced' = raced
         \/ \E o \in Order : /\ ConfirmDirect(o)
                             /\ Confirmed' = Confirmed \cup DirectRows(o)
                             /\ RecordRaces(DirectRows(o))
         \/ \E h \in Hook : /\ CommitBookings(h)
                            /\ Confirmed' = Confirmed \cup wrote[h]
                            /\ RecordRaces(wrote[h])
<1>1. CASE status' = status /\ raced' = raced
  BY <1>1 DEF Confirmed
<1>2. CASE ExpireStale /\ raced' = raced
  BY <1>2 DEF ExpireStale, Stale, Pending, Confirmed
<1>3. ASSUME NEW o \in Order, InsertRow(o)
      PROVE  Confirmed' = Confirmed /\ raced' = raced
  <2> DEFINE new == <<o, next[o], "order">>
  <2>1. new \in Rows(o) /\ new \in Booking
    BY RowsTyped DEF TypeOK
  <2>2. status[new] = "absent"
    BY <1>3, <2>1 DEF InsertRow, RequestInv, RequestOK, TypeOK
  <2>3. /\ \A b \in Booking : status'[b] = IF b = new THEN "PENDING" ELSE status[b]
        /\ raced' = raced
    BY <1>3, <2>1 DEF InsertRow, TypeOK
  <2> HIDE DEF new
  <2> QED BY <2>1, <2>2, <2>3 DEF Confirmed
<1>4. ASSUME NEW o \in Order, ConfirmDirect(o)
      PROVE  \/ Confirmed' = Confirmed /\ raced' = raced
             \/ /\ Confirmed' = Confirmed \cup DirectRows(o)
                /\ RecordRaces(DirectRows(o))
  BY <1>4, RowsTyped DEF ConfirmDirect, Confirmed
<1>5. ASSUME NEW h \in Hook, CommitBookings(h)
      PROVE  /\ Confirmed' = Confirmed \cup wrote[h]
             /\ RecordRaces(wrote[h])
  BY <1>5 DEF CommitBookings, Confirmed, TypeOK
<1> QED BY <1>1, <1>2, <1>3, <1>4, <1>5, TableSteps

-----------------------------------------------------------------------------
(* The steps preserve each part of the invariant.                           *)

\* Rows of two orders, and of the two kinds, are different.
LEMMA RowsApart ==
  ASSUME NEW o \in Order, NEW p \in Order
  PROVE  /\ Rows(o) \cap DirectRows(p) = {}
         /\ o # p => Rows(o) \cap Rows(p) = {}
         /\ o # p => DirectRows(o) \cap DirectRows(p) = {}
  BY RowsTyped

\* Where a request is still decides which of its rows exist.
LEMMA RequestStepInv ==
  ASSUME IInv, [Next]_vars
  PROVE  RequestInv'
<1> USE DEF IInv, requestVars, hookVars
<1> DEFINE SameRows(o) ==
      \A b \in Rows(o) : (status'[b] = "absent") <=> (status[b] = "absent")
<1>1. ASSUME NEW o \in Order, SameRows(o), rpc'[o] = rpc[o], next'[o] = next[o],
             o \in captured' => o \in captured \/ rpc[o] = "returned"
      PROVE  RequestOK(o)'
  BY <1>1 DEF RequestInv, RequestOK, Rows
<1>2. ASSUME UNCHANGED status, UNCHANGED requestVars,
             \A o \in captured' : o \in captured \/ rpc[o] = "returned"
      PROVE  RequestInv'
  BY <1>1, <1>2 DEF RequestInv
<1>3. ASSUME ExpireStale, NEW o \in Order
      PROVE  SameRows(o)
  BY <1>3, RowsTyped DEF ExpireStale, Stale, Pending
<1>4. ASSUME NEW o \in Order, BeginOrder(o)
      PROVE  RequestInv'
  <2>1. RequestOK(o)'
    BY <1>4, <1>3 DEF BeginOrder, Goto, RequestInv, RequestOK, Rows, TypeOK
  <2> QED BY <1>1, <1>3, <1>4, <2>1 DEF BeginOrder, Goto, RequestInv, TypeOK
<1>5. ASSUME NEW o \in Order, CheckAvailability(o)
      PROVE  RequestInv'
  <2>1. RequestOK(o)'
    BY <1>5 DEF CheckAvailability, Goto, RequestInv, RequestOK, Rows, TypeOK
  <2> QED BY <1>1, <1>5, <2>1 DEF CheckAvailability, Goto, RequestInv, TypeOK
<1>6. ASSUME NEW o \in Order, OrderFails(o)
      PROVE  RequestInv'
  <2>1. RequestOK(o)'
    BY <1>6 DEF OrderFails, Goto, RequestInv, RequestOK, Rows, TypeOK
  <2> QED BY <1>1, <1>6, <2>1 DEF OrderFails, Goto, RequestInv, TypeOK
<1>7. ASSUME NEW o \in Order, IssueOrder(o)
      PROVE  RequestInv'
  <2>1. \A b \in Rows(o) : b[2] \in Nat /\ b[2] >= 1
    BY RowsTyped, SlotNumbers
  <2>2. RequestOK(o)'
    BY <1>7, <2>1 DEF IssueOrder, Goto, RequestInv, RequestOK, Rows, TypeOK
  <2> QED BY <1>1, <1>7, <2>2 DEF IssueOrder, Goto, RequestInv, TypeOK
<1>8. ASSUME NEW o \in Order, InsertRow(o)
      PROVE  RequestInv'
  <2> DEFINE new == <<o, next[o], "order">>
  <2>1. new \in Rows(o) /\ new \in Booking
    BY RowsTyped DEF TypeOK
  <2>2. \A b \in Booking : status'[b] = IF b = new THEN "PENDING" ELSE status[b]
    BY <1>8, <2>1 DEF InsertRow, TypeOK
  <2>3. \A b \in Rows(o) : /\ b \in Booking /\ b[2] \in 1..Len(Slots[o])
                           /\ b[2] = next[o] <=> b = new
                           /\ next[o] \in Nat /\ Len(Slots[o]) \in Nat
    BY RowsTyped, SlotNumbers DEF Rows, TypeOK
  <2>4. \A b \in Rows(o) : (status[b] = "absent") <=> (b[2] >= next[o])
    BY <1>8 DEF InsertRow, RequestInv, RequestOK
  <2>5. RequestOK(o)'
    <3>1. CASE next[o] < Len(Slots[o])
      <4>1. rpc'[o] = "rows" /\ next'[o] = next[o] + 1 /\ o \notin captured'
        BY <1>8, <3>1 DEF InsertRow, RequestInv, RequestOK, TypeOK
      <4>2. \A b \in Rows(o) : (status'[b] = "absent") <=> (b[2] >= next[o] + 1)
        <5> HIDE DEF new
        <5> QED BY <2>2, <2>3, <2>4
      <4> QED BY <4>1, <4>2 DEF RequestOK, Rows
    <3>2. CASE ~(next[o] < Len(Slots[o]))
      <4>1. rpc'[o] = "returned"
        BY <1>8, <3>2 DEF InsertRow, Goto, TypeOK
      <4>2. \A b \in Rows(o) : status'[b] # "absent"
        <5> HIDE DEF new
        <5> QED BY <2>2, <2>3, <2>4, <3>2
      <4> QED BY <4>1, <4>2 DEF RequestOK, Rows
    <3> QED BY <3>1, <3>2
  <2>6. ASSUME NEW p \in Order, p # o
        PROVE  RequestOK(p)'
    <3>1. SameRows(p)
      BY <2>2, <2>6, RowsTyped
    <3> QED BY <1>1, <1>8, <2>6, <3>1 DEF InsertRow, Goto, TypeOK
  <2> QED BY <2>5, <2>6 DEF RequestInv
<1>9. ASSUME NEW o \in Order, ConfirmDirect(o)
      PROVE  RequestInv'
  <2>1. \A p \in Order : SameRows(p)
    BY <1>9, RowsTyped, RowsApart DEF ConfirmDirect
  <2>2. RequestOK(o)'
    BY <1>9, <2>1 DEF ConfirmDirect, Goto, RequestInv, RequestOK, Rows, TypeOK
  <2> QED BY <1>1, <1>9, <2>1, <2>2 DEF ConfirmDirect, Goto, RequestInv, TypeOK
<1>10. ASSUME NEW o \in Order, ExpiryPasses(o) \/ Capture(o)
       PROVE  RequestInv'
  BY <1>2, <1>10 DEF ExpiryPasses, Capture
<1>11. ASSUME NEW h \in Hook, NEW o \in Order, FindPending(h, o)
       PROVE  RequestInv'
  BY <1>2, <1>11 DEF FindPending
<1>12. ASSUME NEW h \in Hook, CommitBookings(h)
       PROVE  RequestInv'
  <2>1. /\ hookOrder[h] \in captured
        /\ wrote[h] \subseteq Rows(hookOrder[h])
    BY <1>12 DEF CommitBookings, DeliveryInv, DeliveryOK
  <2>2. \A b \in wrote[h] : status[b] # "absent"
    BY <2>1 DEF RequestInv, RequestOK, TypeOK
  <2>3. \A p \in Order : SameRows(p)
    BY <1>12, <2>2, RowsTyped DEF CommitBookings
  <2> QED BY <1>1, <1>12, <2>3 DEF CommitBookings, RequestInv
<1>13. ASSUME NEW h \in Hook, \/ ReadCurrent(h) \/ CheckConflict(h) \/ WriteConfirmed(h)
                              \/ SendConfirmation(h) \/ TransactionFails(h)
       PROVE  RequestInv'
  BY <1>2, <1>13 DEF ReadCurrent, CheckConflict, WriteConfirmed, SendConfirmation,
                     TransactionFails
<1>14. CASE RunExpirePendingBookings
  BY <1>1, <1>3, <1>14 DEF RunExpirePendingBookings, RequestInv
<1>15. CASE Crash
  <2> SUFFICES ASSUME NEW o \in Order PROVE RequestOK(o)'
    BY DEF RequestInv
  <2> QED BY <1>15 DEF Crash, RequestInv, RequestOK, RequestOpen, Rows, TypeOK
<1>16. CASE UNCHANGED vars
  BY <1>2, <1>16 DEF vars
<1> QED BY <1>4, <1>5, <1>6, <1>7, <1>8, <1>9, <1>10, <1>11, <1>12, <1>13, <1>14,
           <1>15, <1>16 DEF Next, CreateOrder, HandlePaymentSuccess

\* A delivery still works on paid rows, and knows every PENDING one.
LEMMA DeliveryStepInv ==
  ASSUME IInv, [Next]_vars
  PROVE  DeliveryInv'
<1> USE DEF IInv, requestVars
<1>1. ASSUME NEW h \in Hook, captured \subseteq captured',
             Pending' \cap Rows(hookOrder[h]) \subseteq Pending,
             hpc'[h] = hpc[h], hookOrder'[h] = hookOrder[h],
             todo'[h] = todo[h], wrote'[h] = wrote[h]
      PROVE  DeliveryOK(h)'
  <2>1. Pending' \cap Rows(hookOrder[h]) \subseteq Pending \cap Rows(hookOrder[h])
    BY <1>1
  <2> QED BY <1>1, <2>1 DEF DeliveryInv, DeliveryOK, Rows
<1>2. ASSUME UNCHANGED <<hpc, hookOrder, todo, wrote>>, captured \subseteq captured',
             Pending' \subseteq Pending
      PROVE  DeliveryInv'
  BY <1>1, <1>2 DEF DeliveryInv
<1>3. ASSUME ExpireStale \/ UNCHANGED status
      PROVE  Pending' \subseteq Pending
  BY <1>3 DEF ExpireStale, Pending
<1>4. ASSUME NEW o \in Order, CreateOrder(o)
      PROVE  DeliveryInv'
  <2>1. UNCHANGED hookVars /\ captured' = captured
    BY <1>4 DEF CreateOrder, BeginOrder, CheckAvailability, OrderFails, IssueOrder,
                InsertRow, ConfirmDirect
  <2>2. CASE InsertRow(o)
    <3>1. Pending' \subseteq Pending \cup Rows(o)
      BY <2>2, RowsTyped DEF InsertRow, Pending, TypeOK
    <3>2. o \notin captured
      BY <2>2 DEF InsertRow, RequestInv, RequestOK
    <3>3. ASSUME NEW h \in Hook, hpc[h] \in {"read", "check", "write"}
          PROVE  Pending' \cap Rows(hookOrder[h]) \subseteq Pending
      <4>1. hookOrder[h] \in captured /\ hookOrder[h] \in Order
        BY <3>3 DEF DeliveryInv, DeliveryOK, TypeOK
      <4> QED BY <3>1, <3>2, <4>1, RowsApart
    <3>4. ASSUME NEW h \in Hook
          PROVE  DeliveryOK(h)'
      <4>1. CASE hpc[h] \in {"read", "check", "write"}
        BY <1>1, <2>1, <3>3, <4>1 DEF hookVars
      <4>2. CASE hpc[h] \notin {"read", "check", "write"}
        BY <2>1, <4>2 DEF hookVars, DeliveryInv, DeliveryOK
      <4> QED BY <4>1, <4>2
    <3> QED BY <3>4 DEF DeliveryInv
  <2>3. CASE BeginOrder(o)
    BY <1>2, <1>3, <2>1, <2>3 DEF BeginOrder, hookVars
  <2>4. CASE CheckAvailability(o) \/ OrderFails(o) \/ IssueOrder(o)
    BY <1>2, <1>3, <2>1, <2>4 DEF CheckAvailability, OrderFails, IssueOrder, hookVars
  <2>5. CASE ConfirmDirect(o)
    <3>1. Pending' \subseteq Pending
      BY <2>5 DEF ConfirmDirect, Pending
    <3> QED BY <1>2, <2>1, <3>1 DEF hookVars
  <2> QED BY <1>4, <2>2, <2>3, <2>4, <2>5 DEF CreateOrder
<1>5. ASSUME NEW o \in Order, ExpiryPasses(o) \/ Capture(o)
      PROVE  DeliveryInv'
  BY <1>2, <1>3, <1>5 DEF ExpiryPasses, Capture, hookVars
<1>6. ASSUME NEW h \in Hook, UNCHANGED status, captured' = captured,
             \A g \in Hook \ {h} :
               /\ hpc'[g] = hpc[g] /\ hookOrder'[g] = hookOrder[g]
               /\ todo'[g] = todo[g] /\ wrote'[g] = wrote[g],
             DeliveryOK(h)'
      PROVE  DeliveryInv'
  BY <1>1, <1>3, <1>6 DEF DeliveryInv
<1>7. ASSUME NEW h \in Hook, NEW o \in Order, FindPending(h, o)
      PROVE  DeliveryInv'
  <2>1. DeliveryOK(h)'
    BY <1>7 DEF FindPending, HookGoto, DeliveryInv, DeliveryOK, Pending, Rows, TypeOK
  <2> QED BY <1>6, <1>7, <2>1 DEF FindPending, HookGoto, TypeOK
<1>8. ASSUME NEW h \in Hook, ReadCurrent(h)
      PROVE  DeliveryInv'
  <2>1. DeliveryOK(h)'
    BY <1>8 DEF ReadCurrent, HookGoto, DeliveryInv, DeliveryOK, Pending, Rows, TypeOK
  <2> QED BY <1>6, <1>8, <2>1 DEF ReadCurrent, HookGoto, TypeOK
<1>9. ASSUME NEW h \in Hook, Rollback(h)
      PROVE  hpc'[h] = "acknowledged" /\ todo'[h] = {} /\ wrote'[h] = {}
  BY <1>9 DEF Rollback, HookGoto, TypeOK
<1>10. ASSUME NEW h \in Hook, CheckConflict(h)
       PROVE  DeliveryInv'
  <2>1. DeliveryOK(h)'
    <3>1. CASE Rollback(h)
      BY <1>9, <3>1 DEF DeliveryOK
    <3>2. CASE ~Rollback(h)
      BY <1>10, <3>2 DEF CheckConflict, HookGoto, DeliveryInv, DeliveryOK, Pending, Rows, TypeOK
    <3> QED BY <3>1, <3>2
  <2> QED BY <1>6, <1>10, <2>1 DEF CheckConflict, Rollback, HookGoto, TypeOK
<1>11. ASSUME NEW h \in Hook, WriteConfirmed(h)
       PROVE  DeliveryInv'
  <2>1. Current(h) \in todo[h]
    BY <1>11, CurrentInTodo DEF WriteConfirmed, TypeOK
  <2>2. DeliveryOK(h)'
    BY <1>11, <2>1 DEF WriteConfirmed, HookGoto, DeliveryInv, DeliveryOK, Pending, Rows, TypeOK
  <2> QED BY <1>6, <1>11, <2>2 DEF WriteConfirmed, HookGoto, TypeOK
<1>12. ASSUME NEW h \in Hook, TransactionFails(h)
       PROVE  DeliveryInv'
  <2>1. DeliveryOK(h)'
    BY <1>9, <1>12 DEF TransactionFails, DeliveryOK
  <2> QED BY <1>6, <1>12, <2>1 DEF TransactionFails, Rollback, HookGoto, TypeOK
<1>13. ASSUME NEW h \in Hook, CommitBookings(h)
       PROVE  DeliveryInv'
  <2>1. Pending' \subseteq Pending
    BY <1>13 DEF CommitBookings, Pending
  <2>2. DeliveryOK(h)'
    BY <1>13 DEF CommitBookings, HookGoto, DeliveryOK, TypeOK
  <2> QED BY <1>1, <1>13, <2>1, <2>2 DEF CommitBookings, HookGoto, DeliveryInv, TypeOK
<1>14. ASSUME NEW h \in Hook, SendConfirmation(h)
       PROVE  DeliveryInv'
  <2>1. DeliveryOK(h)'
    BY <1>14 DEF SendConfirmation, HookGoto, DeliveryInv, DeliveryOK, TypeOK
  <2> QED BY <1>6, <1>14, <2>1 DEF SendConfirmation, HookGoto, TypeOK
<1>15. CASE RunExpirePendingBookings
  BY <1>2, <1>3, <1>15 DEF RunExpirePendingBookings, hookVars
<1>16. CASE Crash
  <2>1. \A h \in Hook : /\ hpc'[h] \notin {"read", "check", "write"}
                        /\ wrote'[h] = {} /\ todo'[h] = {}
    BY <1>16 DEF Crash, HookOpen
  <2> QED BY <2>1 DEF DeliveryInv, DeliveryOK
<1>17. CASE UNCHANGED vars
  BY <1>2, <1>3, <1>17 DEF vars
<1> QED BY <1>4, <1>5, <1>7, <1>8, <1>10, <1>11, <1>12, <1>13, <1>14, <1>15, <1>16,
           <1>17 DEF Next, HandlePaymentSuccess

\* Still only sweeps cancel, and direct rows are never PENDING.
LEMMA SweepStepInv ==
  ASSUME IInv, [Next]_vars
  PROVE  SweepInv'
<1> USE DEF IInv, SweepInv
<1>1. CASE status' = status
  BY <1>1, TableSteps DEF OrderOf
<1>2. CASE ExpireStale
  BY <1>2, TableSteps DEF ExpireStale, Stale, Pending, OrderOf
<1>3. ASSUME NEW o \in Order, InsertRow(o)
      PROVE  SweepInv'
  BY <1>3, TableSteps DEF InsertRow, OrderOf, TypeOK
<1>4. ASSUME NEW o \in Order, ConfirmDirect(o)
      PROVE  SweepInv'
  BY <1>4, TableSteps DEF ConfirmDirect, OrderOf
<1>5. ASSUME NEW h \in Hook, CommitBookings(h)
      PROVE  SweepInv'
  BY <1>5, TableSteps DEF CommitBookings, OrderOf
<1> QED BY <1>1, <1>2, <1>3, <1>4, <1>5, TableSteps

\* What a delivery has written belongs to one order, which was paid.
LEMMA WrotePaid ==
  ASSUME IInv, NEW h \in Hook, CommitBookings(h)
  PROVE  /\ hookOrder[h] \in captured /\ hookOrder[h] \in Order
         /\ wrote[h] \subseteq Rows(hookOrder[h])
         /\ Pending \cap Rows(hookOrder[h]) \subseteq wrote[h]
  BY DEF CommitBookings, IInv, DeliveryInv, DeliveryOK, TypeOK

\* Still only paid orders and coupons are CONFIRMED.
LEMMA PaidStepInv ==
  ASSUME IInv, [Next]_vars
  PROVE  ConfirmedIsPaidOrCoupon'
<1> USE DEF IInv, ConfirmedIsPaidOrCoupon, OrderOf
<1>1. CASE Confirmed' = Confirmed
  BY <1>1, TableSteps
<1>2. ASSUME NEW o \in Order, ConfirmDirect(o), Confirmed' = Confirmed \cup DirectRows(o)
      PROVE  ConfirmedIsPaidOrCoupon'
  <2>1. o \in Coupon
    BY <1>2 DEF ConfirmDirect, RequestInv, RequestOK
  <2> QED BY <1>2, <2>1, TableSteps, RowsTyped
<1>3. ASSUME NEW h \in Hook, CommitBookings(h), Confirmed' = Confirmed \cup wrote[h]
      PROVE  ConfirmedIsPaidOrCoupon'
  BY <1>3, WrotePaid, TableSteps, RowsTyped
<1> QED BY <1>1, <1>2, <1>3, ConfirmedSteps

\* Still no order is half settled.
LEMMA SettledStepInv ==
  ASSUME IInv, [Next]_vars
  PROVE  NoHalfSettledOrder'
<1> USE DEF IInv
<1> DEFINE Settled(b) == status[b] \in {"CONFIRMED", "CANCELLED"}
<1>1. ASSUME NEW o \in Order, Rows(o) \cap Confirmed # {}
      PROVE  o \in captured /\ \A b \in Rows(o) : Settled(b)
  BY <1>1, RowsTyped DEF ConfirmedIsPaidOrCoupon, NoHalfSettledOrder, OrderOf
<1>2. ASSUME NEW o \in Order, Rows(o) \cap Confirmed # {}
      PROVE  \A b \in Rows(o) : Settled(b)'
  <2>1. CASE status' = status
    BY <1>1, <1>2, <2>1
  <2>2. CASE ExpireStale
    BY <1>1, <1>2, <2>2, RowsTyped DEF ExpireStale
  <2>3. ASSUME NEW p \in Order, InsertRow(p)
        PROVE  \A b \in Rows(o) : Settled(b)'
    <3>1. p # o
      BY <1>1, <1>2, <2>3 DEF InsertRow, RequestInv, RequestOK
    <3>2. \A b \in Rows(o) : b \in Booking /\ b # <<p, next[p], "order">>
      BY <3>1, RowsTyped
    <3>3. \A b \in Rows(o) : status'[b] = status[b]
      BY <2>3, <3>2 DEF InsertRow, TypeOK
    <3> QED BY <1>1, <1>2, <3>3
  <2>4. ASSUME NEW p \in Order, ConfirmDirect(p)
        PROVE  \A b \in Rows(o) : Settled(b)'
    BY <1>1, <1>2, <2>4, RowsTyped DEF ConfirmDirect
  <2>5. ASSUME NEW h \in Hook, CommitBookings(h)
        PROVE  \A b \in Rows(o) : Settled(b)'
    BY <1>1, <1>2, <2>5, RowsTyped DEF CommitBookings
  <2> QED BY <2>1, <2>2, <2>3, <2>4, <2>5, TableSteps
<1>3. ASSUME NEW h \in Hook, CommitBookings(h)
      PROVE  \A b \in Rows(hookOrder[h]) : Settled(b)'
  <2>1. \A b \in Rows(hookOrder[h]) : b \in Booking /\ status[b] # "absent"
    BY <1>3, WrotePaid, RowsTyped DEF RequestInv, RequestOK
  <2> QED BY <1>3, <2>1, WrotePaid DEF CommitBookings, Pending, TypeOK, Status
<1>4. ASSUME NEW o \in Order, Rows(o) \cap Confirmed' # {}
      PROVE  \A b \in Rows(o) : Settled(b)'
  <2>1. CASE Confirmed' = Confirmed
    BY <1>2, <1>4, <2>1
  <2>2. ASSUME NEW p \in Order, Confirmed' = Confirmed \cup DirectRows(p)
        PROVE  \A b \in Rows(o) : Settled(b)'
    BY <1>2, <1>4, <2>2, RowsApart
  <2>3. ASSUME NEW h \in Hook, CommitBookings(h), Confirmed' = Confirmed \cup wrote[h]
        PROVE  \A b \in Rows(o) : Settled(b)'
    <3>1. CASE o = hookOrder[h]
      BY <1>3, <2>3, <3>1
    <3>2. CASE o # hookOrder[h]
      BY <1>2, <1>4, <2>3, <3>2, WrotePaid, RowsApart
    <3> QED BY <3>1, <3>2
  <2> QED BY <2>1, <2>2, <2>3, ConfirmedSteps
<1> QED BY <1>4 DEF NoHalfSettledOrder, Rows

\* Seats are left for a booking where it is to be.
HasRoom(b) == b \in Booking /\ Fits(CellOf(b), Quantity[OrderOf(b)], ConfirmedOn(CellOf(b)))

\* What a step does to work in flight: what comes into it was checked just now ...
Checks ==
  /\ Confirmed' = Confirmed /\ raced' = raced
  /\ \A b \in InFlight' : b \in InFlight \/ HasRoom(b)

\* ... and what leaves it CONFIRMED is of one order, alone if it is of a desk, and is
\* noted as raced with what stays.
Commits(B) ==
  /\ B \subseteq InFlight /\ InFlight' \subseteq InFlight
  /\ Confirmed' = Confirmed \cup B /\ RecordRaces(B)
  /\ \A a, b \in B : OrderOf(a) = OrderOf(b) /\ (CellOf(a) \in Desk => a = b)

\* What is in flight are bookings of orders.
LEMMA InFlightTyped ==
  ASSUME TypeOK
  PROVE  \A b \in InFlight : b \in Booking /\ OrderOf(b) \in Order
<1>1. ASSUME NEW h \in Hook, NEW b \in CheckedBy(h)
      PROVE  b \in Booking
  BY <1>1, CurrentInTodo DEF CheckedBy, TypeOK
<1>2. ASSUME NEW o \in Order, NEW b \in CheckedFor(o)
      PROVE  b \in Booking
  BY <1>2, RowsTyped DEF CheckedFor
<1>3. \A b \in Booking : OrderOf(b) \in Order
  BY RowsTyped DEF Booking, OrderOf
<1> QED BY <1>1, <1>2, <1>3 DEF InFlight

\* The rows of an order for a desk are one of each kind.
LEMMA OneDesk ==
  ASSUME NEW o \in Order
  PROVE  /\ \A a, b \in Rows(o) : CellOf(a) \in Desk => a = b
         /\ \A a, b \in DirectRows(o) : CellOf(a) \in Desk => a = b
<1>1. ASSUME NEW i \in DOMAIN Slots[o], NEW j \in DOMAIN Slots[o], Slots[o][i] \in Desk
      PROVE  i = j
  BY <1>1, SlotNumbers, BookingsAssumption
<1> QED BY <1>1 DEF Rows, DirectRows, CellOf

\* What is CONFIRMED on a cell can be counted, and has orders.
LEMMA Countable ==
  ASSUME IInv, NEW c \in Cell
  PROVE  /\ IsFiniteSet(ConfirmedOn(c)) /\ Seats(ConfirmedOn(c)) \in Nat
         /\ \A b \in ConfirmedOn(c) : OrderOf(b) \in Order
<1>1. ConfirmedOn(c) \in SUBSET Confirmed
  BY DEF ConfirmedOn
<1>2. IsFiniteSet(ConfirmedOn(c))
  BY <1>1, FS_Subset DEF IInv, CountableInv
<1>3. \A b \in ConfirmedOn(c) : OrderOf(b) \in Order
  BY RowsTyped DEF ConfirmedOn, Confirmed, Booking, OrderOf
<1> QED BY <1>2, <1>3, SeatsFinite

LEMMA CheckedSteps ==
  ASSUME IInv, [Next]_vars
  PROVE  Checks \/ \E B \in SUBSET InFlight : Commits(B)
<1> USE DEF IInv, requestVars, hookVars
<1>1. ASSUME Confirmed' = Confirmed, raced' = raced,
             \A b \in InFlight' : b \in InFlight \/ HasRoom(b)
      PROVE  Checks
  BY <1>1 DEF Checks
<1>3. ASSUME \A h \in Hook : CheckedBy(h)' \subseteq CheckedBy(h),
             \A o \in Order : CheckedFor(o)' \subseteq CheckedFor(o)
      PROVE  InFlight' \subseteq InFlight
  BY <1>3 DEF InFlight
<1>4. ASSUME UNCHANGED hookVars, NEW h \in Hook
      PROVE  CheckedBy(h)' = CheckedBy(h)
  BY <1>4 DEF CheckedBy, Current
<1>5. ASSUME UNCHANGED requestVars, NEW o \in Order
      PROVE  CheckedFor(o)' = CheckedFor(o)
  BY <1>5 DEF CheckedFor, DirectRows
<1>6. ASSUME NEW h \in Hook, NEW g \in Hook, g # h,
             hpc'[g] = hpc[g], todo'[g] = todo[g], wrote'[g] = wrote[g]
      PROVE  CheckedBy(g)' = CheckedBy(g)
  BY <1>6 DEF CheckedBy, Current
<1>7. ASSUME NEW o \in Order, NEW p \in Order, p # o, rpc'[p] = rpc[p], next'[p] = next[p]
      PROVE  CheckedFor(p)' = CheckedFor(p)
  BY <1>7 DEF CheckedFor, DirectRows
<1>8. ASSUME NEW o \in Order, BeginOrder(o)
      PROVE  Checks
  <2>1. Confirmed' = Confirmed /\ raced' = raced
    BY <1>8, ConfirmedSteps DEF BeginOrder, ExpireStale, Stale, Pending, Confirmed
  <2>2. CheckedFor(o)' = {}
    <3>1. next[o] = 1 /\ \A b \in DirectRows(o) : ~(b[2] < 1)
      BY <1>8, RowsTyped, SlotNumbers DEF BeginOrder, RequestInv, RequestOK
    <3>2. next'[o] = 1 /\ rpc'[o] = "check"
      BY <1>8, <3>1 DEF BeginOrder, Goto, TypeOK
    <3> QED BY <3>1, <3>2 DEF CheckedFor, DirectRows
  <2>3. \A p \in Order : CheckedFor(p)' \subseteq CheckedFor(p)
    BY <1>7, <1>8, <2>2 DEF BeginOrder, Goto, TypeOK
  <2>4. \A h \in Hook : CheckedBy(h)' \subseteq CheckedBy(h)
    BY <1>4, <1>8 DEF BeginOrder
  <2> QED BY <1>1, <1>3, <2>1, <2>3, <2>4
<1>9. ASSUME NEW o \in Order, CheckAvailability(o)
      PROVE  Checks
  <2>1. Confirmed' = Confirmed /\ raced' = raced
    BY <1>9 DEF CheckAvailability, Confirmed
  <2>2. \A b \in CheckedFor(o)' : b \in CheckedFor(o) \/ HasRoom(b)
    <3> DEFINE c == Slots[o][next[o]]
    <3>1. CASE ~Fits(c, Quantity[o], ConfirmedOn(c))
      <4>1. rpc'[o] = "refused"
        BY <1>9, <3>1 DEF CheckAvailability, Goto, TypeOK
      <4> QED BY <4>1 DEF CheckedFor
    <3>2. CASE Fits(c, Quantity[o], ConfirmedOn(c))
      <4>2. ASSUME NEW b \in DirectRows(o), b[2] = next[o]
            PROVE  HasRoom(b)
        BY <3>2, <4>2, RowsTyped DEF HasRoom, CellOf, OrderOf
      <4>3. /\ next[o] \in Nat /\ Len(Slots[o]) \in Nat
            /\ \A b \in DirectRows(o) : b[2] \in 1..Len(Slots[o])
        BY RowsTyped, SlotNumbers DEF TypeOK
      <4>4. CASE next[o] < Len(Slots[o])
        <5>1. next'[o] = next[o] + 1 /\ rpc'[o] = "check" /\ rpc[o] = "check"
          BY <1>9, <3>2, <4>4, <4>3 DEF CheckAvailability, TypeOK
        <5>2. CheckedFor(o)' \subseteq {b \in DirectRows(o) : b[2] < next[o] + 1 /\ o \in Coupon}
          BY <5>1 DEF CheckedFor, DirectRows
        <5>3. \A b \in DirectRows(o) : b[2] < next[o] + 1 /\ b[2] # next[o] => b[2] < next[o]
          BY <4>3
        <5> QED BY <4>2, <5>1, <5>2, <5>3 DEF CheckedFor
      <4>5. CASE next[o] = Len(Slots[o])
        <5>1. rpc[o] = "check"
          BY <1>9 DEF CheckAvailability
        <5>2. CheckedFor(o)' \subseteq {b \in DirectRows(o) : o \in Coupon}
          BY DEF CheckedFor, DirectRows
        <5>3. \A b \in DirectRows(o) : b[2] # next[o] => b[2] < next[o]
          BY <4>3, <4>5
        <5> QED BY <4>2, <5>1, <5>2, <5>3 DEF CheckedFor
      <4> QED BY <1>9, <3>2, <4>4, <4>5 DEF CheckAvailability
    <3> QED BY <3>1, <3>2
  <2>3. \A p \in Order \ {o} : CheckedFor(p)' = CheckedFor(p)
    BY <1>7, <1>9 DEF CheckAvailability, Goto, TypeOK
  <2>4. \A h \in Hook : CheckedBy(h)' = CheckedBy(h)
    BY <1>4, <1>9 DEF CheckAvailability
  <2>5. \A b \in InFlight' : b \in InFlight \/ HasRoom(b)
    BY <2>2, <2>3, <2>4 DEF InFlight
  <2> QED BY <1>1, <2>1, <2>5
<1>10. ASSUME NEW o \in Order, OrderFails(o) \/ IssueOrder(o) \/ InsertRow(o)
       PROVE  Checks
  <2>1. Confirmed' = Confirmed /\ raced' = raced
    BY <1>10, ConfirmedSteps DEF OrderFails, IssueOrder, InsertRow, ConfirmDirect,
       CommitBookings, Confirmed
  <2>2. /\ rpc[o] \in {"order", "rows"}
        /\ rpc'[o] \in {"order", "rows", "direct", "returned", "refused"}
    BY <1>10 DEF OrderFails, IssueOrder, InsertRow, Goto, TypeOK
  <2>3. CheckedFor(o)' \subseteq CheckedFor(o)
    BY <2>2 DEF CheckedFor, DirectRows
  <2>4. \A p \in Order : CheckedFor(p)' \subseteq CheckedFor(p)
    BY <1>7, <1>10, <2>3 DEF OrderFails, IssueOrder, InsertRow, Goto, TypeOK
  <2>5. \A h \in Hook : CheckedBy(h)' \subseteq CheckedBy(h)
    BY <1>4, <1>10 DEF OrderFails, IssueOrder, InsertRow
  <2> QED BY <1>1, <1>3, <2>1, <2>4, <2>5
<1>11. ASSUME NEW o \in Order, ConfirmDirect(o)
       PROVE  Checks \/ Commits(DirectRows(o))
  <2>1. rpc'[o] \in {"confirmed", "refused"}
    BY <1>11 DEF ConfirmDirect, Goto, TypeOK
  <2>2. \A p \in Order : CheckedFor(p)' \subseteq CheckedFor(p)
    BY <1>7, <1>11, <2>1 DEF CheckedFor, ConfirmDirect, Goto, TypeOK
  <2>3. \A h \in Hook : CheckedBy(h)' \subseteq CheckedBy(h)
    BY <1>4, <1>11 DEF ConfirmDirect
  <2>4. InFlight' \subseteq InFlight
    BY <1>3, <2>2, <2>3
  <2>5. CASE Confirmed' = Confirmed \cup DirectRows(o) /\ RecordRaces(DirectRows(o))
    <3>1. DirectRows(o) \subseteq InFlight
      BY <1>11 DEF ConfirmDirect, RequestInv, RequestOK, CheckedFor, InFlight
    <3> QED BY <2>4, <2>5, <3>1, OneDesk, RowsTyped DEF Commits, OrderOf
  <2>6. CASE Confirmed' = Confirmed /\ raced' = raced
    BY <1>1, <2>4, <2>6
  <2> QED BY <1>11, <2>5, <2>6, RowsTyped DEF ConfirmDirect, Confirmed
<1>12. ASSUME NEW o \in Order, ExpiryPasses(o) \/ Capture(o)
       PROVE  Checks
  BY <1>1, <1>3, <1>4, <1>5, <1>12 DEF ExpiryPasses, Capture, Confirmed
<1>13. ASSUME NEW h \in Hook, UNCHANGED <<status, requestVars, raced>>,
              \A g \in Hook \ {h} : /\ hpc'[g] = hpc[g] /\ todo'[g] = todo[g]
                                    /\ wrote'[g] = wrote[g],
              \A b \in CheckedBy(h)' : b \in CheckedBy(h) \/ HasRoom(b)
       PROVE  Checks
  <2>1. \A g \in Hook \ {h} : CheckedBy(g)' = CheckedBy(g)
    BY <1>6, <1>13
  <2>2. \A b \in InFlight' : b \in InFlight \/ HasRoom(b)
    BY <1>5, <1>13, <2>1 DEF InFlight
  <2> QED BY <1>1, <1>13, <2>2 DEF Confirmed
<1>14. ASSUME NEW h \in Hook, NEW o \in Order, FindPending(h, o)
       PROVE  Checks
  <2>1. CheckedBy(h)' \subseteq CheckedBy(h)
    BY <1>14 DEF FindPending, HookGoto, CheckedBy, TypeOK
  <2> QED BY <1>13, <1>14, <2>1 DEF FindPending, HookGoto, TypeOK
<1>15. ASSUME NEW h \in Hook, ReadCurrent(h)
       PROVE  Checks
  <2>1. CheckedBy(h)' \subseteq CheckedBy(h)
    BY <1>15 DEF ReadCurrent, HookGoto, CheckedBy, TypeOK
  <2> QED BY <1>13, <1>15, <2>1 DEF ReadCurrent, HookGoto, TypeOK
<1>16. ASSUME NEW h \in Hook, Rollback(h)
       PROVE  CheckedBy(h)' = {}
  BY <1>16 DEF Rollback, HookGoto, CheckedBy, TypeOK
<1>17. ASSUME NEW h \in Hook, CheckConflict(h)
       PROVE  Checks
  <2> DEFINE b == Current(h)
             taken == ConfirmedOn(CellOf(b)) \cup {d \in wrote[h] : CellOf(d) = CellOf(b)}
  <2>1. CASE Fits(CellOf(b), Quantity[OrderOf(b)], taken)
    <3>1. b \in Booking /\ OrderOf(b) \in Order /\ CellOf(b) \in Cell
      <4>1. todo[h] \subseteq Booking /\ todo[h] # {}
        BY <1>17 DEF CheckConflict, TypeOK
      <4>2. b \in Booking
        BY <4>1, CurrentInTodo
      <4> HIDE DEF b
      <4>3. b[1] \in Order /\ b[2] \in DOMAIN Slots[b[1]]
        BY <4>2, RowsTyped DEF Booking
      <4> QED BY <4>2, <4>3, SlotNumbers DEF OrderOf, CellOf
    <3>2. HasRoom(b)
      <4>1. wrote[h] \subseteq Rows(hookOrder[h]) /\ hookOrder[h] \in Order
        BY <1>17 DEF CheckConflict, DeliveryInv, DeliveryOK, TypeOK
      <4>2. IsFiniteSet({d \in wrote[h] : CellOf(d) = CellOf(b)})
        BY <4>1, RowsFinite, FS_Subset
      <4>3. IsFiniteSet(ConfirmedOn(CellOf(b)))
        BY <3>1, Countable
      <4>4. IsFiniteSet(taken)
        BY <4>2, <4>3, FS_Union
      <4>5. \A d \in taken : OrderOf(d) \in Order
        BY <3>1, <4>1, Countable, RowsTyped DEF OrderOf
      <4>6. ConfirmedOn(CellOf(b)) \in SUBSET taken /\ Quantity[OrderOf(b)] \in Nat
        BY <3>1, BookingsAssumption
      <4> HIDE DEF taken
      <4>7. Fits(CellOf(b), Quantity[OrderOf(b)], ConfirmedOn(CellOf(b)))
        BY <2>1, <3>1, <4>4, <4>5, <4>6, FitsFewer
      <4> QED BY <3>1, <4>7 DEF HasRoom
    <3>3. CheckedBy(h)' \subseteq CheckedBy(h) \cup {b}
      BY <1>17, <2>1 DEF CheckConflict, HookGoto, CheckedBy, Current, TypeOK
    <3> QED BY <1>13, <1>17, <2>1, <3>2, <3>3 DEF CheckConflict, HookGoto, TypeOK
  <2>2. CASE ~Fits(CellOf(b), Quantity[OrderOf(b)], taken)
    BY <1>13, <1>16, <1>17, <2>2 DEF CheckConflict, Rollback, HookGoto, TypeOK
  <2> QED BY <2>1, <2>2
<1>18. ASSUME NEW h \in Hook, WriteConfirmed(h)
       PROVE  Checks
  <2>1. CheckedBy(h)' \subseteq CheckedBy(h)
    BY <1>18 DEF WriteConfirmed, HookGoto, CheckedBy, TypeOK
  <2> QED BY <1>13, <1>18, <2>1 DEF WriteConfirmed, HookGoto, TypeOK
<1>19. ASSUME NEW h \in Hook, TransactionFails(h)
       PROVE  Checks
  BY <1>13, <1>16, <1>19 DEF TransactionFails, Rollback, HookGoto, TypeOK
<1>20. ASSUME NEW h \in Hook, CommitBookings(h)
       PROVE  Commits(wrote[h])
  <2>1. Confirmed' = Confirmed \cup wrote[h] /\ RecordRaces(wrote[h])
    BY <1>20 DEF CommitBookings, Confirmed, TypeOK
  <2>2. CheckedBy(h)' = {}
    BY <1>20 DEF CommitBookings, HookGoto, CheckedBy, TypeOK
  <2>3. \A g \in Hook : CheckedBy(g)' \subseteq CheckedBy(g)
    BY <1>6, <1>20, <2>2 DEF CommitBookings, HookGoto, TypeOK
  <2>4. InFlight' \subseteq InFlight
    BY <1>3, <1>5, <1>20, <2>3 DEF CommitBookings
  <2>5. \A a, d \in wrote[h] : OrderOf(a) = OrderOf(d) /\ (CellOf(a) \in Desk => a = d)
    BY <1>20, WrotePaid, RowsTyped, OneDesk DEF OrderOf
  <2>6. wrote[h] \subseteq InFlight
    BY DEF CheckedBy, InFlight
  <2> QED BY <2>1, <2>4, <2>5, <2>6 DEF Commits
<1>21. ASSUME NEW h \in Hook, SendConfirmation(h)
       PROVE  Checks
  <2>1. CheckedBy(h)' \subseteq CheckedBy(h)
    BY <1>21 DEF SendConfirmation, HookGoto, CheckedBy, TypeOK
  <2> QED BY <1>13, <1>21, <2>1 DEF SendConfirmation, HookGoto, TypeOK
<1>22. CASE RunExpirePendingBookings
  <2>1. Confirmed' = Confirmed /\ raced' = raced
    BY <1>22 DEF RunExpirePendingBookings, ExpireStale, Stale, Pending, Confirmed
  <2> QED BY <1>1, <1>3, <1>4, <1>5, <1>22, <2>1 DEF RunExpirePendingBookings
<1>23. CASE Crash
  <2>1. \A h \in Hook : CheckedBy(h)' = {}
    BY <1>23 DEF Crash, CheckedBy, HookOpen
  <2>2. \A o \in Order : CheckedFor(o)' = {}
    BY <1>23 DEF Crash, CheckedFor, RequestOpen
  <2> QED BY <1>1, <1>3, <1>23, <2>1, <2>2 DEF Crash, Confirmed
<1>24. CASE UNCHANGED vars
  BY <1>1, <1>3, <1>4, <1>5, <1>24 DEF vars, Confirmed
<1> DEFINE Either == Checks \/ \E B \in SUBSET InFlight : Commits(B)
<1>25. ASSUME NEW B, Commits(B)
       PROVE  \E C \in SUBSET InFlight : Commits(C)
  BY <1>25 DEF Commits
<1>26. ASSUME NEW o \in Order, CreateOrder(o)
       PROVE  Either
  <2>1. CASE ConfirmDirect(o)
    BY <1>11, <1>25, <2>1
  <2> QED BY <1>8, <1>9, <1>10, <1>26, <2>1 DEF CreateOrder
<1>27. ASSUME NEW h \in Hook, HandlePaymentSuccess(h)
       PROVE  Either
  <2>1. CASE CommitBookings(h)
    BY <1>20, <1>25, <2>1
  <2> QED BY <1>15, <1>17, <1>18, <1>21, <1>27, <2>1 DEF HandlePaymentSuccess
<1> HIDE DEF Either
<1>28. (\E o \in Order : ExpiryPasses(o) \/ Capture(o)) \/ RunExpirePendingBookings \/ Crash
         \/ (\E h \in Hook : TransactionFails(h) \/ \E o \in Order : FindPending(h, o))
         \/ UNCHANGED vars
       => Either
  BY <1>12, <1>14, <1>19, <1>22, <1>23, <1>24 DEF Either
<1>29. Either
  BY <1>26, <1>27, <1>28 DEF Next
<1> QED BY <1>29 DEF Either

\* Work that has checked a slot still has raced with whoever is CONFIRMED
\* there: the check saw nobody, and those who commit later record the race.
LEMMA CheckedStepInv ==
  ASSUME IInv, [Next]_vars
  PROVE  CheckedInv'
<1> USE DEF IInv
<1>1. CASE Checks
  <2>1. ASSUME NEW b, HasRoom(b), CellOf(b) \in Room
        PROVE  ConfirmedOn(CellOf(b)) = {}
    BY <2>1, BookingsAssumption DEF HasRoom, Fits
  <2> QED BY <1>1, <2>1 DEF Checks, CheckedInv, ConfirmedOn, Raced, OrderOf, CellOf
<1>2. ASSUME NEW B, Commits(B)
      PROVE  CheckedInv'
  BY <1>2 DEF Commits, CheckedInv, RecordRaces, Raced, OrderOf, CellOf
<1> QED BY <1>1, <1>2, CheckedSteps

\* Two orders still hold one room slot only if their work overlapped.
LEMMA RoomStepInv ==
  ASSUME IInv, [Next]_vars
  PROVE  RoomExclusiveUnlessRaced'
<1> USE DEF IInv
<1>1. CASE Checks
  BY <1>1 DEF Checks, RoomExclusiveUnlessRaced, Raced, OrderOf, CellOf
<1>2. ASSUME NEW B, Commits(B)
      PROVE  RoomExclusiveUnlessRaced'
  BY <1>2 DEF Commits, RoomExclusiveUnlessRaced, CheckedInv, RecordRaces, Raced, OrderOf, CellOf
<1> QED BY <1>1, <1>2, CheckedSteps

\* What is CONFIRMED stays finite: a commit adds rows of one order.
LEMMA CountableStepInv ==
  ASSUME IInv, [Next]_vars
  PROVE  CountableInv'
<1>1. IsFiniteSet(Confirmed)
  BY DEF IInv, CountableInv
<1>2. ASSUME NEW B, IsFiniteSet(B), Confirmed' = Confirmed \cup B
      PROVE  IsFiniteSet(Confirmed')
  BY <1>1, <1>2, FS_Union
<1>3. ASSUME NEW h \in Hook, CommitBookings(h)
      PROVE  IsFiniteSet(wrote[h])
  BY <1>3, WrotePaid, RowsFinite, FS_Subset
<1>4. TypeOK /\ RequestInv
  BY DEF IInv
<1> QED BY <1>1, <1>2, <1>3, <1>4, RowsFinite, ConfirmedSteps DEF CountableInv

\* A desk is still oversold only after a race: a booking that comes to be CONFIRMED fits,
\* or was in flight when another was.
LEMMA DeskStepInv ==
  ASSUME IInv, [Next]_vars
  PROVE  DeskCheckedInv' /\ DeskCapacityUnlessRaced'
<1> USE DEF IInv
<1>1. CASE Checks
  <2>1. ASSUME NEW b, HasRoom(b), CellOf(b) \in Desk
        PROVE  Seats(ConfirmedOn(CellOf(b)) \cup {b}) <= Capacity[CellOf(b)]
    <3> DEFINE B == ConfirmedOn(CellOf(b))
    <3>1. CellOf(b) \in Cell
      BY <2>1 DEF Cell
    <3>2. IsFiniteSet(B) /\ Seats(B) \in Nat /\ \A d \in B : OrderOf(d) \in Order
      BY <3>1, Countable
    <3>3. Seats(B) + Quantity[OrderOf(b)] <= Capacity[CellOf(b)]
      BY <2>1 DEF HasRoom, Fits
    <3>0. OrderOf(b) \in Order
      BY <2>1, RowsTyped DEF HasRoom, Booking, OrderOf
    <3>4. Quantity[OrderOf(b)] \in Nat /\ Capacity[CellOf(b)] \in Nat
      BY <3>0, <3>1, BookingsAssumption
    <3> HIDE DEF B
    <3>5. Seats(B \cup {b}) \in Nat /\ Seats(B \cup {b}) <= Seats(B) + Quantity[OrderOf(b)]
      BY <3>0, <3>2, SeatsWith
    <3>6. Seats(B \cup {b}) <= Capacity[CellOf(b)]
      BY <3>2, <3>3, <3>4, <3>5
    <3> QED BY <3>6 DEF B
  <2>2. \A c : ConfirmedOn(c)' = ConfirmedOn(c)
    BY <1>1 DEF Checks, ConfirmedOn, CellOf
  <2>4. DeskCheckedInv'
    BY <1>1, <2>1, <2>2 DEF Checks, DeskCheckedInv, Raced, CellOf
  <2>5. DeskCapacityUnlessRaced'
    BY <1>1, <2>2 DEF Checks, DeskCapacityUnlessRaced, Raced, Seats, SeatsOf, OrderOf
  <2> QED BY <2>4, <2>5
<1>2. ASSUME NEW B, Commits(B)
      PROVE  DeskCheckedInv' /\ DeskCapacityUnlessRaced'
  <2>1. ASSUME NEW c \in Desk, \A x \in B : CellOf(x) # c
        PROVE  ConfirmedOn(c)' = ConfirmedOn(c)
    BY <1>2, <2>1 DEF Commits, ConfirmedOn, CellOf
  <2>2. ASSUME NEW c \in Desk, NEW x \in B, CellOf(x) = c
        PROVE  B = {x} /\ ConfirmedOn(c)' = ConfirmedOn(c) \cup {x}
    <3>1. B = {x}
      BY <1>2, <2>2 DEF Commits
    <3>2. ConfirmedOn(c)' = ConfirmedOn(c) \cup {x}
      BY <1>2, <2>2, <3>1 DEF Commits, ConfirmedOn, CellOf
    <3> QED BY <3>1, <3>2
  <2>3. \A a, b : Raced(a, b) => Raced(a, b)'
    BY <1>2 DEF Commits, RecordRaces, Raced
  <2>4. \A c \in Desk : ConfirmedOn(c) \subseteq ConfirmedOn(c)'
    BY <2>1, <2>2
  <2>5. ASSUME NEW b \in InFlight', CellOf(b) \in Desk
        PROVE  \/ Seats(ConfirmedOn(CellOf(b))' \cup {b}) <= Capacity[CellOf(b)]
               \/ \E a \in ConfirmedOn(CellOf(b))' : Raced(a, b)'
    <3> DEFINE c == CellOf(b)
    <3>1. \/ Seats(ConfirmedOn(c) \cup {b}) <= Capacity[c]
          \/ \E a \in ConfirmedOn(c) : Raced(a, b)
      BY <1>2, <2>5 DEF Commits, DeskCheckedInv
    <3>2. CASE \A x \in B : CellOf(x) # c
      BY <2>1, <2>3, <2>5, <3>1, <3>2
    <3>3. ASSUME NEW x \in B, CellOf(x) = c, x # b
          PROVE  x \in ConfirmedOn(c)' /\ Raced(x, b)'
      <4>1. B = {x} /\ x \in ConfirmedOn(c)'
        BY <2>2, <2>5, <3>3
      <4>2. b \in InFlight \ B
        BY <1>2, <2>5, <3>3, <4>1 DEF Commits
      <4>3. <<x, b>> \in raced'
        BY <1>2, <3>3, <4>2 DEF Commits, RecordRaces
      <4> QED BY <4>1, <4>3 DEF Raced
    <3>4. CASE b \in B
      <4>1. ConfirmedOn(c)' = ConfirmedOn(c) \cup {b}
        BY <2>2, <2>5, <3>4
      <4>2. ConfirmedOn(c)' \cup {b} = ConfirmedOn(c) \cup {b}
        BY <4>1
      <4> QED BY <2>3, <2>4, <2>5, <3>1, <4>2
    <3> QED BY <3>2, <3>3, <3>4
  <2>6. ASSUME NEW c \in Desk, Seats(ConfirmedOn(c)') > Capacity[c]
        PROVE  \E a, b \in ConfirmedOn(c)' : Raced(a, b)'
    <3>1. CASE \A x \in B : CellOf(x) # c
      BY <2>1, <2>3, <2>6, <3>1 DEF DeskCapacityUnlessRaced
    <3>2. ASSUME NEW x \in B, CellOf(x) = c
          PROVE  \E a, b \in ConfirmedOn(c)' : Raced(a, b)'
      <4>1. ConfirmedOn(c)' = ConfirmedOn(c) \cup {x}
        BY <2>2, <3>2
      <4>2. x \in InFlight
        BY <1>2, <3>2 DEF Commits
      <4>3. \/ Seats(ConfirmedOn(c) \cup {x}) <= Capacity[c]
            \/ \E a \in ConfirmedOn(c) : Raced(a, x)
        BY <3>2, <4>2 DEF DeskCheckedInv
      <4>4. ~(Seats(ConfirmedOn(c) \cup {x}) <= Capacity[c])
        <5>1. IsFiniteSet(ConfirmedOn(c)) /\ \A d \in ConfirmedOn(c) : OrderOf(d) \in Order
          BY Countable DEF Cell
        <5>2. OrderOf(x) \in Order
          BY <4>2, InFlightTyped
        <5>3. Seats(ConfirmedOn(c) \cup {x}) \in Nat /\ Capacity[c] \in Nat
          BY <5>1, <5>2, SeatsWith, BookingsAssumption DEF Cell
        <5> QED BY <2>6, <4>1, <5>3
      <4> QED BY <2>3, <4>1, <4>3, <4>4
    <3> QED BY <3>1, <3>2
  <2>7. DeskCheckedInv'
    BY <2>5 DEF DeskCheckedInv, CellOf, Seats, SeatsOf, OrderOf
  <2>8. DeskCapacityUnlessRaced'
    BY <2>6 DEF DeskCapacityUnlessRaced, Seats, SeatsOf, OrderOf
  <2> QED BY <2>7, <2>8
<1> QED BY <1>1, <1>2, CheckedSteps

-----------------------------------------------------------------------------
(* The confirmation emails.                                                 *)

\* An order that a client may be told is confirmed: it is, or the sweep took it.
Settled(o) == o \in expired \/ Rows(o) \cap Confirmed # {}

\* A delivery that is about to send the email works on such an order.
MailInv ==
  /\ MailedUnlessExpired
  /\ \A h \in Hook : hpc[h] = "mail" => \E o \in Order : hookOrder[h] = o /\ Settled(o)

LEMMA SettledStays ==
  ASSUME IInv, [Next]_vars, NEW o \in Order, Settled(o)
  PROVE  Settled(o)'
<1>1. expired \subseteq expired' /\ Confirmed \subseteq Confirmed' /\ Rows(o)' = Rows(o)
  BY TableSteps, ConfirmedSteps DEF IInv, Rows
<1> QED BY <1>1 DEF Settled

\* Once a transaction has no row left to confirm, all the rows of its order that were
\* PENDING are among those it wrote: to commit settles the order.
LEMMA CommitSettles ==
  ASSUME IInv, [Next]_vars, NEW h \in Hook, CommitBookings(h)
  PROVE  \E o \in Order : hookOrder[h] = o /\ Settled(o)'
<1>1. PICK o \in Order : /\ hookOrder[h] = o /\ o \in captured
                         /\ wrote[h] \subseteq Rows(o)
                         /\ Pending \cap Rows(o) \subseteq wrote[h]
  BY DEF CommitBookings, IInv, TypeOK, DeliveryInv, DeliveryOK
<1>2. \A b \in Rows(o) : b \in Booking /\ OrderOf(b) = o /\ status[b] # "absent"
  BY <1>1, RowsTyped DEF IInv, RequestInv, RequestOK, OrderOf
<1>3. PICK b : b \in Rows(o)
  BY <1>1, RowsTyped, SlotNumbers
<1>4. Confirmed' = Confirmed \cup wrote[h]
  BY DEF CommitBookings, Confirmed, IInv, TypeOK
<1>5. Rows(o)' = Rows(o) /\ expired' = expired
  BY DEF CommitBookings, Rows
<1>6. ASSUME status[b] = "CANCELLED"
      PROVE  Settled(o)'
  BY <1>2, <1>3, <1>5, <1>6 DEF IInv, SweepInv, Settled
<1>7. ASSUME status[b] \in {"PENDING", "CONFIRMED"}
      PROVE  Settled(o)'
  <2>1. b \in Confirmed'
    BY <1>1, <1>2, <1>3, <1>4, <1>7 DEF Pending, Confirmed
  <2> QED BY <1>3, <1>5, <2>1 DEF Settled
<1>8. Settled(o)'
  BY <1>2, <1>3, <1>6, <1>7 DEF IInv, TypeOK, Status
<1> QED BY <1>1, <1>8

\* Only SendConfirmation counts an email, and only a commit makes a delivery ready to
\* send one.
LEMMA MailSteps ==
  ASSUME IInv, [Next]_vars
  PROVE  /\ \/ mails' = mails
            \/ \E h \in Hook : /\ hpc[h] = "mail"
                               /\ mails' = [mails EXCEPT ![hookOrder[h]] = @ + 1]
         /\ \A h \in Hook : hpc'[h] = "mail" =>
              CommitBookings(h) \/ (hpc[h] = "mail" /\ hookOrder'[h] = hookOrder[h])
<1> USE DEF requestVars, hookVars, IInv, TypeOK
<1>1. ASSUME NEW o \in Order, CreateOrder(o) \/ ExpiryPasses(o) \/ Capture(o)
      PROVE  UNCHANGED <<mails, hpc, hookOrder>>
  BY <1>1 DEF CreateOrder, BeginOrder, CheckAvailability, OrderFails, IssueOrder,
              InsertRow, ConfirmDirect, ExpiryPasses, Capture
<1>2. ASSUME NEW h \in Hook, HandlePaymentSuccess(h) \/ TransactionFails(h)
      PROVE  /\ hookOrder' = hookOrder
             /\ mails' = mails \/ ( /\ hpc[h] = "mail"
                                    /\ mails' = [mails EXCEPT ![hookOrder[h]] = @ + 1])
             /\ \A g \in Hook : hpc'[g] = "mail" => CommitBookings(g) \/ hpc[g] = "mail"
  <2>1. CASE CommitBookings(h)
    BY <2>1 DEF CommitBookings, HookGoto
  <2>2. CASE SendConfirmation(h)
    BY <2>2 DEF SendConfirmation, HookGoto
  <2>3. CASE ReadCurrent(h) \/ CheckConflict(h) \/ WriteConfirmed(h) \/ TransactionFails(h)
    BY <2>3 DEF ReadCurrent, CheckConflict, WriteConfirmed, TransactionFails, Rollback,
                HookGoto
  <2> QED BY <1>2, <2>1, <2>2, <2>3 DEF HandlePaymentSuccess
<1>3. ASSUME NEW h \in Hook, NEW o \in Order, FindPending(h, o)
      PROVE  mails' = mails /\ \A g \in Hook : hpc'[g] = "mail" =>
                                 hpc[g] = "mail" /\ hookOrder'[g] = hookOrder[g]
  <2>1. /\ mails' = mails /\ hookOrder' = [hookOrder EXCEPT ![h] = o]
        /\ \E s \in {"done", "read"} : hpc' = [hpc EXCEPT ![h] = s]
    BY <1>3 DEF FindPending, HookGoto
  <2> QED BY <2>1
<1>4. CASE RunExpirePendingBookings \/ Crash
  BY <1>4 DEF RunExpirePendingBookings, Crash
<1>5. CASE UNCHANGED vars
  BY <1>5 DEF vars
<1> QED BY <1>1, <1>2, <1>3, <1>4, <1>5 DEF Next

LEMMA MailStepInv ==
  ASSUME IInv, MailInv, [Next]_vars
  PROVE  MailInv'
<1>1. ASSUME NEW h \in Hook, hpc'[h] = "mail"
      PROVE  \E o \in Order : hookOrder'[h] = o /\ Settled(o)'
  <2>1. CASE CommitBookings(h)
    <3>1. hookOrder' = hookOrder
      BY <2>1 DEF CommitBookings, requestVars
    <3> QED BY <2>1, <3>1, CommitSettles
  <2>2. CASE hpc[h] = "mail" /\ hookOrder'[h] = hookOrder[h]
    <3>1. PICK o \in Order : o = hookOrder[h] /\ Settled(o)
      BY <2>2 DEF MailInv
    <3>2. Settled(o)'
      BY <3>1, SettledStays
    <3> QED BY <2>2, <3>1, <3>2
  <2> QED BY <1>1, <2>1, <2>2, MailSteps
<1>2. ASSUME NEW o \in Order, mails'[o] > 0
      PROVE  Settled(o)'
  <2>1. Settled(o)
    <3>1. CASE mails' = mails
      BY <1>2, <3>1 DEF MailInv, MailedUnlessExpired, Settled
    <3>2. ASSUME NEW h \in Hook, hpc[h] = "mail",
                 mails' = [mails EXCEPT ![hookOrder[h]] = @ + 1]
          PROVE  Settled(o)
      BY <1>2, <3>2 DEF MailInv, MailedUnlessExpired, Settled, IInv, TypeOK
    <3> QED BY <3>1, <3>2, MailSteps
  <2> QED BY <2>1, SettledStays
<1> QED BY <1>1, <1>2 DEF MailInv, MailedUnlessExpired, Settled

-----------------------------------------------------------------------------
(* The theorems.                                                            *)

\* The inductive invariant holds in every behaviour.
THEOREM Inductive == Spec => []IInv
<1>1. Init => IInv
  <2> SUFFICES ASSUME Init PROVE IInv
    OBVIOUS
  <2>1. Confirmed = {} /\ Pending = {}
    BY DEF Init, Confirmed, Pending
  <2>2. TypeOK
    BY SlotNumbers DEF Init, TypeOK, Status, RequestStep, HookStep
  <2>3. RequestInv
    BY RowsTyped DEF Init, RequestInv, RequestOK
  <2>4. DeliveryInv /\ SweepInv
    BY DEF Init, DeliveryInv, DeliveryOK, SweepInv
  <2>6. InFlight = {}
    BY DEF Init, InFlight, CheckedBy, CheckedFor
  <2>7. CountableInv /\ DeskCheckedInv
    BY <2>1, <2>6, FS_EmptySet DEF CountableInv, DeskCheckedInv
  <2>8. DeskCapacityUnlessRaced
    <3>1. SeatsOf({}) = {} /\ Seats({}) = 0
      BY FS_EmptySet DEF Seats, SeatsOf
    <3>2. \A c \in Desk : ConfirmedOn(c) = {} /\ Capacity[c] \in Nat
      BY <2>1, BookingsAssumption DEF ConfirmedOn, Cell
    <3> QED BY <3>1, <3>2 DEF DeskCapacityUnlessRaced
  <2>5. ConfirmedIsPaidOrCoupon /\ NoHalfSettledOrder /\ CheckedInv /\ RoomExclusiveUnlessRaced
    BY <2>1 DEF ConfirmedIsPaidOrCoupon, NoHalfSettledOrder, CheckedInv,
                RoomExclusiveUnlessRaced
  <2> QED BY <2>2, <2>3, <2>4, <2>5, <2>7, <2>8 DEF IInv
<1>2. TypeOK /\ [Next]_vars => TypeOK'
  BY TypeStep
<1>3. IInv /\ [Next]_vars => IInv'
  BY <1>2, RequestStepInv, DeliveryStepInv, SweepStepInv, PaidStepInv, SettledStepInv,
     CheckedStepInv, RoomStepInv, CountableStepInv, DeskStepInv DEF IInv
<1> QED BY <1>1, <1>3, PTL DEF Spec

\* For every number of orders, slots and deliveries: a room slot has two
\* CONFIRMED orders only if the work that confirmed them overlapped.
THEOREM RoomSafe == Spec => []RoomExclusiveUnlessRaced
<1>1. IInv => RoomExclusiveUnlessRaced
  BY DEF IInv
<1> QED BY <1>1, Inductive, PTL

\* For every number of orders, quantities and deliveries: a desk is sold beyond its capacity
\* only if two of its bookings were confirmed by overlapping work.
THEOREM DeskSafe == Spec => []DeskCapacityUnlessRaced
<1>1. IInv => DeskCapacityUnlessRaced
  BY DEF IInv
<1> QED BY <1>1, Inductive, PTL

\* In every state that is reached the two availability queries and the check of createOrder
\* agree on whether a seat can be had, for every capacity of a desk.
THEOREM ViewsSafe == Spec => []ViewsAgree
<1>1. ASSUME IInv
      PROVE  ViewsAgree
  <2>1. ASSUME NEW c \in Desk
        PROVE  /\ IsFree(c) <=> ~IsFull(c)
               /\ IsFree(c) <=> Fits(c, 1, ConfirmedOn(c))
    <3>1. Seats(ConfirmedOn(c)) \in Nat /\ Capacity[c] \in Nat
      BY <1>1, Countable, BookingsAssumption DEF Cell
    <3>2. IsFree(c) <=> Seats(ConfirmedOn(c)) < Capacity[c]
      BY DEF IsFree
    <3>3. IsFull(c) <=> Seats(ConfirmedOn(c)) >= Capacity[c]
      BY DEF IsFull, Booked
    <3>4. Fits(c, 1, ConfirmedOn(c)) <=> Seats(ConfirmedOn(c)) + 1 <= Capacity[c]
      BY DEF Fits
    <3> QED BY <3>1, <3>2, <3>3, <3>4
  <2>2. ASSUME NEW c \in Room, Capacity[c] = 1
        PROVE  /\ IsFree(c) <=> ~IsFull(c)
               /\ IsFree(c) <=> Fits(c, 1, ConfirmedOn(c))
    <3>1. c \notin Desk /\ c \in Cell
      BY BookingsAssumption DEF Cell
    <3>2. IsFiniteSet(ConfirmedOn(c))
      BY <1>1, <3>1, Countable
    <3>3. Cardinality(ConfirmedOn(c)) \in Nat /\ (Cardinality(ConfirmedOn(c)) = 0 <=> ConfirmedOn(c) = {})
      BY <3>2, FS_CardinalityType, FS_EmptySet
    <3>4. IsFree(c) <=> ConfirmedOn(c) = {}
      BY <3>1 DEF IsFree
    <3>5. IsFull(c) <=> Cardinality(ConfirmedOn(c)) >= 1
      BY <2>2, <3>1 DEF IsFull, Booked
    <3>6. Fits(c, 1, ConfirmedOn(c)) <=> ConfirmedOn(c) = {}
      BY <3>1 DEF Fits
    <3> QED BY <3>3, <3>4, <3>5, <3>6
  <2> QED BY <2>1, <2>2 DEF ViewsAgree, Cell
<1> QED BY <1>1, Inductive, PTL

\* Nothing is CONFIRMED that was neither paid nor covered by the coupon.
THEOREM PaidSafe == Spec => []ConfirmedIsPaidOrCoupon
<1>1. IInv => ConfirmedIsPaidOrCoupon
  BY DEF IInv
<1> QED BY <1>1, Inductive, PTL

\* The webhook settles all the bookings of an order together.
THEOREM SettledSafe == Spec => []NoHalfSettledOrder
<1>1. IInv => NoHalfSettledOrder
  BY DEF IInv
<1> QED BY <1>1, Inductive, PTL

\* Only orders that expired are split between CONFIRMED and CANCELLED.
THEOREM SplitSafe == Spec => []SplitOnlyByExpiry
<1>1. IInv => SplitOnlyByExpiry
  BY RowsTyped DEF IInv, SweepInv, SplitOnlyByExpiry, OrderOf
<1> QED BY <1>1, Inductive, PTL

\* A CONFIRMED booking is never taken back.
THEOREM ConfirmedStays == Spec => ConfirmedIsFinal
<1>1. IInv /\ [Next]_vars => [Confirmed \subseteq Confirmed']_vars
  BY ConfirmedSteps DEF IInv
<1> QED BY <1>1, Inductive, PTL DEF Spec, ConfirmedIsFinal

\* A client is told that a booking is confirmed only when it is, or when the sweep took
\* all of the order after it expired: the email follows the transaction, whatever other
\* deliveries, sweeps and crashes come between (SendConfirmation).
THEOREM MailSafe == Spec => []MailedUnlessExpired
<1>1. Init => MailInv
  BY DEF Init, MailInv, MailedUnlessExpired
<1>2. IInv /\ MailInv /\ [Next]_vars => MailInv'
  BY MailStepInv
<1>3. MailInv => MailedUnlessExpired
  BY DEF MailInv
<1> QED BY <1>1, <1>2, <1>3, Inductive, PTL DEF Spec

\* The table implements the ledger: every step of a request, a delivery, the
\* job or a crash is one of the ledger's steps or leaves it alone.
THEOREM Refinement == Spec => LedgerSpec
<1>1. Init => Ledger!Init
  BY DEF Init, Ledger!Init, Booking, Ledger!Booking
<1>2. IInv /\ [Next]_vars => [Ledger!Next]_(Ledger!vars)
  <2> SUFFICES ASSUME IInv, [Next]_vars
               PROVE  [Ledger!Next]_(Ledger!vars)
    OBVIOUS
  <2> USE DEF IInv, requestVars, hookVars, Ledger!vars
  <2>1. Ledger!Booking = Booking
    BY DEF Ledger!Booking, Booking
  <2>2. ASSUME ExpireStale, UNCHANGED <<expired, captured>>
        PROVE  Ledger!Sweep
    <3> DEFINE swept == UNION {Rows(o) \cap Ledger!Being("PENDING") : o \in expired}
    <3>1. \A b \in Stale : b \in Rows(OrderOf(b)) /\ OrderOf(b) \in expired
      BY DEF Stale, Pending, SweepInv, Booking, Rows, DirectRows, OrderOf
    <3>2. Stale \subseteq swept
      BY <2>1, <3>1 DEF Ledger!Being, Stale, Pending
    <3>3. swept \subseteq Stale
      BY <2>1, RowsTyped DEF Ledger!Being, Stale, Pending, OrderOf, TypeOK
    <3>4. swept = Stale
      BY <3>2, <3>3
    <3> HIDE DEF swept
    <3> QED BY <2>1, <2>2, <3>4 DEF ExpireStale, Ledger!Sweep, Ledger!Become, swept
  <2>3. ASSUME NEW o \in Order, InsertRow(o)
        PROVE  \E b \in Rows(o) : Ledger!Place(o, b)
    <3> DEFINE new == <<o, next[o], "order">>
    <3>1. new \in Rows(o) /\ new \in Booking
      BY RowsTyped DEF TypeOK
    <3>2. status[new] = "absent" /\ o \notin captured
      BY <2>3, <3>1 DEF InsertRow, RequestInv, RequestOK, TypeOK
    <3>3. /\ status' = [b \in Booking |-> IF b \in {new} THEN "PENDING" ELSE status[b]]
          /\ UNCHANGED <<expired, captured>>
      BY <2>3 DEF InsertRow, TypeOK
    <3> HIDE DEF new
    <3> QED BY <2>1, <3>1, <3>2, <3>3 DEF Ledger!Place, Ledger!Being, Ledger!Become
  <2>4. ASSUME NEW o \in Order, ConfirmDirect(o)
        PROVE  Ledger!Grant(o) \/ UNCHANGED Ledger!vars
    <3>1. o \in Coupon
      BY <2>4 DEF ConfirmDirect, RequestInv, RequestOK
    <3> QED BY <2>1, <2>4, <3>1 DEF ConfirmDirect, Ledger!Grant, Ledger!Become
  <2>5. ASSUME NEW h \in Hook, CommitBookings(h)
        PROVE  \E o \in Order : \E B \in SUBSET Rows(o) : Ledger!Settle(o, B)
    <3> DEFINE o == hookOrder[h]
    <3>1. Rows(o) \cap Ledger!Being("PENDING") \subseteq wrote[h]
      BY <2>1, <2>5, WrotePaid DEF Ledger!Being, Pending
    <3>2. wrote[h] \cap Ledger!Being("CANCELLED") # {} => o \in expired
      BY <2>1, <2>5, WrotePaid, RowsTyped DEF Ledger!Being, SweepInv, OrderOf
    <3>3. /\ status' = [b \in Booking |-> IF b \in wrote[h] THEN "CONFIRMED" ELSE status[b]]
          /\ UNCHANGED <<expired, captured>>
      BY <2>5 DEF CommitBookings
    <3>4. Ledger!Settle(o, wrote[h])
      BY <2>1, <2>5, <3>1, <3>2, <3>3, WrotePaid DEF Ledger!Settle, Ledger!Become
    <3> QED BY <2>5, <3>4, WrotePaid
  <2>6. ASSUME NEW o \in Order, ExpiryPasses(o)
        PROVE  Ledger!Expire(o)
    BY <2>6 DEF ExpiryPasses, Ledger!Expire
  <2>7. ASSUME NEW o \in Order, Capture(o)
        PROVE  Ledger!Pay(o)
    <3>1. \A b \in Rows(o) : status[b] # "absent"
      BY <2>7 DEF Capture, RequestInv, RequestOK
    <3> QED BY <2>1, <2>7, <3>1 DEF Capture, Ledger!Pay, Ledger!Being
  <2>8. ASSUME NEW o \in Order, CreateOrder(o)
        PROVE  [Ledger!Next]_(Ledger!vars)
    <3>1. CASE BeginOrder(o)
      BY <2>2, <3>1 DEF BeginOrder, Ledger!Next
    <3>2. CASE CheckAvailability(o) \/ OrderFails(o) \/ IssueOrder(o)
      BY <3>2 DEF CheckAvailability, OrderFails, IssueOrder
    <3>3. CASE InsertRow(o)
      BY <2>3, <3>3 DEF Ledger!Next
    <3>4. CASE ConfirmDirect(o)
      BY <2>4, <3>4 DEF Ledger!Next
    <3> QED BY <2>8, <3>1, <3>2, <3>3, <3>4 DEF CreateOrder
  <2>9. ASSUME NEW h \in Hook, HandlePaymentSuccess(h)
        PROVE  [Ledger!Next]_(Ledger!vars)
    <3>1. CASE ReadCurrent(h) \/ CheckConflict(h) \/ WriteConfirmed(h) \/ SendConfirmation(h)
      BY <3>1 DEF ReadCurrent, CheckConflict, WriteConfirmed, SendConfirmation
    <3>2. CASE CommitBookings(h)
      BY <2>5, <3>2 DEF Ledger!Next
    <3> QED BY <2>9, <3>1, <3>2 DEF HandlePaymentSuccess
  <2>10. ASSUME NEW h \in Hook, TransactionFails(h) \/ \E o \in Order : FindPending(h, o)
         PROVE  UNCHANGED Ledger!vars
    BY <2>10 DEF TransactionFails, FindPending
  <2>11. CASE RunExpirePendingBookings
    BY <2>2, <2>11 DEF RunExpirePendingBookings, Ledger!Next
  <2>12. CASE Crash
    BY <2>12 DEF Crash
  <2>13. CASE UNCHANGED vars
    BY <2>13 DEF vars
  <2> QED BY <2>6, <2>7, <2>8, <2>9, <2>10, <2>11, <2>12, <2>13 DEF Next, Ledger!Next
<1> QED BY <1>1, <1>2, Inductive, PTL DEF Spec, LedgerSpec, Ledger!Spec
=============================================================================
