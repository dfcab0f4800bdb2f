------------------------------ MODULE Bookings ------------------------------
(***************************************************************************)
(* The public booking flow of src/src/public-bookings: createOrder places  *)
(* PENDING bookings against a Razorpay order, the payment webhook confirms *)
(* them in a READ COMMITTED transaction, and a cron job cancels the ones   *)
(* whose five minutes have passed.  Requests, webhook deliveries and the   *)
(* job run in one Node process and interleave at every await.              *)
(***************************************************************************)
EXTENDS Naturals, Sequences, FiniteSets

CONSTANTS
  Order,        \* calls of createOrder; each makes at most one Razorpay order
  Hook,         \* webhook deliveries, duplicates and retries included
  Room, Desk,   \* a room, or a day-pass desk, on one date and time slot
  Capacity,     \* resource.capacity of each of them
  Slots,        \* the slots an order asks for, in order (effectiveSlotIds)
  Quantity,     \* the desks an order asks for
  Coupon,       \* the orders that carry the internal coupon code
  ZeroPayment   \* tryCreateZeroAmountOrder is enabled and configured

Cell == Room \cup Desk

ASSUME BookingsAssumption ==
  /\ Room \cap Desk = {}
  /\ Capacity \in [Cell -> Nat]
  /\ Slots \in [Order -> Seq(Cell)]
  /\ \A o \in Order : /\ Len(Slots[o]) > 0
                      /\ \A i \in DOMAIN Slots[o] : Slots[o][i] \in Desk => Len(Slots[o]) = 1
  /\ Quantity \in [Order -> Nat \ {0}]
  /\ Coupon \subseteq Order
  /\ ZeroPayment \in BOOLEAN

VARIABLES
  status,    \* of every row of the bookings table that may ever exist
  rpc, next, \* of a createOrder call: the step, and the slot it is at
  issued,    \* orders whose Razorpay order exists and whose expiresAt is set
  expired,   \* orders whose expiresAt is in the past
  captured,  \* orders whose payment Razorpay has captured
  hpc,       \* of a webhook delivery: the step
  hookOrder, \* ... the order its payload names
  todo,      \* ... the rows its transaction has yet to confirm
  wrote,     \* ... the rows its open transaction has updated (and locked)
  mails,     \* confirmation emails sent for an order
  raced      \* history: pairs of bookings confirmed by overlapping work

vars == <<status, rpc, next, issued, expired, captured, hpc, hookOrder, todo,
          wrote, mails, raced>>

requestVars == <<rpc, next, issued>>
hookVars    == <<hpc, hookOrder, todo, wrote, mails>>

-----------------------------------------------------------------------------
(* Rows.  A booking is <<order, position of its slot, kind>>: kind "order"  *)
(* for the rows placed under a Razorpay order, "direct" for those that      *)
(* createConfirmedInternalBookings inserts without one.                     *)

Rows(o)       == {o} \X (DOMAIN Slots[o]) \X {"order"}
DirectRows(o) == {o} \X (DOMAIN Slots[o]) \X {"direct"}
Booking       == UNION {Rows(o) \cup DirectRows(o) : o \in Order}

OrderOf(b) == b[1]
CellOf(b)  == Slots[b[1]][b[2]]

Status == {"absent", "PENDING", "CONFIRMED", "CANCELLED"}

Confirmed      == {b \in Booking : status[b] = "CONFIRMED"}
Pending        == {b \in Booking : status[b] = "PENDING"}
ConfirmedOn(c) == {b \in Confirmed : CellOf(b) = c}

\* The seats that bookings take, one by one, and how many (the SUM of quantity).
SeatsOf(B) == UNION {{b} \X (1..Quantity[OrderOf(b)]) : b \in B}
Seats(B)   == Cardinality(SeatsOf(B))

FitsByCapacity(c, quantity, taken) == \* a slip: rooms judged like desks
  Seats(taken) <= Capacity[c]
FitsIgnoringQuantity(c, quantity, taken) == \* a slip: any seat left will do
  IF c \in Desk THEN Seats(taken) < Capacity[c] ELSE taken = {}

\* The rule that checkAvailability and the webhook transaction share: a room
\* slot takes one booking, a desk takes bookings up to its capacity.
Fits(c, quantity, taken) ==
  IF c \in Desk THEN Seats(taken) + quantity <= Capacity[c] ELSE taken = {}

\* What the two availability queries answer: getSlotAvailability's isFull
\* counts the seats of a desk and the rows of a room against the capacity,
\* getAvailabilityForDate looks for any row of a room.
Booked(c) == IF c \in Desk THEN Seats(ConfirmedOn(c))
             ELSE Cardinality(ConfirmedOn(c))
IsFullWhenOver(c) == Booked(c) > Capacity[c] \* a slip: remaining < 0
IsFull(c) == Booked(c) >= Capacity[c]
IsFree(c) == IF c \in Desk THEN Seats(ConfirmedOn(c)) < Capacity[c]
             ELSE ConfirmedOn(c) = {}

\* Rows that expireStalePendingBookings matches, and rows it must wait for.
Stale  == {b \in Pending : OrderOf(b) \in expired}
Locked == UNION {wrote[h] : h \in Hook}

\* The booking that the loop of an open transaction is at.
Current(h) == CHOOSE b \in todo[h] : \A d \in todo[h] : b[2] <= d[2]

\* Bookings whose availability was checked by work that has yet to commit.
CheckedBy(h) ==
  wrote[h] \cup (IF hpc[h] = "write" THEN {Current(h)} ELSE {})
CheckedFor(o) ==
  IF o \notin Coupon THEN {}
  ELSE IF rpc[o] = "check" THEN {b \in DirectRows(o) : b[2] < next[o]}
  ELSE IF rpc[o] \in {"order", "rows", "direct"} THEN DirectRows(o)
  ELSE {}
InFlight ==
  (UNION {CheckedBy(h) : h \in Hook}) \cup (UNION {CheckedFor(o) : o \in Order})

RecordRaces(B) ==
  raced' = raced \cup
             {p \in B \X (InFlight \ B) : CellOf(p[1]) = CellOf(p[2])}

RequestStep == {"start", "check", "order", "rows", "direct",
                "returned", "confirmed", "refused", "dead"}
HookStep    == {"idle", "read", "check", "write", "mail",
                "done", "acknowledged", "dead"}
RequestOpen == {o \in Order : rpc[o] \in {"check", "order", "rows", "direct"}}
HookOpen    == {h \in Hook : hpc[h] \in {"read", "check", "write", "mail"}}

\* The type invariant.
TypeOK ==
  /\ status \in [Booking -> Status]
  /\ rpc \in [Order -> RequestStep]
  /\ next \in [Order -> Nat \ {0}]
  /\ \A o \in Order : next[o] \in DOMAIN Slots[o]
  /\ issued \subseteq Order
  /\ expired \subseteq Order
  /\ captured \subseteq Order
  /\ hpc \in [Hook -> HookStep]
  /\ hookOrder \in [Hook -> Order \cup {"none"}]
  /\ todo \in [Hook -> SUBSET Booking]
  /\ \A h \in Hook : hpc[h] \in {"check", "write"} => todo[h] # {}
  /\ wrote \in [Hook -> SUBSET Booking]
  /\ mails \in [Order -> Nat]
  /\ raced \subseteq Booking \X Booking

Init ==
  /\ status = [b \in Booking |-> "absent"]
  /\ rpc = [o \in Order |-> "start"]
  /\ next = [o \in Order |-> 1]
  /\ issued = {}
  /\ expired = {}
  /\ captured = {}
  /\ hpc = [h \in Hook |-> "idle"]
  /\ hookOrder = [h \in Hook |-> "none"]
  /\ todo = [h \in Hook |-> {}]
  /\ wrote = [h \in Hook |-> {}]
  /\ mails = [o \in Order |-> 0]
  /\ raced = {}

-----------------------------------------------------------------------------
(* Expiry.                                                                  *)

\* expireStalePendingBookings: one UPDATE ... WHERE status = PENDING.  It
\* waits for a row that an open transaction has updated, and looks again at
\* the row's status once it has the lock.
ExpireStale ==
  /\ Stale \cap Locked = {}
  /\ status' = [b \in Booking |-> IF b \in Stale THEN "CANCELLED"
                                  ELSE status[b]]

\* The five minutes of an order's expiresAt pass.
ExpiryPasses(o) ==
  /\ o \in issued \ expired
  /\ expired' = expired \cup {o}
  /\ UNCHANGED <<status, requestVars, captured, hookVars, raced>>

RunExpireUnscheduled == UNCHANGED vars \* a slip: the job is not registered

\* The cron job.  Its second UPDATE, for rows created over 15 minutes ago,
\* matches only rows the first has already cancelled: every PENDING row has
\* an expiresAt five minutes after its order.
RunExpirePendingBookings ==
  /\ ExpireStale
  /\ UNCHANGED <<requestVars, expired, captured, hookVars, raced>>

-----------------------------------------------------------------------------
(* createOrder.                                                             *)

Goto(o, step) == rpc' = [rpc EXCEPT ![o] = step]

\* The request is valid (date, resource, price, coupon code): it first sweeps
\* the stale bookings, then goes on to the slots.
BeginOrder(o) ==
  /\ rpc[o] = "start"
  /\ ExpireStale
  /\ Goto(o, "check")
  /\ UNCHANGED <<next, issued, expired, captured, hookVars, raced>>

\* checkAvailability for the next slot; it counts CONFIRMED rows only.
CheckAvailability(o) ==
  LET c == Slots[o][next[o]] IN
  /\ rpc[o] = "check"
  /\ \/ /\ ~Fits(c, Quantity[o], ConfirmedOn(c))
        /\ Goto(o, "refused")
        /\ UNCHANGED next
     \/ /\ Fits(c, Quantity[o], ConfirmedOn(c))
        /\ next[o] < Len(Slots[o])
        /\ next' = [next EXCEPT ![o] = @ + 1]
        /\ UNCHANGED rpc
     \/ /\ Fits(c, Quantity[o], ConfirmedOn(c))
        /\ next[o] = Len(Slots[o])
        /\ next' = [next EXCEPT ![o] = 1]
        /\ Goto(o, IF o \in Coupon /\ ~ZeroPayment THEN "direct" ELSE "order")
  /\ UNCHANGED <<status, issued, expired, captured, hookVars, raced>>

OrderFailsOpen(o) == \* a slip: the fallback is not tied to the coupon
  /\ rpc[o] \in {"order", "rows"}
  /\ Goto(o, "direct")
  /\ UNCHANGED <<status, next, issued, expired, captured, hookVars, raced>>

\* A step of the request throws.  tryCreateZeroAmountOrder swallows it and
\* the request falls back to direct confirmation; otherwise it is the answer.
OrderFails(o) ==
  /\ rpc[o] \in {"order", "rows"}
  /\ Goto(o, IF o \in Coupon THEN "direct" ELSE "refused")
  /\ UNCHANGED <<status, next, issued, expired, captured, hookVars, raced>>

\* razorpayService.createOrder succeeds; expiresAt is computed.
IssueOrder(o) ==
  /\ rpc[o] = "order"
  /\ Goto(o, "rows")
  /\ issued' = issued \cup {o}
  /\ UNCHANGED <<status, next, expired, captured, hookVars, raced>>

InsertRowPastEnd(o) == \* a slip: the loop runs to i <= length
  /\ rpc[o] = "rows"
  /\ status' = [status EXCEPT ![<<o, next[o], "order">>] = "PENDING"]
  /\ next' = [next EXCEPT ![o] = @ + 1]
  /\ UNCHANGED <<rpc, issued, expired, captured, hookVars, raced>>

\* One booking.create; the rows of an order are not created in a transaction.
InsertRow(o) ==
  /\ rpc[o] = "rows"
  /\ status' = [status EXCEPT ![<<o, next[o], "order">>] = "PENDING"]
  /\ IF next[o] < Len(Slots[o])
     THEN /\ next' = [next EXCEPT ![o] = @ + 1]
          /\ UNCHANGED rpc
     ELSE /\ Goto(o, "returned")
          /\ UNCHANGED next
  /\ UNCHANGED <<issued, expired, captured, hookVars, raced>>

\* createConfirmedInternalBookings: one transaction that inserts every row
\* CONFIRMED.  It reads nothing, so it can fail only as a whole.
ConfirmDirect(o) ==
  /\ rpc[o] = "direct"
  /\ \/ /\ status' = [b \in Booking |->
                        IF b \in DirectRows(o) THEN "CONFIRMED" ELSE status[b]]
        /\ RecordRaces(DirectRows(o))
        /\ Goto(o, "confirmed")
     \/ /\ Goto(o, "refused")
        /\ UNCHANGED <<status, raced>>
  /\ UNCHANGED <<next, issued, expired, captured, hookVars>>

-----------------------------------------------------------------------------
(* Razorpay (external) and handlePaymentSuccess.                            *)

\* The client pays: it knows the order once createOrder has answered, and
\* Razorpay accepts the payment whether or not expiresAt has passed.
Capture(o) ==
  /\ rpc[o] = "returned"
  /\ o \notin captured
  /\ captured' = captured \cup {o}
  /\ UNCHANGED <<status, requestVars, expired, hookVars, raced>>

HookGoto(h, step) == hpc' = [hpc EXCEPT ![h] = step]

FindFirstPending(h, o) == \* a slip: findFirst where findMany is meant
  \E b \in Pending \cap Rows(o) :
    /\ hpc[h] = "idle"
    /\ o \in captured
    /\ hookOrder' = [hookOrder EXCEPT ![h] = o]
    /\ todo' = [todo EXCEPT ![h] = {b}]
    /\ HookGoto(h, "read")
    /\ UNCHANGED <<status, requestVars, expired, captured, wrote, mails, raced>>

\* Deliveries of payment.captured and order.paid, in any number and order:
\* the signature is good, and findMany returns the PENDING rows.
FindPending(h, o) ==
  LET found == Pending \cap Rows(o) IN
  /\ hpc[h] = "idle"
  /\ o \in captured
  /\ hookOrder' = [hookOrder EXCEPT ![h] = o]
  /\ todo' = [todo EXCEPT ![h] = found]
  /\ HookGoto(h, IF found = {} THEN "done" ELSE "read")
  /\ UNCHANGED <<status, requestVars, expired, captured, wrote, mails, raced>>

\* tx.booking.findUnique: a row that is no longer PENDING is skipped.
ReadCurrent(h) ==
  /\ hpc[h] = "read"
  /\ todo[h] # {}
  /\ IF status[Current(h)] = "PENDING"
     THEN /\ HookGoto(h, "check")
          /\ UNCHANGED todo
     ELSE /\ todo' = [todo EXCEPT ![h] = @ \ {Current(h)}]
          /\ UNCHANGED hpc
  /\ UNCHANGED <<status, requestVars, expired, captured, hookOrder, wrote,
                 mails, raced>>

RollbackIgnored(h) == \* a slip: what it throws is caught and not returned on
  /\ HookGoto(h, "mail")
  /\ todo' = [todo EXCEPT ![h] = {}]
  /\ wrote' = [wrote EXCEPT ![h] = {}]

RollbackKeepsLocks(h) == \* a slip: the transaction is left open
  /\ HookGoto(h, "acknowledged")
  /\ todo' = [todo EXCEPT ![h] = {}]
  /\ UNCHANGED wrote

\* The transaction throws, here for want of room and in TransactionFails for
\* any database error: nothing it wrote remains, and the answer is still 200.
Rollback(h) ==
  /\ HookGoto(h, "acknowledged")
  /\ todo' = [todo EXCEPT ![h] = {}]
  /\ wrote' = [wrote EXCEPT ![h] = {}]

\* The conflict query; it sees committed rows and the transaction's own.
CheckConflict(h) ==
  LET b     == Current(h)
      taken == ConfirmedOn(CellOf(b))
                 \cup {d \in wrote[h] : CellOf(d) = CellOf(b)}
  IN
  /\ hpc[h] = "check"
  /\ IF Fits(CellOf(b), Quantity[OrderOf(b)], taken)
     THEN /\ HookGoto(h, "write")
          /\ UNCHANGED <<todo, wrote>>
     ELSE Rollback(h)
  /\ UNCHANGED <<status, requestVars, expired, captured, hookOrder, mails,
                 raced>>

\* tx.booking.update by id: it waits for the row's lock and does not look at
\* the status again.
WriteConfirmed(h) ==
  /\ hpc[h] = "write"
  /\ \A g \in Hook \ {h} : Current(h) \notin wrote[g]
  /\ wrote' = [wrote EXCEPT ![h] = @ \cup {Current(h)}]
  /\ todo' = [todo EXCEPT ![h] = @ \ {Current(h)}]
  /\ HookGoto(h, "read")
  /\ UNCHANGED <<status, requestVars, expired, captured, hookOrder, mails,
                 raced>>

\* A deadlock, Prisma's transaction timeout, a lost connection.
TransactionFails(h) ==
  /\ hpc[h] \in {"read", "check", "write"}
  /\ Rollback(h)
  /\ UNCHANGED <<status, requestVars, expired, captured, hookOrder, mails,
                 raced>>

CommitBookings(h) ==
  /\ hpc[h] = "read"
  /\ todo[h] = {}
  /\ status' = [b \in Booking |-> IF b \in wrote[h] THEN "CONFIRMED"
                                  ELSE status[b]]
  /\ RecordRaces(wrote[h])
  /\ wrote' = [wrote EXCEPT ![h] = {}]
  /\ HookGoto(h, "mail")
  /\ UNCHANGED <<requestVars, expired, captured, hookOrder, todo, mails>>

\* The email goes out for the rows found, whatever the loop did with them; a
\* failure to send is logged and swallowed.
SendConfirmation(h) ==
  /\ hpc[h] = "mail"
  /\ \/ mails' = [mails EXCEPT ![hookOrder[h]] = @ + 1]
     \/ UNCHANGED mails
  /\ HookGoto(h, "done")
  /\ UNCHANGED <<status, requestVars, expired, captured, hookOrder, todo,
                 wrote, raced>>

CrashKeepsWrites == \* a slip: the loop updates without a transaction
  /\ HookOpen # {}
  /\ status' = [b \in Booking |-> IF b \in Locked THEN "CONFIRMED" ELSE status[b]]
  /\ hpc' = [h \in Hook |-> IF h \in HookOpen THEN "dead" ELSE hpc[h]]
  /\ todo' = [h \in Hook |-> {}]
  /\ wrote' = [h \in Hook |-> {}]
  /\ UNCHANGED <<requestVars, expired, captured, hookOrder, mails, raced>>

\* The Node process dies and restarts: open requests and deliveries are
\* gone, and the database rolls the open transactions back.
Crash ==
  /\ RequestOpen # {} \/ HookOpen # {}
  /\ rpc' = [o \in Order |-> IF o \in RequestOpen THEN "dead" ELSE rpc[o]]
  /\ hpc' = [h \in Hook |-> IF h \in HookOpen THEN "dead" ELSE hpc[h]]
  /\ todo' = [h \in Hook |-> {}]
  /\ wrote' = [h \in Hook |-> {}]
  /\ UNCHANGED <<status, next, issued, expired, captured, hookOrder, mails,
                 raced>>

-----------------------------------------------------------------------------
CreateOrder(o) ==
  \/ BeginOrder(o) \/ CheckAvailability(o) \/ OrderFails(o)
  \/ IssueOrder(o) \/ InsertRow(o) \/ ConfirmDirect(o)

HandlePaymentSuccess(h) ==
  \/ ReadCurrent(h) \/ CheckConflict(h) \/ WriteConfirmed(h)
  \/ CommitBookings(h) \/ SendConfirmation(h)

Next ==
  \/ \E o \in Order : CreateOrder(o) \/ ExpiryPasses(o) \/ Capture(o)
  \/ \E h \in Hook : \/ \E o \in Order : FindPending(h, o)
                     \/ HandlePaymentSuccess(h)
                     \/ TransactionFails(h)
  \/ RunExpirePendingBookings
  \/ Crash

Spec == Init /\ [][Next]_vars

\* Time passes, the job runs every five minutes, and a delivery that was begun
\* goes on without needing an error to end it; nobody has to order or to pay.
Fairness ==
  /\ \A o \in Order : WF_vars(ExpiryPasses(o))
  /\ \A h \in Hook : WF_vars(HandlePaymentSuccess(h))
  /\ WF_vars(RunExpirePendingBookings)

FairSpec == Spec /\ Fairness

-----------------------------------------------------------------------------
(* Properties.                                                              *)

Raced(a, b) == <<a, b>> \in raced \/ <<b, a>> \in raced

\* Two orders hold the same room slot only if the work that confirmed them
\* overlapped: each had passed its conflict check before the other committed.
\* The check in the webhook transaction stops every other double booking.
RoomExclusiveUnlessRaced ==
  \A a, b \in Confirmed :
    (OrderOf(a) # OrderOf(b) /\ CellOf(a) = CellOf(b) /\ CellOf(a) \in Room)
      => Raced(a, b)

\* A desk is sold beyond its capacity only when two of its bookings were
\* confirmed by overlapping work: the SUM of the capacity check counts every
\* booking confirmed before it.
DeskCapacityUnlessRaced ==
  \A c \in Desk :
    Seats(ConfirmedOn(c)) > Capacity[c]
      => \E a, b \in ConfirmedOn(c) : Raced(a, b)

\* The two availability queries and the check that createOrder makes agree on
\* whether one more seat can be had, also after an overlap has oversold a
\* slot.  Rooms must have capacity 1, as in prisma/seed.ts: getSlotAvailability
\* would show a larger one as available when checkAvailability refuses it.
ViewsAgree ==
  \A c \in Cell :
    (c \in Room => Capacity[c] = 1)
      => /\ IsFree(c) <=> ~IsFull(c)
         /\ IsFree(c) <=> Fits(c, 1, ConfirmedOn(c))

\* A booking is CONFIRMED only if Razorpay captured the payment of its order
\* or the order carries the internal coupon: no order of the steps of
\* createOrder, the job and the webhook gives a seat away.
ConfirmedIsPaidOrCoupon ==
  \A b \in Confirmed : IF b[3] = "order" THEN OrderOf(b) \in captured
                                         ELSE OrderOf(b) \in Coupon

\* Once one booking of an order is CONFIRMED none of them is PENDING or yet
\* to be placed: the webhook settles a multi-slot order in one transaction.
NoHalfSettledOrder ==
  \A o \in Order : Rows(o) \cap Confirmed # {}
    => \A b \in Rows(o) : status[b] \in {"CONFIRMED", "CANCELLED"}

\* An order can end up partly CONFIRMED, partly CANCELLED only if it expired
\* before it was settled: nothing but the sweep takes a slot from an order.
SplitOnlyByExpiry ==
  \A o \in Order \ expired :
    \A a, b \in Rows(o) : ~(status[a] = "CONFIRMED" /\ status[b] = "CANCELLED")

\* The email of step 5 says "Your booking at Aspire Coworks has been
\* confirmed".  It follows the transaction and not what that did: the order
\* then holds a CONFIRMED booking, or the sweep took all it had in between.
MailedUnlessExpired ==
  \A o \in Order : mails[o] > 0 => o \in expired \/ Rows(o) \cap Confirmed # {}

\* A CONFIRMED booking stays CONFIRMED, whatever the sweeps of createOrder and
\* of the job, rollbacks and crashes do around its transaction.
ConfirmedIsFinal == [][Confirmed \subseteq Confirmed']_vars

\* The table with its expiry and payments implements the abstract ledger.
Ledger == INSTANCE BookingLedger WITH
  Order <- Order, Coupon <- Coupon, Rows <- Rows, DirectRows <- DirectRows,
  status <- status, expired <- expired, captured <- captured
LedgerSpec == Ledger!Spec

\* Every PENDING booking is CONFIRMED or CANCELLED in the end: the job gets to
\* the rows of refused, crashed and never paid orders, and waits for no
\* transaction for ever.
PendingSettles ==
  \A b \in Booking : (status[b] = "PENDING") ~> (status[b] # "PENDING")

\* Every delivery is answered or dies with the process: the row locks of
\* concurrent transactions never leave them waiting on each other.
DeliverySettles ==
  \A h \in Hook : (hpc[h] = "read") ~> (h \notin HookOpen)

-----------------------------------------------------------------------------
(* What scripts, comments and templates of the repository say, and the      *)
(* interleavings above refute.                                              *)

\* scripts/test-booking-scenarios.ts: "Book same slot twice (room) -> second
\* must fail".
RoomExclusive ==
  \A a, b \in Confirmed : (a # b /\ CellOf(a) = CellOf(b)) => CellOf(a) \in Desk

=============================================================================
