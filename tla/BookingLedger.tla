---------------------------- MODULE BookingLedger ----------------------------
(***************************************************************************)
(* What the bookings table promises, free of requests, transactions and    *)
(* jobs: bookings are placed before their order is paid, an order is       *)
(* settled in one step that leaves none of its bookings PENDING, a sweep    *)
(* cancels every PENDING booking of the expired orders and nothing else,   *)
(* and a CONFIRMED booking stays.                                          *)
(***************************************************************************)
EXTENDS FiniteSets

CONSTANTS
  Order,        \* orders
  Coupon,       \* the orders that need not be paid
  Rows(_),      \* the bookings placed under an order
  DirectRows(_) \* the bookings a coupon order may be given without payment

VARIABLES status, expired, captured

vars == <<status, expired, captured>>

Booking == UNION {Rows(o) \cup DirectRows(o) : o \in Order}
Being(s) == {b \in Booking : status[b] = s}

Become(B, s) == status' = [b \in Booking |-> IF b \in B THEN s ELSE status[b]]

Init ==
  /\ status = [b \in Booking |-> "absent"]
  /\ expired = {}
  /\ captured = {}

Place(o, b) ==
  /\ o \notin captured
  /\ b \in Rows(o) \cap Being("absent")
  /\ Become({b}, "PENDING")
  /\ UNCHANGED <<expired, captured>>

Expire(o) ==
  /\ expired' = expired \cup {o}
  /\ UNCHANGED <<status, captured>>

Pay(o) ==
  /\ Rows(o) \cap Being("absent") = {}
  /\ captured' = captured \cup {o}
  /\ UNCHANGED <<status, expired>>

Sweep ==
  /\ Become(UNION {Rows(o) \cap Being("PENDING") : o \in expired}, "CANCELLED")
  /\ UNCHANGED <<expired, captured>>

\* An order is settled at once.  The rows left out of B are the ones a sweep
\* got to first; a row the sweep got to may be taken back, but only one of
\* the order that was paid.
Settle(o, B) ==
  /\ o \in captured
  /\ Rows(o) \cap Being("PENDING") \subseteq B
  /\ B \subseteq Rows(o)
  /\ B \cap Being("CANCELLED") # {} => o \in expired
  /\ Become(B, "CONFIRMED")
  /\ UNCHANGED <<expired, captured>>

Grant(o) ==
  /\ o \in Coupon
  /\ Become(DirectRows(o), "CONFIRMED")
  /\ UNCHANGED <<expired, captured>>

Next ==
  \/ Sweep
  \/ \E o \in Order : \/ Expire(o) \/ Pay(o) \/ Grant(o)
                      \/ \E b \in Rows(o) : Place(o, b)
                      \/ \E B \in SUBSET Rows(o) : Settle(o, B)

Spec == Init /\ [][Next]_vars

=============================================================================
