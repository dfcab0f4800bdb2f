----------------------------- MODULE BookingsMC -----------------------------
(***************************************************************************)
(* Small instances of Bookings for TLC.  Slots 1 and 2 are two hours of a   *)
(* room on one date, 9 is the full-day slot of a desk with two seats.       *)
(***************************************************************************)
EXTENDS Bookings

\* Two room orders that collide on slot 1, one of them for both slots.
RoomSlots    == [o \in Order |-> IF o = "o1" THEN <<1, 2>> ELSE <<1>>]
RoomCapacity == [c \in Cell |-> 1]
OneEach      == [o \in Order |-> 1]

\* Orders for a desk: two of one seat and one of both.
DeskSlots    == [o \in Order |-> <<9>>]
DeskCapacity == [c \in Cell |-> 2]
DeskQuantity == [o \in Order |-> IF o = "o3" THEN 2 ELSE 1]

=============================================================================
