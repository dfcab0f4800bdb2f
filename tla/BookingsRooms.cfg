SPECIFICATION FairSpec
CONSTANTS
  Order = {"o1", "o2"}
  Hook = {"h1", "h2"}
  Room = {1, 2}
  Desk = {}
  Capacity <- RoomCapacity
  Slots <- RoomSlots
  Quantity <- OneEach
  Coupon = {"o2"}
  ZeroPayment = TRUE
INVARIANTS
  TypeOK
  RoomExclusiveUnlessRaced
  ConfirmedIsPaidOrCoupon
  NoHalfSettledOrder
  MailedUnlessExpired
PROPERTIES
  LedgerSpec
  PendingSettles
  
CHECK_DEADLOCK FALSE
