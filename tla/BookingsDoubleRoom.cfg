SPECIFICATION Spec
CONSTANTS
  Order = {"o1", "o2"}
  Hook = {"h1", "h2"}
  Room = {1, 2}
  Desk = {}
  Capacity <- RoomCapacity
  Slots <- RoomSlots
  Quantity <- OneEach
  Coupon = {}
  ZeroPayment = TRUE
INVARIANTS
  RoomExclusive
CHECK_DEADLOCK FALSE
