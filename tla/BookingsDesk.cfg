SPECIFICATION Spec
CONSTANTS
  Order = {"o1", "o2", "o3"}
  Hook = {"h1", "h2"}
  Room = {}
  Desk = {9}
  Capacity <- DeskCapacity
  Slots <- DeskSlots
  Quantity <- DeskQuantity
  Coupon = {"o3"}
  ZeroPayment = FALSE
INVARIANTS
  ViewsAgree
  DeskCapacityUnlessRaced
CHECK_DEADLOCK FALSE
