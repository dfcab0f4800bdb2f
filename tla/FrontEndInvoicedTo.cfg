SPECIFICATION FrontSpec
CONSTANTS
  t1 = t1
  t2 = t2
  Tab = {t1, t2}
  MaxSession = 2
  MaxSent = 1
  Space = {"r1", "r2"}
  SpaceType <- MCSpaceType
  Place <- MCPlace
  Price <- MCPrice
  Active = {"r1", "r2"}
  Typed = {0, 200}
  Date = {"d1", "d2"}
  Slot = {"s1"}
  MaxAsk = 2
  MaxOrder = 1
  Bulk = {"f1", "f2"}
  Single = {"s"}
  MaxLoad = 2
  MaxLost = 1
  Doc = {"d1", "d2"}
  MaxView = 2
  Draft = {1, 2}
  MaxWork = 2
  MaxUnseen = 1
  Kyc = {"f1", "f2"}
  MaxCreate = 2
  Hits = {2}
  MaxCalls = 3
  Resource = {"a", "b"}
  Kind <- MCKind
  FirstOf <- MCFirst
  Priced = {"a"}
  MaxPricing = 2
  MaxSave = 2
  MaxMoves = 2
  MaxVisits = 2
  Amounts = {0, 4, 1010, 2199, 10007}
  Rates = {250, 901, 12000}
  GST_RATE = 1800
  TDS_RATE = 1000
  MaxTyping = 4
  MaxAsked = 2
  MaxStops = 1
CHECK_DEADLOCK FALSE
INVARIANT InvoicedAsShown
