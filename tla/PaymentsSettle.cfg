SPECIFICATION Spec
CONSTANTS
  Company = {"c1"}
  Payment = {"p1", "p2"}
  CompanyOf <- OfCompany
  Task = {"paid1", "order1", "mark1"}
  Kind <- TaskKind
  About <- TaskAbout
  Notes = {"paid1"}
  Patch = {}
  Asked = {}
  Unpadded = 2
  MaxCrashes = 0
  None = None
INVARIANTS
  TypeOK
  SettledOnceUnlessOverlap
  InvoiceNumbersConsecutive
  PaidHasReason
CHECK_DEADLOCK FALSE
