SPECIFICATION FairSpec
CONSTANTS
  Company = {"c1"}
  Payment = {"p1"}
  CompanyOf <- OfCompany
  Task = {"paid1", "old1", "lookup1"}
  Kind <- TaskKind
  About <- TaskAbout
  Notes = {"paid1"}
  Patch = {"a"}
  Asked = {"PAYMENT_PENDING", "PAYMENT_CONFIRMED", "KYC_IN_PROGRESS"}
  Unpadded = 10000
  MaxCrashes = 1
  None = None
INVARIANTS
  KycIsPaidFor

  
CHECK_DEADLOCK FALSE
