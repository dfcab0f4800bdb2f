SPECIFICATION Spec
SYMMETRY Workers
CONSTANTS
  Company = {"c1"}
  Doc = {"kyc1", "draft1", "draft2"}
  TypeOf <- DocTypes
  Worker = {w1, w2}
  Patch = {"PAYMENT_CONFIRMED", "AGREEMENT_DRAFT_SHARED"}
  Registrar = {"ADMIN", "AGGREGATOR"}
  Redirect = {}
  Verdict = {"VERIFIED", "REJECTED"}
  MayCrash = TRUE
INVARIANTS
  TypeOK
  
  
  NoStrayLogin
CHECK_DEADLOCK FALSE
