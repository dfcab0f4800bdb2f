SPECIFICATION Spec
SYMMETRY Workers
CONSTANTS
  Company = {"c1"}
  Doc = {"aadhaar1", "draft1", "signed1", "final1"}
  TypeOf <- DocTypes
  Worker = {w1, w2}
  Patch = {"KYC_REVIEW", "FINAL_AGREEMENT_SHARED"}
  Registrar = {"AGGREGATOR"}
  Redirect = {}
  Verdict = {"VERIFIED"}
  MayCrash = FALSE
INVARIANTS
  ActivatedKycApproved
CHECK_DEADLOCK FALSE
