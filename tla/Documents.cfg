SPECIFICATION Spec
SYMMETRY Workers
CONSTANTS
  Company = {"c1"}
  Doc = {"aadhaar1", "draft1", "signed1", "final1"}
  TypeOf <- DocTypes
  Worker = {w1, w2}
  Patch = {"FINAL_AGREEMENT_SHARED"}
  Registrar = {"AGGREGATOR"}
  Redirect = {"DIRECT"}
  Verdict = {"VERIFIED"}
  MayCrash = FALSE

  
PROPERTIES
  LockedUnlessRaced
  GateSpec
CHECK_DEADLOCK FALSE
