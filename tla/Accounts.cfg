SPECIFICATION Spec
SYMMETRY Workers
CONSTANTS
  Company = {"c1", "c2"}
  Email = {"a", "b"}
  FirstContact <- OneContact
  SelfMade = {"a"}
  Worker = {w1, w2}
  MaxUser = 1
  MaxToken = 2
  Moving = {"c1"}
INVARIANTS
  TypeOK
  LinkUsedOnce
  
  CompanyHasAccount
CHECK_DEADLOCK FALSE
