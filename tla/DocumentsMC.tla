---------------------------- MODULE DocumentsMC -----------------------------
(***************************************************************************)
(* Small instances of Documents for TLC: documents are named for their     *)
(* types.                                                                  *)
(***************************************************************************)
EXTENDS Documents, TLC

Workers == Permutations(Worker)

DocTypes == [d \in Doc |-> CASE d \in {"aadhaar1", "aadhaar2"} -> "AADHAAR"
                             [] d = "kyc1"                     -> "KYC"
                             [] d \in {"draft1", "draft2"}     -> "AGREEMENT_DRAFT"
                             [] d \in {"signed1", "signed2"}   -> "AGREEMENT_SIGNED"
                             [] d = "noc1"                     -> "NOC_LANDLORD"
                             [] OTHER                          -> "AGREEMENT_FINAL"]

=============================================================================
