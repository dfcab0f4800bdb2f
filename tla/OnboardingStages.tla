-------------------------- MODULE OnboardingStages --------------------------
(***************************************************************************)
(* The onboarding lifecycle of a company (ClientProfile):                  *)
(* src/src/common/enums/onboarding-stage.enum.ts and the helper that       *)
(* validates a transition.                                                 *)
(***************************************************************************)
EXTENDS Naturals

Stage ==
  {"ADMIN_CREATED", "PAYMENT_PENDING", "PENDING_DOCUMENTS",
   "DOCUMENTS_SUBMITTED", "UNDER_REVIEW", "PAYMENT_CONFIRMED",
   "KYC_IN_PROGRESS", "KYC_REVIEW", "AGREEMENT_DRAFT_SHARED",
   "SIGNED_AGREEMENT_RECEIVED", "FINAL_AGREEMENT_SHARED", "ACTIVE",
   "COMPLETED", "REJECTED"}

\* ALLOWED_STAGE_TRANSITIONS as pairs; ACTIVE and COMPLETED are terminal.
AllowedTransitions ==
  ({"ADMIN_CREATED"} \X
     {"PAYMENT_PENDING", "PENDING_DOCUMENTS", "KYC_IN_PROGRESS", "REJECTED"})
  \cup ({"PAYMENT_PENDING"} \X {"PAYMENT_CONFIRMED", "REJECTED"})
  \cup ({"PENDING_DOCUMENTS"} \X {"DOCUMENTS_SUBMITTED", "REJECTED"})
  \cup ({"DOCUMENTS_SUBMITTED"} \X {"UNDER_REVIEW", "PENDING_DOCUMENTS"})
  \cup ({"UNDER_REVIEW"} \X
          {"COMPLETED", "REJECTED", "DOCUMENTS_SUBMITTED", "PAYMENT_CONFIRMED"})
  \cup ({"PAYMENT_CONFIRMED"} \X {"KYC_IN_PROGRESS"})
  \cup ({"KYC_IN_PROGRESS"} \X {"KYC_REVIEW", "DOCUMENTS_SUBMITTED", "REJECTED"})
  \cup ({"KYC_REVIEW"} \X
          {"AGREEMENT_DRAFT_SHARED", "KYC_IN_PROGRESS", "REJECTED"})
  \cup ({"AGREEMENT_DRAFT_SHARED"} \X {"SIGNED_AGREEMENT_RECEIVED", "REJECTED"})
  \cup ({"SIGNED_AGREEMENT_RECEIVED"} \X {"FINAL_AGREEMENT_SHARED", "REJECTED"})
  \cup ({"FINAL_AGREEMENT_SHARED"} \X {"ACTIVE", "REJECTED"})
  \cup ({"REJECTED"} \X {"PENDING_DOCUMENTS"})

\* assertValidTransition lets exactly these through.
CanTransition(from, to) == <<from, to>> \in AllowedTransitions

=============================================================================
