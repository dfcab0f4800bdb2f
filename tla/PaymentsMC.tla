----------------------------- MODULE PaymentsMC -----------------------------
(***************************************************************************)
(* Small instances of Payments for TLC.                                    *)
(***************************************************************************)
EXTENDS Payments

\* Links p1 and p2 of company c1, and p3 of company c2.
OfCompany == [p \in Payment |-> IF p = "p3" THEN "c2" ELSE "c1"]

\* Tasks are named for what they are and the link they are about.
TaskKind  == [t \in Task |-> CASE t \in {"mark1", "mark2"} -> "admin"
                               [] t = "old1"               -> "legacy"
                               [] t = "lookup1"            -> "lookup"
                               [] OTHER                    -> "razorpay"]
TaskAbout == [t \in Task |-> CASE t \in {"paid2", "order2", "mark2"} -> "p2"
                               [] t = "paid3" -> "p3"
                               [] OTHER       -> "p1"]

=============================================================================
