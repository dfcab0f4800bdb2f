----------------------------- MODULE RenewalsMC -----------------------------
(***************************************************************************)
(* A small instance of Renewals for TLC: a company of either channel, and  *)
(* contract ends near enough for each listed number of days to come up.    *)
(***************************************************************************)
EXTENDS Renewals

BothChannels == [c \in Company |-> IF c = "c1" THEN "AGGREGATOR" ELSE "DIRECT"]

=============================================================================
