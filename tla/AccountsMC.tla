----------------------------- MODULE AccountsMC -----------------------------
(***************************************************************************)
(* A small instance of Accounts for TLC: the workers are interchangeable,  *)
(* and all companies start with the contact "a".                           *)
(***************************************************************************)
EXTENDS Accounts, TLC

Workers == Permutations(Worker)

OneContact == [c \in Company |-> "a"]

=============================================================================
