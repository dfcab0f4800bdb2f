--------------------------- MODULE ActivationGate ---------------------------
(***************************************************************************)
(* What the onboarding of a company promises, whatever the requests that   *)
(* carry it out: evidence about the company is only ever added, and the    *)
(* company is activated once all the evidence its channel asks for is      *)
(* there.  A company may change hands, which changes what is asked for; a   *)
(* removed company takes its evidence with it.                             *)
(***************************************************************************)
CONSTANTS
  Company,
  Evidence   \* what may be known of a company: a paid payment, a document

VARIABLES
  required,  \* of a company: the evidence its activation asks for
  evidence,  \* ... the evidence there is
  active     \* ... whether it has been activated

vars == <<required, evidence, active>>

Init ==
  /\ required \in [Company -> SUBSET Evidence]
  /\ evidence \in [Company -> SUBSET Evidence]
  /\ active = [c \in Company |-> FALSE]

Collect(c, e) ==
  /\ evidence' = [evidence EXCEPT ![c] = @ \cup {e}]
  /\ UNCHANGED <<required, active>>

Activate(c) ==
  /\ required[c] \subseteq evidence[c]
  /\ active' = [active EXCEPT ![c] = TRUE]
  /\ UNCHANGED <<required, evidence>>

\* The company changes hands: from now on its activation asks for other evidence.
ChangeHands(c, R) ==
  /\ required' = [required EXCEPT ![c] = R]
  /\ UNCHANGED <<evidence, active>>

Remove(c) ==
  /\ evidence' = [evidence EXCEPT ![c] = {}]
  /\ active'   = [active EXCEPT ![c] = FALSE]
  /\ UNCHANGED required

Next == \E c \in Company : \/ \E e \in Evidence : Collect(c, e)
                           \/ Activate(c)
                           \/ \E R \in SUBSET Evidence : ChangeHands(c, R)
                           \/ Remove(c)

Spec == Init /\ [][Next]_vars

=============================================================================
