------------------------------ MODULE FrontEndMC -----------------------------
(* Small instances of FrontEnd.                                              *)
EXTENDS FrontEnd, TLC

CONSTANTS t1, t2

MCSpaceType == "r1" :> "CONFERENCE_ROOM" @@ "r2" :> "DAY_PASS_DESK"
MCPlace     == "r1" :> "north" @@ "r2" :> "south"
MCPrice     == "r1" :> 500 @@ "r2" :> 100

MCKind  == [r \in Resource |-> CASE r = "a" -> "CONFERENCE_ROOM"
                            [] r = "b" -> "DISCUSSION_ROOM"
                            [] OTHER   -> "DAY_PASS_DESK"]
MCFirst == [CONFERENCE_ROOM |-> "a", DISCUSSION_ROOM |-> "b", DAY_PASS_DESK |-> "c"]

=============================================================================
