---------------------------- MODULE MCEnrollment ----------------------------
(* Enrollment for TLC.  To keep the instances small an operator sees to the  *)
(* tokens or removes machines, never both in one behaviour, and removes them *)
(* in a fleet that does not require mTLS.                                   *)
EXTENDS Enrollment

VARIABLE day

States == [t \in Token |-> token[t].state]

MCInit == Init /\ day \in {"tokens"} \cup (IF required THEN {} ELSE {"removals"})
MCNext ==
    /\ Next
    /\ IF day = "tokens" THEN removals' = 0 ELSE States' = States
    /\ UNCHANGED day
MCSpec == MCInit /\ [][MCNext]_<<vars, day>> /\ Fairness
=============================================================================
