-------------------------- MODULE MCPlayerChannel --------------------------
(* PlayerChannel for TLC, in five stories: one screen alone in every kind   *)
(* of trouble; one that is off, under requests that cross again and again;  *)
(* two screens, one of them off, and a crash; two screens under requests    *)
(* that cross; two screens in trouble under one request.                    *)
EXTENDS PlayerChannel

VARIABLE alone

Budget == <<left.edits, left.troubles, left.verdicts>>
MCInit == /\ Init
          /\ alone \in BOOLEAN
          /\ IF alone THEN \/ on = {1} /\ Budget \in {<<3, 1, 0>>, <<2, 1, 1>>, <<1, 2, 2>>}
                           \/ on = {} /\ Budget = <<4, 0, 0>>
             ELSE \/ on = {1} /\ Budget = <<2, 1, 0>>
                  \/ on = {1, 2} /\ Budget \in {<<2, 0, 0>>, <<1, 1, 1>>}
MCNext == /\ Next
          /\ alone => \A o \in Op : Targets(ops'[o]) \subseteq {1}
          /\ UNCHANGED alone
MCSpec == MCInit /\ [][MCNext]_<<vars, alone>> /\ Fairness
=============================================================================
