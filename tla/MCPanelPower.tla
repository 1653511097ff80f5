--------------------------- MODULE MCPanelPower ---------------------------
(* The instances of PanelPower that TLC checks: every screen on one box.   *)
EXTENDS PanelPower

CONSTANT box

MCHome == [s \in Screen |-> box]
MCMachine == {box}

(* Where every boot gets to while nothing governs any wall: the boxes have *)
(* said hello and were reconciled, which leaves no memory.                 *)
SteadyInit == StartWith(Machine) /\ verdict = [w \in Mural |-> "none"]

SteadySpec == SteadyInit /\ [][Next]_vars
=============================================================================
