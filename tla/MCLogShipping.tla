--------------------------- MODULE MCLogShipping ---------------------------
(* LogShipping for TLC.  A behaviour is chosen calm or not at the start: a  *)
(* calm one has no crashes and no failing appends.                          *)
EXTENDS LogShipping

VARIABLE calm

MCVars == <<vars, calm>>
MCInit == Init /\ calm \in BOOLEAN
MCNext == /\ \/ CalmNext
             \/ ~calm /\ FaultNext
          /\ UNCHANGED calm
MCSpec == MCInit /\ [][MCNext]_MCVars /\ Fairness

Held == (spool \cup Pending) \ (stored \cup evicted)

Relay == INSTANCE StoreAndForward WITH
            Line    <- 1 .. MaxLines + MaxTroubles + 2,
            held    <- IF calm THEN Held ELSE {},
            stored  <- IF calm THEN stored ELSE {},
            dropped <- IF calm THEN evicted \ stored ELSE {}

(* On a calm day shipping is a store-and-forward relay: a line leaves the   *)
(* spool only stored or pushed out by newer ones, and nothing stored goes.  *)
ImplementsRelay == Relay!Spec

(* On a calm day every line is in the end stored or pushed out, though      *)
(* batches are refused, cut off by drops and held back by the send cap.     *)
Delivered == Relay!AllSettle
=============================================================================
