-------------------------- MODULE StoreAndForward --------------------------
(***************************************************************************)
(* What shipping a box's log promises, with no batches, acks or sockets: a  *)
(* line that was written is held until it is stored; only the bound on the  *)
(* spool may take it first; and what is stored is stored for good.          *)
(***************************************************************************)
EXTENDS Naturals

CONSTANT Line

VARIABLES
    held,           \* written, and not yet settled
    stored,         \* in the control plane's log
    dropped         \* pushed out of a full spool; one on its way may still land

vars == <<held, stored, dropped>>

Init == held = {} /\ stored = {} /\ dropped = {}

(* One line is written; the oldest may have to go for it. *)
Write(l, D) ==
    /\ held' = (held \cup {l}) \ D
    /\ dropped' = dropped \cup D
    /\ UNCHANGED stored

Store(L) ==
    /\ held' = held \ L
    /\ stored' = stored \cup L
    /\ dropped' = dropped \ L

Next ==
    \/ \E l \in Line \ (held \cup stored \cup dropped) :
           \E D \in SUBSET (held \cup {l}) : Write(l, D)
    \/ \E L \in SUBSET (held \cup dropped) : Store(L)

Spec == Init /\ [][Next]_vars

(* Once the box falls silent, every line it wrote is settled: stored, or     *)
(* pushed out by newer ones.                                                *)
AllSettle == <>[](held = {})
=============================================================================
