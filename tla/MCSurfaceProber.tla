-------------------------- MODULE MCSurfaceProber --------------------------
(* SurfaceProber for TLC.  A surface that was taken away comes back only to  *)
(* a page that shows nothing of it and has no probe of it in flight.  In one *)
(* story every hint counts in full ("long"), in the other a flapping socket  *)
(* also makes the player doubt briefly ("brief").                           *)
EXTENDS SurfaceProber

VARIABLE story

MCInit == Init /\ story \in {"long", "brief"}
MCNext == /\ Next
          /\ ~Present /\ entry' # NoEntry => shown = NoUrl /\ probes = {}
          /\ story = "long" => recheck' # "brief"
          /\ UNCHANGED story
MCSpec == MCInit /\ [][MCNext]_<<vars, story>> /\ Fairness

(* Every variable is what it should be, and a surface has one thread of      *)
(* doubt: a probe in flight that still counts, or a timer, never two.       *)
OneThreadOfDoubt == TypeOK /\ OneThread

(* The glass shows what the prober proved, and at rest that is the target.   *)
GlassRight == GlassAsProved /\ SteadyShowsTarget

(* A reload that is owed is not forgotten, unless brief doubts are about.    *)
HealNeverDroppedLong == story = "long" => HealNeverDropped
=============================================================================
