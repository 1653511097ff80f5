--------------------------- MODULE SurfaceProber ---------------------------
(***************************************************************************)
(* The player's prober for one region of a wall: a url is proven reachable *)
(* before the element is pointed at it, proven again on every doubt, and   *)
(* the element re-fetched in place when it may have missed its content.    *)
(* The page (surface-prober.ts, and what Player.vue does for it) runs on   *)
(* one thread: an action is one callback.  Durations are left out: a timer *)
(* fires at any moment after it is armed.                                  *)
(***************************************************************************)
EXTENDS Naturals, FiniteSets

CONSTANTS
    Url,        \* what an operator may give the region
    NoUrl,      \* nothing that is fetched: no content, a playlist, a page
    Verifies,   \* how many spot checks follow a paint (two in the code)
    TimerId,    \* handles of running timers
    MaxEvents   \* bound: doubts, edits and outages of a behaviour

ASSUME ProberAssumption ==
    NoUrl \notin Url /\ Verifies \in Nat /\ MaxEvents \in Nat
    /\ TimerId \subseteq Nat \ {0} /\ TimerId # {}

VARIABLES
    kind,       \* the element of the region: "frame" (opaque) or "media"
    entry,      \* the prober's SurfaceState, NoEntry when it has none
    probes,     \* the probes in flight; equal ones would land alike
    timers,     \* the running timers; entry.timer is the one it can cancel
    recheck,    \* the debounced recheck: "none", "full" or "brief"
    shown,      \* Player.vue's painted[id]
    element,    \* the DOM element, NoElement when none is mounted
    up,         \* the urls the box can reach
    left,       \* events the environment has left
    owed        \* history: a reload was called for and has not happened

vars == <<kind, entry, probes, timers, recheck, shown, element, up, left, owed>>
page == <<entry, probes, timers, shown, element, owed>>

NoEntry   == [url |-> NoUrl]
NoElement == [url |-> NoUrl]
Present   == entry # NoEntry

Fresh(u) ==
    [url |-> u, painted |-> NoUrl, phase |-> "proving", failing |-> FALSE, seq |-> 0,
     health |-> "unknown", timer |-> 0, verifyIdx |-> 0, heal |-> FALSE, rested |-> TRUE]

TypeOK ==
    /\ kind \in {"frame", "media"}
    /\ Present =>
          /\ entry.url \in Url /\ entry.painted \in Url \cup {NoUrl}
          /\ entry.phase \in {"proving", "verifying", "steady"}
          /\ entry.health \in {"unknown", "reachable", "unreachable"}
          /\ entry.timer \in TimerId \cup {0}
          /\ entry.verifyIdx \in 0..Verifies /\ entry.seq \in Nat
          /\ {entry.failing, entry.heal, entry.rested} \subseteq BOOLEAN
    /\ \A p \in probes : p.url \in Url /\ p.runs \in {"prove", "verify"}
    /\ \A t \in timers : t.id \in TimerId /\ t.runs \in {"prove", "verify"}
    /\ recheck \in {"none", "full", "brief"}
    /\ shown \in Url \cup {NoUrl}
    /\ element # NoElement => element.load \in {"loading", "good", "dead"}
    /\ up \subseteq Url /\ left \in 0..MaxEvents /\ owed \in BOOLEAN

-----------------------------------------------------------------------------
(* The page as one value: each step of a handler maps a page to a page.    *)

Page == [entry |-> entry, probes |-> probes, timers |-> timers,
         shown |-> shown, element |-> element, owed |-> owed]

Becomes(w) ==
    /\ entry' = w.entry /\ probes' = w.probes /\ timers' = w.timers
    /\ shown' = w.shown /\ element' = w.element /\ owed' = w.owed

Cancel(w) ==
    [w EXCEPT !.entry.timer = 0, !.timers = {t \in @ : t.id # w.entry.timer}]

Invalidate(w) == [Cancel(w) EXCEPT !.entry.seq = @ + 1, !.entry.heal = FALSE]

Arm(w, runs) ==
    LET n == CHOOSE n \in TimerId : \A t \in w.timers : t.id # n
    IN  [w EXCEPT !.entry.timer = n,
                  !.timers = @ \cup {[id |-> n, runs |-> runs, owned |-> TRUE]}]

(* A probe started while its url is unreachable can only fail, unless the  *)
(* network comes back before it gives up.                                  *)
Probe(w, runs, spare) ==
    [w EXCEPT !.probes = @ \cup {[runs |-> runs, url |-> w.entry.url, seq |-> w.entry.seq,
                                  spare |-> spare, doomed |-> w.entry.url \notin up]}]

Prove(w, spare) == Probe([w EXCEPT !.entry.phase = "proving"], "prove", spare)

Health(w, v) == [w EXCEPT !.entry.health = v]

Load(u) == [url |-> u, load |-> "loading", doomed |-> u \notin up]

(* The same with one spot check too many.                                  *)
ScheduleVerifyOneMore(w) ==
    IF w.entry.verifyIdx > Verifies THEN [w EXCEPT !.entry.phase = "steady"]
                                    ELSE Arm(w, "verify")

ScheduleVerify(w) ==
    IF w.entry.verifyIdx >= Verifies THEN [w EXCEPT !.entry.phase = "steady"]
                                     ELSE Arm(w, "verify")

Paint(w, u) ==
    ScheduleVerify(
        [w EXCEPT !.entry.painted = u, !.entry.phase = "verifying", !.entry.verifyIdx = 0,
                  !.shown = u, !.element = Load(u), !.owed = FALSE])

PerformReload(w) ==
    ScheduleVerify(
        [Cancel(w) EXCEPT !.entry.rested = FALSE, !.entry.phase = "verifying",
                          !.entry.verifyIdx = 0, !.owed = FALSE,
                          !.element = IF @ = NoElement THEN @ ELSE Load(@.url)])

(* A reload too soon after the last one does not happen.                   *)
RequestReloadOrDrop(w) ==
    LET v == [w EXCEPT !.entry.phase = "verifying"]
    IN  IF v.entry.rested THEN PerformReload(v) ELSE [v EXCEPT !.entry.phase = "steady"]

(* A reload too soon after the last one is queued.                         *)
RequestReload(w) ==
    LET v == [w EXCEPT !.entry.phase = "verifying"]
    IN  IF v.entry.rested THEN PerformReload(v) ELSE [v EXCEPT !.entry.heal = TRUE]

ElementLoaded(w) ==
    IF w.entry = NoEntry THEN w
    ELSE [w EXCEPT !.entry.failing = FALSE,
                   !.entry.health = IF w.entry.painted # NoUrl THEN "reachable" ELSE @]

(* The same with the broken element left on the wall.                      *)
ElementErrorKeepsIt(w) ==
    IF w.entry = NoEntry THEN w
    ELSE Arm([Invalidate(w) EXCEPT !.entry.failing = TRUE, !.entry.phase = "proving",
                                   !.entry.health = "unreachable", !.entry.painted = NoUrl,
                                   !.shown = NoUrl],
             "prove")

ElementError(w) ==
    IF w.entry = NoEntry THEN w
    ELSE LET v == [Invalidate(w) EXCEPT !.entry.failing = TRUE, !.entry.phase = "proving",
                                        !.entry.health = "unreachable"]
         IN  Arm(IF v.entry.painted = NoUrl THEN v
                 ELSE [v EXCEPT !.entry.painted = NoUrl, !.shown = NoUrl,
                                !.element = NoElement],
                 "prove")

-----------------------------------------------------------------------------
(* What the slices of the server do to the region.                         *)

Init ==
    /\ kind \in {"frame", "media"}
    /\ entry = NoEntry /\ probes = {} /\ timers = {} /\ recheck = "none"
    /\ shown = NoUrl /\ element = NoElement /\ owed = FALSE
    /\ up \in SUBSET Url /\ left = MaxEvents

Event == left > 0 /\ left' = left - 1

(* The surface appears: the element is bound to what painted[id] holds,    *)
(* which nobody deleted when the surface went.                             *)
Appear(u) ==
    /\ ~Present /\ Event
    /\ Becomes(Prove([Page EXCEPT !.entry = Fresh(u),
                                  !.element = IF shown = NoUrl THEN @ ELSE Load(shown)],
                     FALSE))
    /\ UNCHANGED <<kind, recheck, up>>

(* The operator gives the region another url: what it shows stays up.      *)
Retarget(u) ==
    /\ Present /\ u # entry.url /\ Event
    /\ Becomes(Prove([Invalidate(Page) EXCEPT !.entry.url = u, !.entry.failing = FALSE,
                                              !.entry.health = "unknown"], FALSE))
    /\ UNCHANGED <<kind, recheck, up>>

(* The surface goes, or becomes one the prober has no part in.             *)
Vanish ==
    /\ Present /\ Event
    /\ Becomes([Cancel(Page) EXCEPT !.entry = NoEntry, !.element = NoElement, !.owed = FALSE,
                                    !.timers = {[t EXCEPT !.owned = FALSE] : t \in @}])
    /\ UNCHANGED <<kind, recheck, up>>

-----------------------------------------------------------------------------
(* Doubts. *)

(* A hint that the network moved; a burst collapses into the pending one.  *)
Hint(how) ==
    /\ Present /\ Event
    /\ recheck' = IF recheck = "none" THEN how ELSE recheck
    /\ owed' = (owed \/ how = "full")
    /\ UNCHANGED <<kind, entry, probes, timers, shown, element, up>>

(* Every surface is probed again, also one with a probe in flight.         *)
RecheckAnyway ==
    /\ recheck # "none"
    /\ recheck' = "none"
    /\ IF ~Present THEN UNCHANGED page
       ELSE Becomes(Prove(Cancel(Page), recheck = "brief" /\ entry.phase = "steady"))
    /\ UNCHANGED <<kind, up, left>>

(* One already proving is only hurried; a brief outage spares the glass of *)
(* a steady one when its probe passes.                                     *)
Recheck ==
    /\ recheck # "none"
    /\ recheck' = "none"
    /\ IF ~Present \/ (entry.phase = "proving" /\ entry.timer = 0) THEN UNCHANGED page
       ELSE IF entry.phase = "proving" THEN Becomes(Prove(Cancel(Page), FALSE))
       ELSE Becomes(Prove(Invalidate(Page), recheck = "brief" /\ entry.phase = "steady"))
    /\ UNCHANGED <<kind, up, left>>

(* The cadence of the source comes due.                                    *)
RefreshDue ==
    /\ Present /\ Event
    /\ Becomes([IF entry.phase = "proving" THEN Page ELSE Prove(Invalidate(Page), FALSE)
                   EXCEPT !.owed = TRUE])
    /\ UNCHANGED <<kind, recheck, up>>

-----------------------------------------------------------------------------
(* Results and timers. *)

(* A url that fails once is given up.                                      *)
ProveLandsOnce(w, p, ok) ==
    IF ~ok THEN [Health(w, "unreachable") EXCEPT !.entry.phase = "steady"]
    ELSE IF w.entry.painted # p.url THEN Paint(Health(w, "reachable"), p.url)
    ELSE RequestReload(Health(w, "reachable"))

ProveLands(w, p, ok) ==
    IF ~ok THEN Arm(Health(w, "unreachable"), "prove")
    ELSE LET v == IF w.entry.failing THEN w ELSE Health(w, "reachable")
         IN  IF v.entry.painted # p.url THEN Paint(v, p.url)
             ELSE IF p.spare THEN [v EXCEPT !.entry.phase = "steady"]
             ELSE RequestReload(v)

VerifyLands(w, ok) ==
    IF ok THEN ScheduleVerify([Health(w, "reachable") EXCEPT !.entry.verifyIdx = @ + 1])
          ELSE Prove(Health(w, "unreachable"), FALSE)

CurrentUnchecked(p) == Present

(* A result that a later doubt overtook is thrown away.                    *)
Current(p) == Present /\ entry.seq = p.seq

Land(p, ok) ==
    /\ p \in probes
    /\ IF ok THEN p.url \in up ELSE p.doomed
    /\ LET w == [Page EXCEPT !.probes = @ \ {p}]
       IN  Becomes(IF ~Current(p) THEN w
                   ELSE IF p.runs = "prove" THEN ProveLands(w, p, ok)
                   ELSE VerifyLands(w, ok))
    /\ UNCHANGED <<kind, recheck, up, left>>

Fire(t) ==
    /\ t \in timers
    /\ LET w == [Page EXCEPT !.timers = @ \ {t},
                             !.entry = IF t.owned THEN [@ EXCEPT !.timer = 0] ELSE @]
       IN  Becomes(IF ~Present THEN w ELSE Probe(w, t.runs, FALSE))
    /\ UNCHANGED <<kind, recheck, up, left>>

(* The shortest time between two reloads is over; a queued one happens.    *)
IntervalOver ==
    /\ Present /\ ~entry.rested
    /\ LET w == [Page EXCEPT !.entry.rested = TRUE, !.entry.heal = FALSE]
       IN  Becomes(IF entry.heal THEN PerformReload(w) ELSE w)
    /\ UNCHANGED <<kind, recheck, up, left>>

-----------------------------------------------------------------------------
(* The browser: loads end, and an outage kills those under way.  A frame   *)
(* fires load for the browser's own error page as well.                    *)

ElementEnds(ok) ==
    /\ element # NoElement /\ element.load = "loading"
    /\ IF ok THEN element.url \in up ELSE element.doomed
    /\ LET w == [Page EXCEPT !.element.load = IF ok THEN "good" ELSE "dead"]
       IN  Becomes(IF ok \/ kind = "frame" THEN ElementLoaded(w) ELSE ElementError(w))
    /\ UNCHANGED <<kind, recheck, up, left>>

NetDown(u) ==
    /\ u \in up /\ Event
    /\ up' = up \ {u}
    /\ probes' = {IF p.url = u THEN [p EXCEPT !.doomed = TRUE] ELSE p : p \in probes}
    /\ element' = IF element.url = u /\ element.load = "loading" THEN [element EXCEPT !.doomed = TRUE] ELSE element
    /\ UNCHANGED <<kind, entry, timers, recheck, shown, owed>>

NetUp(u) ==
    /\ u \in Url \ up
    /\ up' = up \cup {u}
    /\ UNCHANGED <<kind, entry, probes, timers, recheck, shown, element, left, owed>>

-----------------------------------------------------------------------------
Slice   == Vanish \/ \E u \in Url : Appear(u) \/ Retarget(u)
Doubt   == Hint("full") \/ Hint("brief") \/ RefreshDue
Lands   == \E p \in probes, ok \in BOOLEAN : Land(p, ok)
Fires   == \E t \in timers : Fire(t)
Browser == \E ok \in BOOLEAN : ElementEnds(ok)
Network == \E u \in Url : NetDown(u) \/ NetUp(u)

Next == Slice \/ Doubt \/ Recheck \/ Lands \/ Fires \/ IntervalOver \/ Browser \/ Network

Spec == Init /\ [][Next]_vars

(* Probes answer or time out, timers fire, loads end; nobody owes a doubt, *)
(* an edit, or a network.                                                  *)
Fairness == /\ WF_vars(Recheck) /\ WF_vars(Lands) /\ WF_vars(Fires)
            /\ WF_vars(IntervalOver) /\ WF_vars(Browser)

-----------------------------------------------------------------------------
(* Properties *)

(* The wall keeps trying, calmly: a surface that is not settled has one    *)
(* thing that will move it on -- a probe whose result still counts, a      *)
(* timer it holds, or a queued reload -- and never two.                    *)
Pending == {p \in probes : Current(p)}
OneThread ==
    Present => Cardinality(Pending) + Cardinality(timers) + (IF entry.heal THEN 1 ELSE 0)
                  = IF entry.phase = "steady" THEN 0 ELSE 1

(* Player.vue: an element shows a url that was proven for this surface,    *)
(* and until one is, the region shows the placeholder.                     *)
GlassAsProved == element # NoElement => Present /\ element.url = entry.painted

(* A surface at rest shows what the operator gave it, never what was there *)
(* before.                                                                 *)
SteadyShowsTarget ==
    Present /\ entry.phase = "steady" => entry.painted = entry.url /\ element.url = entry.url

(* A heal is queued, never dropped: no surface comes to rest with a reload *)
(* that a hint or its cadence called for still owed.                       *)
HealNeverDropped ==
    Present /\ entry.phase = "steady" /\ recheck = "none" => ~owed

(* With no human near, the wall converges: once its url stays reachable,   *)
(* the region comes to show it, the verdict is "reachable" for good, and a *)
(* media element (whose failures can be seen) has loaded.                  *)
Converged(u) ==
    /\ entry.url = u /\ entry.painted = u /\ element.url = u
    /\ entry.health = "reachable"
    /\ kind = "media" => element.load = "good"

WallConverges ==
    \A u \in Url : <>[](entry.url = u /\ u \in up) => <>[]Converged(u)
=============================================================================
