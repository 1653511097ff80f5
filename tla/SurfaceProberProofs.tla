------------------------ MODULE SurfaceProberProofs ------------------------
(***************************************************************************)
(* Proofs about SurfaceProber, for any urls, spot checks and events: a     *)
(* surface has one thread of doubt, the glass shows what was proved, and a *)
(* reload that is owed is not forgotten.                                   *)
(***************************************************************************)
EXTENDS MCSurfaceProber, FiniteSetTheorems, TLAPS

Runs     == {"prove", "verify"}
Phase    == {"proving", "verifying", "steady"}
Verdict  == {"unknown", "reachable", "unreachable"}
EntryT   == [url : Url, painted : Url \cup {NoUrl}, phase : Phase, failing : BOOLEAN, seq : Nat,
             health : Verdict, timer : TimerId \cup {0}, verifyIdx : 0..Verifies,
             heal : BOOLEAN, rested : BOOLEAN]
ProbeT   == [runs : Runs, url : Url, seq : Nat, spare : BOOLEAN, doomed : BOOLEAN]
TimerT   == [id : TimerId, runs : Runs, owned : BOOLEAN]
ElementT == [url : Url, load : {"loading", "good", "dead"}, doomed : BOOLEAN]
PageT    == [entry : EntryT, probes : SUBSET ProbeT, timers : SUBSET TimerT,
             shown : Url \cup {NoUrl}, element : ElementT \cup {NoElement}, owed : BOOLEAN]

(* What a thread of doubt runs while the surface is in a phase.            *)
Fits(runs, e) ==
    \/ runs = "prove" /\ e.phase = "proving"
    \/ runs = "verify" /\ e.phase = "verifying" /\ e.verifyIdx < Verifies

Overtaken(w) == \A p \in w.probes : p.seq # w.entry.seq
Untimed(w)   == w.timers = {} /\ w.entry.timer = 0

(* Nothing will move the surface on.                                       *)
Still(w) == Overtaken(w) /\ Untimed(w) /\ ~w.entry.heal

(* One thing will: a probe that counts, a timer it holds, a queued reload. *)
Probing(w) ==
    /\ Untimed(w) /\ ~w.entry.heal
    /\ \E q \in w.probes :
          /\ q.seq = w.entry.seq /\ q.url = w.entry.url /\ Fits(q.runs, w.entry)
          /\ \A p \in w.probes : p.seq = w.entry.seq => p = q
Timed(w) ==
    /\ Overtaken(w) /\ ~w.entry.heal
    /\ \E t \in w.timers :
          /\ t.id = w.entry.timer /\ t.owned /\ Fits(t.runs, w.entry)
          /\ w.timers = {t}
Healing(w) ==
    /\ Overtaken(w) /\ Untimed(w)
    /\ w.entry.heal /\ w.entry.phase = "verifying"

OneMover(w) == IF w.entry.phase = "steady" THEN Still(w) ELSE Probing(w) \/ Timed(w) \/ Healing(w)

(* The element shows what was proved, and past the proof that is the target. *)
Glass(w) ==
    /\ w.element.url = w.entry.painted
    /\ w.entry.phase # "proving" => w.entry.painted = w.entry.url

Sound(w) ==
    /\ w \in PageT /\ Glass(w)
    /\ \A p \in w.probes : p.seq <= w.entry.seq

PageOK(w) == Sound(w) /\ OneMover(w)

(* With hints in full: no probe spares the glass, and an owed reload is    *)
(* still on its way.                                                       *)
Unspared(w) == \A p \in w.probes : ~p.spare
OnItsWay(w) == w.owed => w.entry.phase = "proving" \/ w.entry.heal

(* A page from its parts, and the entry of a surface in doubt again.       *)
PageOf(e, ps, ts, sh, el, ow) ==
    [entry |-> e, probes |-> ps, timers |-> ts, shown |-> sh, element |-> el, owed |-> ow]
Doubted(e) == [e EXCEPT !.timer = 0, !.seq = @ + 1, !.heal = FALSE]

ProberInv ==
    /\ kind \in {"frame", "media"} /\ recheck \in {"none", "full", "brief"}
    /\ up \subseteq Url /\ left \in 0..MaxEvents /\ story \in {"long", "brief"}
    /\ Present => PageOK(Page)
    /\ ~Present =>
          /\ probes \subseteq ProbeT /\ timers = {} /\ element = NoElement
          /\ shown \in Url \cup {NoUrl} /\ owed \in BOOLEAN
    /\ story = "long" =>
          /\ recheck # "brief" /\ Unspared(Page)
          /\ Present /\ recheck = "none" => OnItsWay(Page)

-----------------------------------------------------------------------------
(* Pages and their parts, spelled out. *)

LEMMA PageParts ==
    ASSUME NEW w \in PageT
    PROVE  /\ w = [entry |-> w.entry, probes |-> w.probes, timers |-> w.timers, shown |-> w.shown,
                   element |-> w.element, owed |-> w.owed]
           /\ w.entry \in EntryT /\ w.probes \in SUBSET ProbeT /\ w.timers \in SUBSET TimerT
           /\ w.shown \in Url \cup {NoUrl} /\ w.element \in ElementT \cup {NoElement}
           /\ w.owed \in BOOLEAN
  BY DEF PageT

LEMMA LoadType ==
    ASSUME NEW u \in Url
    PROVE  Load(u) \in ElementT /\ Load(u).url = u
  <1>1. (u \notin up) \in BOOLEAN
    OBVIOUS
  <1> QED BY <1>1 DEF Load, ElementT

LEMMA WithProbe ==
    ASSUME NEW w \in PageT, NEW q
    PROVE  [w EXCEPT !.probes = @ \cup {q}]
              = [entry |-> w.entry, probes |-> w.probes \cup {q}, timers |-> w.timers,
                 shown |-> w.shown, element |-> w.element, owed |-> w.owed]
  BY PageParts

LEMMA WithTimer ==
    ASSUME NEW w \in PageT, NEW n, NEW t
    PROVE  [w EXCEPT !.entry.timer = n, !.timers = @ \cup {t}]
              = [entry |-> [w.entry EXCEPT !.timer = n], probes |-> w.probes,
                 timers |-> w.timers \cup {t},
                 shown |-> w.shown, element |-> w.element, owed |-> w.owed]
  <1> DEFINE e == [w.entry EXCEPT !.timer = n]
             T == w.timers \cup {t}
             x == [w EXCEPT !.entry.timer = n]
             y == [w EXCEPT !.entry.timer = n, !.timers = @ \cup {t}]
  <1>1. x = [entry |-> e, probes |-> w.probes, timers |-> w.timers, shown |-> w.shown,
             element |-> w.element, owed |-> w.owed]
    BY PageParts
  <1>2. y = [x EXCEPT !.timers = T]
    BY PageParts
  <1> HIDE DEF e, T, x, y
  <1>3. y = [entry |-> e, probes |-> w.probes, timers |-> T, shown |-> w.shown,
             element |-> w.element, owed |-> w.owed]
    BY <1>1, <1>2
  <1> QED BY <1>3 DEF e, T, y

(* A timer of its own is a thread of doubt. *)
LEMMA ArmMoves ==
    ASSUME ProberAssumption, NEW w, Sound(w), Still(w), NEW runs \in Runs, Fits(runs, w.entry)
    PROVE  /\ PageOK(Arm(w, runs))
           /\ Arm(w, runs).probes = w.probes /\ Arm(w, runs).owed = w.owed
           /\ Arm(w, runs).entry.phase = w.entry.phase /\ Arm(w, runs).entry.heal = w.entry.heal
  <1> DEFINE n == CHOOSE n \in TimerId : \A t \in w.timers : t.id # n
             t == [id |-> n, runs |-> runs, owned |-> TRUE]
             e == [w.entry EXCEPT !.timer = n]
             v == [entry |-> e, probes |-> w.probes, timers |-> {t}, shown |-> w.shown,
                   element |-> w.element, owed |-> w.owed]
  <1>1. w \in PageT /\ w.timers = {}
    BY DEF Sound, Still, Untimed
  <1>2. n \in TimerId
    BY <1>1 DEF ProberAssumption
  <1> HIDE DEF n
  <1>3. Arm(w, runs) = v
    <2>1. Arm(w, runs) = [w EXCEPT !.entry.timer = n, !.timers = @ \cup {t}]
      BY DEF Arm, n
    <2>2. w.timers \cup {t} = {t}
      BY <1>1
    <2> QED BY <1>1, <2>1, <2>2, WithTimer
  <1>4. t \in TimerT /\ e \in EntryT /\ v \in PageT
    BY <1>1, <1>2, PageParts DEF TimerT, EntryT, PageT
  <1>5. e.timer = n /\ e.seq = w.entry.seq /\ e.phase = w.entry.phase /\ e.verifyIdx = w.entry.verifyIdx
        /\ e.heal = w.entry.heal /\ e.painted = w.entry.painted /\ e.url = w.entry.url
    BY <1>1, PageParts DEF EntryT
  <1>6. Sound(v)
    BY <1>4, <1>5 DEF Sound, Glass
  <1>7. Timed(v) /\ v.entry.phase # "steady"
    BY <1>5 DEF Timed, Still, Overtaken, Fits
  <1>8. PageOK(v)
    BY <1>6, <1>7 DEF PageOK, OneMover
  <1>9. v.probes = w.probes /\ v.owed = w.owed /\ v.entry = e
    OBVIOUS
  <1> HIDE DEF v, e
  <1> QED BY <1>3, <1>5, <1>8, <1>9

(* So is a probe. *)
LEMMA ProbeMoves ==
    ASSUME ProberAssumption, NEW w, Sound(w), Still(w), NEW runs \in Runs, NEW spare \in BOOLEAN,
           Fits(runs, w.entry)
    PROVE  /\ PageOK(Probe(w, runs, spare))
           /\ Probe(w, runs, spare).owed = w.owed /\ Probe(w, runs, spare).entry = w.entry
           /\ ~spare /\ Unspared(w) => Unspared(Probe(w, runs, spare))
  <1> DEFINE q == [runs |-> runs, url |-> w.entry.url, seq |-> w.entry.seq, spare |-> spare,
                   doomed |-> w.entry.url \notin up]
             v == [entry |-> w.entry, probes |-> w.probes \cup {q}, timers |-> w.timers,
                   shown |-> w.shown, element |-> w.element, owed |-> w.owed]
  <1>1. w \in PageT
    BY DEF Sound
  <1>2. Probe(w, runs, spare) = v
    BY <1>1, WithProbe DEF Probe
  <1>3. (w.entry.url \notin up) \in BOOLEAN
    OBVIOUS
  <1>4. q \in ProbeT /\ w.entry.seq \in Nat
    BY <1>1, <1>3, PageParts DEF ProbeT, EntryT
  <1>5. v \in PageT
    BY <1>1, <1>4, PageParts DEF PageT
  <1>6. q.seq = w.entry.seq /\ q.url = w.entry.url /\ q.runs = runs /\ q.spare = spare
    OBVIOUS
  <1> HIDE DEF q
  <1>7. Sound(v)
    BY <1>4, <1>5, <1>6 DEF Sound, Glass
  <1>8. Probing(v) /\ v.entry.phase # "steady"
    BY <1>6 DEF Probing, Still, Overtaken, Untimed, Fits
  <1> QED BY <1>2, <1>6, <1>7, <1>8 DEF PageOK, OneMover, Unspared

(* A proof under way is a surface that does not rest. *)
LEMMA ProveMoves ==
    ASSUME ProberAssumption, NEW w, Sound(w), Still(w), NEW spare \in BOOLEAN
    PROVE  /\ PageOK(Prove(w, spare))
           /\ Prove(w, spare).owed = w.owed /\ Prove(w, spare).entry.phase = "proving"
           /\ ~spare /\ Unspared(w) => Unspared(Prove(w, spare))
  <1> DEFINE e == [w.entry EXCEPT !.phase = "proving"]
             v == [entry |-> e, probes |-> w.probes, timers |-> w.timers, shown |-> w.shown,
                   element |-> w.element, owed |-> w.owed]
  <1>1. w \in PageT
    BY DEF Sound
  <1>2. [w EXCEPT !.entry.phase = "proving"] = v
    BY <1>1, PageParts
  <1>3. e \in EntryT /\ v \in PageT
    BY <1>1, PageParts DEF EntryT, PageT, Phase
  <1>4. e.timer = w.entry.timer /\ e.seq = w.entry.seq /\ e.phase = "proving"
        /\ e.heal = w.entry.heal /\ e.painted = w.entry.painted /\ e.url = w.entry.url
    BY <1>1, PageParts DEF EntryT
  <1> HIDE DEF e
  <1>5. Sound(v) /\ Still(v) /\ Fits("prove", v.entry)
    BY <1>3, <1>4 DEF Sound, Still, Glass, Overtaken, Untimed, Fits
  <1>6. PageOK(Probe(v, "prove", spare)) /\ Probe(v, "prove", spare).owed = w.owed
        /\ Probe(v, "prove", spare).entry = e /\ (~spare /\ Unspared(w) => Unspared(Probe(v, "prove", spare)))
    BY <1>5, ProbeMoves DEF Runs, Unspared
  <1> QED BY <1>2, <1>4, <1>6 DEF Prove

(* A surface that is known to the prober is not the empty entry. *)
LEMMA Known ==
    ASSUME ProberAssumption, NEW w, PageOK(w)
    PROVE  w.entry # NoEntry /\ w.entry.url \in Url /\ w \in PageT
  <1>1. w \in PageT
    BY DEF PageOK, Sound
  <1>2. w.entry.url \in Url
    BY <1>1, PageParts DEF EntryT
  <1> QED BY <1>1, <1>2 DEF ProberAssumption, NoEntry

(* The timer a surface holds is the only one there is. *)
LEMMA CancelsTimer ==
    ASSUME NEW w \in PageT, Untimed(w) \/ Timed(w)
    PROVE  Cancel(w) = PageOf([w.entry EXCEPT !.timer = 0], w.probes, {}, w.shown, w.element, w.owed)
  <1> DEFINE e == [w.entry EXCEPT !.timer = 0]
             T == {t \in w.timers : t.id # w.entry.timer}
             x == [w EXCEPT !.entry.timer = 0]
             y == Cancel(w)
  <1>1. x = PageOf(e, w.probes, w.timers, w.shown, w.element, w.owed)
    BY PageParts DEF PageOf
  <1>2. y = [x EXCEPT !.timers = T]
    BY PageParts DEF Cancel
  <1>3. T = {}
    BY DEF Untimed, Timed
  <1> HIDE DEF e, T, x, y
  <1>4. y = PageOf(e, w.probes, {}, w.shown, w.element, w.owed)
    BY <1>1, <1>2, <1>3 DEF PageOf
  <1> QED BY <1>4 DEF e, y

LEMMA DoubtedEntry ==
    ASSUME NEW e \in EntryT
    PROVE  /\ Doubted(e) \in EntryT
           /\ Doubted(e).timer = 0 /\ Doubted(e).seq = e.seq + 1 /\ Doubted(e).heal = FALSE
           /\ Doubted(e).url = e.url /\ Doubted(e).painted = e.painted /\ Doubted(e).phase = e.phase
           /\ Doubted(e).verifyIdx = e.verifyIdx /\ Doubted(e).rested = e.rested
  <1> DEFINE n == e.seq + 1
             x == [e EXCEPT !.timer = 0]
             y == [x EXCEPT !.seq = n]
  <1>1. x \in EntryT /\ x.timer = 0 /\ x.url = e.url /\ x.painted = e.painted
        /\ x.phase = e.phase /\ x.verifyIdx = e.verifyIdx /\ x.rested = e.rested
    BY DEF EntryT
  <1>2. n \in Nat
    BY DEF EntryT
  <1>3. Doubted(e) = [y EXCEPT !.heal = FALSE]
    BY DEF Doubted, EntryT
  <1> HIDE DEF x, n
  <1>4. y \in EntryT /\ y.seq = n /\ y.timer = x.timer /\ y.url = x.url /\ y.painted = x.painted
        /\ y.phase = x.phase /\ y.verifyIdx = x.verifyIdx /\ y.rested = x.rested
    BY <1>1, <1>2 DEF EntryT
  <1> HIDE DEF y
  <1> DEFINE z == [y EXCEPT !.heal = FALSE]
  <1>5. z \in EntryT /\ z.heal = FALSE
    BY <1>4 DEF EntryT
  <1>6. z.seq = n /\ z.timer = y.timer /\ z.url = y.url /\ z.painted = y.painted
        /\ z.phase = y.phase /\ z.verifyIdx = y.verifyIdx /\ z.rested = y.rested
    BY <1>4 DEF EntryT
  <1> HIDE DEF z
  <1>7. Doubted(e) = z
    BY <1>3 DEF z
  <1> QED BY <1>1, <1>4, <1>5, <1>6, <1>7 DEF n

(* A doubt overtakes every probe in flight and stops the timer: nothing    *)
(* that was under way counts any more.                                     *)
LEMMA InvalidateStills ==
    ASSUME ProberAssumption, NEW w, PageOK(w)
    PROVE  /\ Invalidate(w) = PageOf(Doubted(w.entry), w.probes, {}, w.shown, w.element, w.owed)
           /\ Sound(Invalidate(w)) /\ Still(Invalidate(w))
  <1> DEFINE d == Doubted(w.entry)
             v == PageOf(d, w.probes, {}, w.shown, w.element, w.owed)
             c == Cancel(w)
             e == [w.entry EXCEPT !.timer = 0]
  <1>1. w \in PageT
    BY Known
  <1>2. Untimed(w) \/ Timed(w)
    BY DEF PageOK, OneMover, Still, Probing, Healing
  <1>3. c = PageOf(e, w.probes, {}, w.shown, w.element, w.owed)
    BY <1>1, <1>2, CancelsTimer
  <1>4. d = [e EXCEPT !.seq = @ + 1, !.heal = FALSE]
    BY <1>1, PageParts DEF Doubted, EntryT
  <1>5. Invalidate(w) = [c EXCEPT !.entry.seq = @ + 1, !.entry.heal = FALSE]
    BY DEF Invalidate
  <1> HIDE DEF c, d, e
  <1>6. Invalidate(w) = v
    BY <1>3, <1>4, <1>5 DEF PageOf
  <1>7. /\ d \in EntryT /\ d.timer = 0 /\ d.seq = w.entry.seq + 1 /\ d.heal = FALSE
        /\ d.url = w.entry.url /\ d.painted = w.entry.painted /\ d.phase = w.entry.phase
    BY <1>1, PageParts, DoubtedEntry DEF d
  <1>8. w.entry.seq \in Nat /\ \A p \in w.probes : p.seq \in Nat
    BY <1>1, PageParts DEF EntryT, ProbeT
  <1>9. Sound(v)
    BY <1>1, <1>7, <1>8, PageParts DEF PageOK, Sound, Glass, PageOf, PageT
  <1>10. Still(v)
    BY <1>7, <1>8 DEF PageOK, Sound, Still, Overtaken, Untimed, PageOf
  <1> HIDE DEF v
  <1>11. Sound(Invalidate(w)) /\ Still(Invalidate(w))
    BY <1>6, <1>9, <1>10
  <1> QED BY <1>6, <1>11 DEF v, d

LEMMA InvalidateKeeps ==
    ASSUME ProberAssumption, NEW w, PageOK(w)
    PROVE  LET v == Invalidate(w)
           IN  /\ v.entry = Doubted(w.entry) /\ v.probes = w.probes /\ v.owed = w.owed
               /\ v.entry.phase = w.entry.phase /\ v.entry.painted = w.entry.painted
  <1> DEFINE v == Invalidate(w)
  <1>1. w.entry \in EntryT
    BY Known, PageParts
  <1>2. v = PageOf(Doubted(w.entry), w.probes, {}, w.shown, w.element, w.owed)
    BY InvalidateStills
  <1> HIDE DEF v
  <1>3. v.entry = Doubted(w.entry) /\ v.probes = w.probes /\ v.owed = w.owed
    BY <1>2 DEF PageOf
  <1>4. v.entry.phase = w.entry.phase /\ v.entry.painted = w.entry.painted
    BY <1>1, <1>3, DoubtedEntry
  <1> QED BY <1>3, <1>4 DEF v

(* A verdict changes nothing else. *)
LEMMA HealthKeeps ==
    ASSUME NEW w \in PageT, NEW h \in Verdict
    PROVE  LET v == Health(w, h)
           IN  /\ v \in PageT
               /\ v.probes = w.probes /\ v.timers = w.timers /\ v.owed = w.owed
               /\ v.shown = w.shown /\ v.element = w.element
               /\ v.entry = [w.entry EXCEPT !.health = h]
               /\ v.entry.url = w.entry.url /\ v.entry.painted = w.entry.painted
               /\ v.entry.phase = w.entry.phase /\ v.entry.seq = w.entry.seq
               /\ v.entry.timer = w.entry.timer /\ v.entry.verifyIdx = w.entry.verifyIdx
               /\ v.entry.heal = w.entry.heal /\ v.entry.rested = w.entry.rested
  <1> DEFINE e == [w.entry EXCEPT !.health = h]
             v == Health(w, h)
  <1>1. v = PageOf(e, w.probes, w.timers, w.shown, w.element, w.owed)
    BY PageParts DEF Health, PageOf
  <1>2. /\ e \in EntryT /\ e.url = w.entry.url /\ e.painted = w.entry.painted
        /\ e.phase = w.entry.phase /\ e.seq = w.entry.seq
        /\ e.timer = w.entry.timer /\ e.verifyIdx = w.entry.verifyIdx
        /\ e.heal = w.entry.heal /\ e.rested = w.entry.rested
    BY PageParts DEF EntryT
  <1> HIDE DEF v
  <1>3. /\ v.entry = e /\ v.probes = w.probes /\ v.timers = w.timers /\ v.owed = w.owed
        /\ v.shown = w.shown /\ v.element = w.element
    BY <1>1 DEF PageOf
  <1>4. v \in PageT
    BY <1>1, <1>2, PageParts DEF PageOf, PageT
  <1> HIDE DEF e
  <1>5. /\ v.entry.url = w.entry.url /\ v.entry.painted = w.entry.painted
        /\ v.entry.phase = w.entry.phase /\ v.entry.seq = w.entry.seq
        /\ v.entry.timer = w.entry.timer /\ v.entry.verifyIdx = w.entry.verifyIdx
        /\ v.entry.heal = w.entry.heal /\ v.entry.rested = w.entry.rested
    BY <1>2, <1>3
  <1> QED BY <1>3, <1>4, <1>5 DEF v, e

LEMMA HealthStills ==
    ASSUME NEW w, Sound(w), Still(w), NEW h \in Verdict
    PROVE  Sound(Health(w, h)) /\ Still(Health(w, h))
  <1>1. w \in PageT
    BY DEF Sound
  <1>2. Health(w, h) \in PageT /\ (\A p \in w.probes : p.seq <= w.entry.seq)
    BY <1>1, HealthKeeps DEF Sound
  <1>3. Glass(Health(w, h))
    BY <1>1, HealthKeeps DEF Sound, Glass
  <1>4. Still(Health(w, h))
    <2>1. Health(w, h).entry.heal = w.entry.heal
      BY <1>1, HealthKeeps
    <2>2. Overtaken(Health(w, h)) /\ Untimed(Health(w, h))
      BY <1>1, HealthKeeps DEF Still, Overtaken, Untimed
    <2> QED BY <2>1, <2>2 DEF Still
  <1>5. \A p \in Health(w, h).probes : p.seq <= Health(w, h).entry.seq
    BY <1>1, <1>2, HealthKeeps
  <1> QED BY <1>2, <1>3, <1>4, <1>5 DEF Sound

(* A page on which nothing will move the surface on, from its parts. *)
LEMMA StillPage ==
    ASSUME NEW v, v = PageOf(v.entry, v.probes, v.timers, v.shown, v.element, v.owed),
           v.entry \in EntryT, v.probes \in SUBSET ProbeT, v.timers = {},
           v.shown \in Url \cup {NoUrl}, v.element \in ElementT \cup {NoElement},
           v.owed \in BOOLEAN, v.entry.timer = 0, v.entry.heal = FALSE,
           v.element.url = v.entry.painted,
           v.entry.phase # "proving" => v.entry.painted = v.entry.url,
           \A p \in v.probes : p.seq <= v.entry.seq /\ p.seq # v.entry.seq
    PROVE  Sound(v) /\ Still(v)
  <1>1. v \in PageT
    BY DEF PageOf, PageT
  <1>2. Sound(v)
    BY <1>1 DEF Sound, Glass
  <1>3. Still(v)
    BY DEF Still, Overtaken, Untimed
  <1> QED BY <1>2, <1>3

LEMMA PageFields ==
    ASSUME NEW e, NEW ps, NEW ts, NEW sh, NEW el, NEW ow, NEW v, v = PageOf(e, ps, ts, sh, el, ow)
    PROVE  /\ v.entry = e /\ v.probes = ps /\ v.timers = ts /\ v.shown = sh /\ v.element = el
           /\ v.owed = ow
           /\ v = PageOf(v.entry, v.probes, v.timers, v.shown, v.element, v.owed)
  BY DEF PageOf

(* The parts of a page on which nothing will move the surface on. *)
LEMMA StillParts ==
    ASSUME NEW w, Sound(w), Still(w)
    PROVE  /\ w \in PageT /\ w.entry \in EntryT /\ w.probes \in SUBSET ProbeT /\ w.timers = {}
           /\ w.shown \in Url \cup {NoUrl} /\ w.element \in ElementT \cup {NoElement}
           /\ w.owed \in BOOLEAN /\ w.entry.timer = 0 /\ w.entry.heal = FALSE
           /\ w.element.url = w.entry.painted
           /\ \A p \in w.probes : p.seq <= w.entry.seq /\ p.seq # w.entry.seq
  <1>1. w \in PageT
    BY DEF Sound
  <1>2. w.entry.heal = FALSE
    BY <1>1, PageParts DEF Still, EntryT
  <1>3. w.timers = {} /\ w.entry.timer = 0
    BY DEF Still, Untimed
  <1>4. w.element.url = w.entry.painted
    BY DEF Sound, Glass
  <1>5. \A p \in w.probes : p.seq <= w.entry.seq /\ p.seq # w.entry.seq
    BY DEF Sound, Still, Overtaken
  <1> QED BY <1>1, <1>2, <1>3, <1>4, <1>5, PageParts

(* A phase changes nothing else of an entry. *)
LEMMA PhaseKeeps ==
    ASSUME NEW w \in PageT, NEW ph \in Phase
    PROVE  /\ [w EXCEPT !.entry.phase = ph]
                 = PageOf([w.entry EXCEPT !.phase = ph], w.probes, w.timers, w.shown, w.element,
                          w.owed)
           /\ LET e == [w.entry EXCEPT !.phase = ph]
              IN  /\ e \in EntryT /\ e.phase = ph
                  /\ e.url = w.entry.url /\ e.painted = w.entry.painted /\ e.seq = w.entry.seq
                  /\ e.timer = w.entry.timer /\ e.verifyIdx = w.entry.verifyIdx
                  /\ e.heal = w.entry.heal /\ e.rested = w.entry.rested
  <1>1. [w EXCEPT !.entry.phase = ph]
           = PageOf([w.entry EXCEPT !.phase = ph], w.probes, w.timers, w.shown, w.element, w.owed)
    BY PageParts DEF PageOf
  <1> DEFINE e == [w.entry EXCEPT !.phase = ph]
  <1>2. e \in EntryT /\ e.phase = ph /\ e.url = w.entry.url /\ e.painted = w.entry.painted
        /\ e.seq = w.entry.seq
    BY PageParts DEF EntryT
  <1>3. e.timer = w.entry.timer /\ e.verifyIdx = w.entry.verifyIdx
        /\ e.heal = w.entry.heal /\ e.rested = w.entry.rested
    BY PageParts DEF EntryT
  <1> QED BY <1>1, <1>2, <1>3

(* A surface at rest. *)
LEMMA Rests ==
    ASSUME NEW w, Sound(w), Still(w), w.entry.painted = w.entry.url
    PROVE  LET v == [w EXCEPT !.entry.phase = "steady"]
           IN  /\ PageOK(v) /\ v.probes = w.probes /\ v.owed = w.owed
  <1> DEFINE e == [w.entry EXCEPT !.phase = "steady"]
             v == [w EXCEPT !.entry.phase = "steady"]
  <1>0. w \in PageT /\ "steady" \in Phase
    BY StillParts DEF Phase
  <1>1. v = PageOf(e, w.probes, w.timers, w.shown, w.element, w.owed)
    BY <1>0, PhaseKeeps
  <1>2. /\ e \in EntryT /\ e.phase = "steady" /\ e.url = w.entry.url /\ e.painted = w.entry.painted
        /\ e.timer = w.entry.timer /\ e.heal = w.entry.heal /\ e.seq = w.entry.seq
    BY <1>0, PhaseKeeps
  <1> HIDE DEF e, v
  <1>3. /\ v.entry = e /\ v.probes = w.probes /\ v.timers = w.timers /\ v.shown = w.shown
        /\ v.element = w.element /\ v.owed = w.owed
        /\ v = PageOf(v.entry, v.probes, v.timers, v.shown, v.element, v.owed)
    BY <1>1, PageFields
  <1>4. v.entry.heal = FALSE
    BY <1>2, <1>3, StillParts
  <1>5. Sound(v) /\ Still(v)
    BY <1>2, <1>3, <1>4, StillParts, StillPage
  <1> QED BY <1>2, <1>3, <1>5 DEF PageOK, OneMover, v

(* After a spot check another follows, or the surface rests. *)
LEMMA ScheduleVerifyMoves ==
    ASSUME ProberAssumption, NEW w, Sound(w), Still(w), w.entry.phase = "verifying"
    PROVE  LET v == ScheduleVerify(w)
           IN  PageOK(v) /\ v.probes = w.probes /\ v.owed = w.owed
  <1>1. w.entry.painted = w.entry.url
    BY DEF Sound, Glass
  <1>2. CASE w.entry.verifyIdx >= Verifies
    <2>1. ScheduleVerify(w) = [w EXCEPT !.entry.phase = "steady"]
      BY <1>2 DEF ScheduleVerify
    <2> QED BY <1>1, <2>1, Rests
  <1>3. CASE ~(w.entry.verifyIdx >= Verifies)
    <2>1. ScheduleVerify(w) = Arm(w, "verify")
      BY <1>3 DEF ScheduleVerify
    <2>2. w.entry.verifyIdx \in 0..Verifies
      BY StillParts DEF EntryT
    <2>3. Fits("verify", w.entry)
      BY <1>3, <2>2 DEF Fits, ProberAssumption
    <2> QED BY <2>1, <2>3, ArmMoves DEF Runs
  <1> QED BY <1>2, <1>3

(* What was proved goes on the glass, and nothing is owed. *)
LEMMA PaintMoves ==
    ASSUME ProberAssumption, NEW w, Sound(w), Still(w), NEW u, u = w.entry.url
    PROVE  LET v == Paint(w, u)
           IN  PageOK(v) /\ v.probes = w.probes /\ v.owed = FALSE
  <1> DEFINE a == [w.entry EXCEPT !.painted = u]
             b == [a EXCEPT !.phase = "verifying"]
             e == [b EXCEPT !.verifyIdx = 0]
             x == [w EXCEPT !.entry.painted = u, !.entry.phase = "verifying", !.entry.verifyIdx = 0]
             y == [w EXCEPT !.entry.painted = u, !.entry.phase = "verifying", !.entry.verifyIdx = 0,
                            !.shown = u, !.element = Load(u), !.owed = FALSE]
  <1>1. u \in Url
    BY StillParts DEF EntryT
  <1>2. /\ a \in EntryT /\ a.painted = u /\ a.url = u /\ a.timer = 0 /\ a.heal = FALSE
        /\ a.seq = w.entry.seq
    BY <1>1, StillParts DEF EntryT
  <1>3. x = PageOf(e, w.probes, {}, w.shown, w.element, w.owed)
    <2> DEFINE x1 == [w EXCEPT !.entry.painted = u]
               x2 == [x1 EXCEPT !.entry.phase = "verifying"]
               x3 == [x2 EXCEPT !.entry.verifyIdx = 0]
    <2>1. w = PageOf(w.entry, w.probes, {}, w.shown, w.element, w.owed)
      BY StillParts, PageParts DEF PageOf
    <2>2. x = x3
      BY <2>1 DEF PageOf
    <2>3. x1 = PageOf(a, w.probes, {}, w.shown, w.element, w.owed)
      BY <2>1 DEF PageOf
    <2> HIDE DEF x, x1, a
    <2>4. x2 = PageOf(b, w.probes, {}, w.shown, w.element, w.owed)
      BY <2>3 DEF PageOf
    <2> HIDE DEF x2, b
    <2>5. x3 = PageOf(e, w.probes, {}, w.shown, w.element, w.owed)
      BY <2>4 DEF PageOf
    <2> QED BY <2>2, <2>5
  <1>4. y = [x EXCEPT !.shown = u, !.element = Load(u), !.owed = FALSE]
    BY StillParts, PageParts
  <1> HIDE DEF a
  <1>5. /\ b \in EntryT /\ b.painted = u /\ b.url = u /\ b.timer = 0 /\ b.heal = FALSE
        /\ b.seq = w.entry.seq /\ b.phase = "verifying"
    BY <1>2 DEF EntryT, Phase
  <1> HIDE DEF b
  <1>6. /\ e \in EntryT /\ e.painted = u /\ e.url = u /\ e.timer = 0 /\ e.heal = FALSE
        /\ e.seq = w.entry.seq /\ e.phase = "verifying"
    BY <1>5 DEF EntryT, ProberAssumption
  <1> HIDE DEF e, x, y
  <1>7. y = PageOf(e, w.probes, {}, u, Load(u), FALSE)
    BY <1>3, <1>4 DEF PageOf
  <1>8. Load(u) \in ElementT /\ Load(u).url = u
    BY <1>1, LoadType
  <1>9. /\ y.entry = e /\ y.probes = w.probes /\ y.timers = {} /\ y.shown = u
        /\ y.element = Load(u) /\ y.owed = FALSE
        /\ y = PageOf(y.entry, y.probes, y.timers, y.shown, y.element, y.owed)
    <2>1. y.owed = FALSE
      BY <1>7 DEF PageOf
    <2>2. y.entry = e /\ y.probes = w.probes /\ y.timers = {} /\ y.shown = u /\ y.element = Load(u)
      BY <1>7 DEF PageOf
    <2>3. y = PageOf(y.entry, y.probes, y.timers, y.shown, y.element, y.owed)
      BY <1>7 DEF PageOf
    <2> QED BY <2>1, <2>2, <2>3
  <1>10. Sound(y) /\ Still(y)
    BY <1>1, <1>6, <1>8, <1>9, StillParts, StillPage
  <1>11. Paint(w, u) = ScheduleVerify(y)
    BY DEF Paint, y
  <1> QED BY <1>6, <1>9, <1>10, <1>11, ScheduleVerifyMoves

(* The element is fetched again in place, and nothing is owed. *)
LEMMA PerformReloadMoves ==
    ASSUME ProberAssumption, NEW w, Sound(w), Still(w), w.entry.painted = w.entry.url
    PROVE  LET v == PerformReload(w)
           IN  PageOK(v) /\ v.probes = w.probes /\ v.owed = FALSE
  <1> DEFINE no == FALSE
             a == [w.entry EXCEPT !.timer = 0]
             b == [a EXCEPT !.rested = no]
             d == [b EXCEPT !.phase = "verifying"]
             e == [d EXCEPT !.verifyIdx = 0]
             el == Load(w.entry.url)
             x == Cancel(w)
             x1 == [x EXCEPT !.entry.rested = no]
             x2 == [x1 EXCEPT !.entry.phase = "verifying"]
             x3 == [x2 EXCEPT !.entry.verifyIdx = 0]
             y == [x EXCEPT !.entry.rested = FALSE, !.entry.phase = "verifying",
                            !.entry.verifyIdx = 0, !.owed = FALSE,
                            !.element = IF @ = NoElement THEN @ ELSE Load(@.url)]
  <1>1. w.entry.url \in Url /\ w.element # NoElement /\ w.element.url = w.entry.url
    <2>1. w.entry.url \in Url /\ w.element.url = w.entry.url
      BY StillParts DEF EntryT
    <2> QED BY <2>1 DEF ProberAssumption, NoElement
  <1>2. x = PageOf(a, w.probes, {}, w.shown, w.element, w.owed)
    BY StillParts, CancelsTimer DEF Still
  <1>3. /\ a \in EntryT /\ a.painted = w.entry.url /\ a.url = w.entry.url /\ a.timer = 0
        /\ a.heal = FALSE /\ a.seq = w.entry.seq
    BY StillParts DEF EntryT
  <1> HIDE DEF a, x
  <1>4. y = [x3 EXCEPT !.owed = FALSE, !.element = IF x.element = NoElement THEN x.element
                                                   ELSE Load(x.element.url)]
    BY <1>2 DEF PageOf
  <1>5. no \in BOOLEAN /\ x.element = w.element
    BY <1>2 DEF PageOf
  <1>6. (IF x.element = NoElement THEN x.element ELSE Load(x.element.url)) = el
    BY <1>1, <1>5
  <1> HIDE DEF no
  <1>7. x1 = PageOf(b, w.probes, {}, w.shown, w.element, w.owed)
    BY <1>2 DEF PageOf
  <1>8. /\ b \in EntryT /\ b.painted = w.entry.url /\ b.url = w.entry.url /\ b.timer = 0
        /\ b.heal = FALSE /\ b.seq = w.entry.seq
    <2>1. b \in EntryT
      BY <1>3, <1>5 DEF EntryT
    <2>2. b.heal = a.heal
      BY <1>3 DEF EntryT
    <2>3. b.painted = a.painted /\ b.url = a.url /\ b.timer = a.timer /\ b.seq = a.seq
      BY <1>3 DEF EntryT
    <2> QED BY <1>3, <2>1, <2>2, <2>3
  <1> HIDE DEF x1, b
  <1>9. x2 = PageOf(d, w.probes, {}, w.shown, w.element, w.owed)
    BY <1>7 DEF PageOf
  <1>10. /\ d \in EntryT /\ d.painted = w.entry.url /\ d.url = w.entry.url /\ d.timer = 0
         /\ d.heal = FALSE /\ d.seq = w.entry.seq /\ d.phase = "verifying"
    BY <1>8 DEF EntryT, Phase
  <1> HIDE DEF x2, d
  <1>11. x3 = PageOf(e, w.probes, {}, w.shown, w.element, w.owed)
    BY <1>9 DEF PageOf
  <1>12. /\ e \in EntryT /\ e.painted = w.entry.url /\ e.url = w.entry.url /\ e.timer = 0
         /\ e.heal = FALSE /\ e.seq = w.entry.seq /\ e.phase = "verifying"
    BY <1>10 DEF EntryT, ProberAssumption
  <1> HIDE DEF x3, e, y, el
  <1>13. y = PageOf(e, w.probes, {}, w.shown, el, FALSE)
    <2>1. y = [x3 EXCEPT !.owed = FALSE, !.element = el]
      BY <1>4, <1>6
    <2> QED BY <1>11, <2>1 DEF PageOf
  <1>14. el \in ElementT /\ el.url = w.entry.url
    BY <1>1, LoadType DEF el
  <1>15. y.owed = FALSE
    BY <1>13 DEF PageOf
  <1>16. y.entry = e /\ y.probes = w.probes /\ y.timers = {} /\ y.shown = w.shown /\ y.element = el
    BY <1>13 DEF PageOf
  <1>17. y = PageOf(y.entry, y.probes, y.timers, y.shown, y.element, y.owed)
    BY <1>13 DEF PageOf
  <1>18. Sound(y) /\ Still(y)
    BY <1>12, <1>14, <1>15, <1>16, <1>17, StillParts, StillPage
  <1>19. PerformReload(w) = ScheduleVerify(y)
    BY DEF PerformReload, y, x
  <1> QED BY <1>12, <1>15, <1>16, <1>18, <1>19, ScheduleVerifyMoves

(* A reload asked for happens, or is queued: it is never lost. *)
LEMMA RequestReloadMoves ==
    ASSUME ProberAssumption, NEW w, Sound(w), Still(w), w.entry.painted = w.entry.url
    PROVE  LET v == RequestReload(w)
           IN  PageOK(v) /\ v.probes = w.probes /\ OnItsWay(v)
  <1> DEFINE yes == TRUE
             e == [w.entry EXCEPT !.phase = "verifying"]
             v == [w EXCEPT !.entry.phase = "verifying"]
             g == [e EXCEPT !.heal = yes]
             h == [v EXCEPT !.entry.heal = yes]
  <1>0. w \in PageT /\ "verifying" \in Phase
    BY StillParts DEF Phase
  <1>1. v = PageOf(e, w.probes, w.timers, w.shown, w.element, w.owed)
    BY <1>0, PhaseKeeps
  <1>2. /\ e \in EntryT /\ e.phase = "verifying" /\ e.url = w.entry.url
        /\ e.painted = w.entry.painted
        /\ e.timer = w.entry.timer /\ e.heal = w.entry.heal /\ e.seq = w.entry.seq
    BY <1>0, PhaseKeeps
  <1>3. RequestReload(w) = IF v.entry.rested THEN PerformReload(v) ELSE h
    BY DEF RequestReload
  <1> HIDE DEF e, v
  <1>4. /\ v.entry = e /\ v.probes = w.probes /\ v.timers = w.timers /\ v.shown = w.shown
        /\ v.element = w.element /\ v.owed = w.owed
        /\ v = PageOf(v.entry, v.probes, v.timers, v.shown, v.element, v.owed)
    BY <1>1, PageFields
  <1>5. v.entry.heal = FALSE
    BY <1>2, <1>4, StillParts
  <1>6. Sound(v) /\ Still(v)
    BY <1>2, <1>4, <1>5, StillParts, StillPage
  <1>7. CASE v.entry.rested
    <2>1. RequestReload(w) = PerformReload(v)
      BY <1>3, <1>7
    <2>2. v.entry.painted = v.entry.url
      BY <1>2, <1>4
    <2> QED BY <1>4, <1>6, <2>1, <2>2, PerformReloadMoves DEF OnItsWay
  <1>8. CASE ~v.entry.rested
    <2>1. RequestReload(w) = h
      BY <1>3, <1>8
    <2>2. yes \in BOOLEAN /\ yes
      OBVIOUS
    <2> HIDE DEF yes
    <2>9. h = PageOf(g, w.probes, w.timers, w.shown, w.element, w.owed)
      BY <1>1 DEF PageOf
    <2>3. g \in EntryT /\ g.heal = yes
      BY <1>2, <2>2 DEF EntryT
    <2>4. /\ g.phase = "verifying" /\ g.url = w.entry.url /\ g.painted = w.entry.painted
          /\ g.timer = w.entry.timer /\ g.seq = w.entry.seq
      BY <1>2 DEF EntryT
    <2> HIDE DEF g, h
    <2>5. /\ h.entry = g /\ h.probes = w.probes /\ h.timers = w.timers /\ h.shown = w.shown
          /\ h.element = w.element /\ h.owed = w.owed
          /\ h = PageOf(h.entry, h.probes, h.timers, h.shown, h.element, h.owed)
      BY <2>9, PageFields
    <2>6. h \in PageT
      BY <1>0, <2>3, <2>5, PageParts DEF PageOf, PageT
    <2>7. Sound(h)
      BY <2>4, <2>5, <2>6, StillParts DEF Sound, Glass
    <2>8. Healing(h)
      BY <2>2, <2>3, <2>4, <2>5, StillParts, ZenonT(40) DEF Healing, Overtaken, Untimed
    <2> QED BY <2>1, <2>2, <2>3, <2>4, <2>5, <2>7, <2>8 DEF PageOK, OneMover, OnItsWay
  <1> QED BY <1>7, <1>8

(* What moves a surface on does not depend on verdicts, loads and debts. *)
LEMMA AlikeOK ==
    ASSUME NEW w, PageOK(w), NEW v \in PageT,
           v.probes = w.probes, v.timers = w.timers, v.element.url = w.element.url,
           v.entry.url = w.entry.url, v.entry.painted = w.entry.painted,
           v.entry.phase = w.entry.phase, v.entry.seq = w.entry.seq,
           v.entry.timer = w.entry.timer, v.entry.verifyIdx = w.entry.verifyIdx,
           v.entry.heal = w.entry.heal
    PROVE  PageOK(v)
  <1>1. Sound(v)
    BY DEF PageOK, Sound, Glass
  <1>2. Overtaken(v) = Overtaken(w) /\ Untimed(v) = Untimed(w)
    BY DEF Overtaken, Untimed
  <1>3. Still(v) = Still(w)
    BY <1>2 DEF Still
  <1>4. Probing(v) = Probing(w) /\ Timed(v) = Timed(w) /\ Healing(v) = Healing(w)
    <2>1. Probing(w) => Probing(v)
      BY <1>2 DEF Probing, Fits
    <2>2. Probing(v) => Probing(w)
      BY <1>2 DEF Probing, Fits
    <2>3. Timed(w) => Timed(v)
      BY <1>2 DEF Timed, Fits
    <2>4. Timed(v) => Timed(w)
      BY <1>2 DEF Timed, Fits
    <2>5. Healing(w) <=> Healing(v)
      BY <1>2 DEF Healing
    <2>6. Probing(v) \in BOOLEAN /\ Probing(w) \in BOOLEAN /\ Timed(v) \in BOOLEAN
          /\ Timed(w) \in BOOLEAN /\ Healing(v) \in BOOLEAN /\ Healing(w) \in BOOLEAN
      BY DEF Probing, Timed, Healing
    <2> QED BY <2>1, <2>2, <2>3, <2>4, <2>5, <2>6
  <1> QED BY <1>1, <1>3, <1>4 DEF PageOK, OneMover

(* A load that ended tells of nothing but the verdict. *)
LEMMA ElementLoadedMoves ==
    ASSUME ProberAssumption, NEW w, PageOK(w)
    PROVE  LET v == ElementLoaded(w)
           IN  /\ PageOK(v) /\ v.probes = w.probes /\ v.owed = w.owed
               /\ v.entry.phase = w.entry.phase /\ v.entry.heal = w.entry.heal
  <1> DEFINE no == FALSE
             h == IF w.entry.painted # NoUrl THEN "reachable" ELSE w.entry.health
             a == [w.entry EXCEPT !.failing = no]
             e == [a EXCEPT !.health = h]
             x == [w EXCEPT !.entry.failing = no]
             v == [x EXCEPT !.entry.health = h]
  <1>1. w \in PageT /\ w.entry # NoEntry
    BY Known
  <1>2. w = PageOf(w.entry, w.probes, w.timers, w.shown, w.element, w.owed)
    BY <1>1, PageParts DEF PageOf
  <1>3. ElementLoaded(w) = v
    <2>1. ElementLoaded(w) = [w EXCEPT !.entry.failing = FALSE,
                                       !.entry.health = IF w.entry.painted # NoUrl
                                                        THEN "reachable" ELSE @]
      BY <1>1 DEF ElementLoaded
    <2> QED BY <1>2, <2>1 DEF PageOf
  <1>4. no \in BOOLEAN
    OBVIOUS
  <1>5. h \in Verdict
    BY <1>1, PageParts DEF EntryT, Verdict
  <1> HIDE DEF no, h
  <1>6. x = PageOf(a, w.probes, w.timers, w.shown, w.element, w.owed)
    BY <1>2 DEF PageOf
  <1>7. /\ a \in EntryT /\ a.url = w.entry.url /\ a.painted = w.entry.painted
        /\ a.phase = w.entry.phase /\ a.seq = w.entry.seq /\ a.timer = w.entry.timer
        /\ a.verifyIdx = w.entry.verifyIdx
    BY <1>1, <1>4, PageParts DEF EntryT
  <1>8. a.heal = w.entry.heal
    BY <1>1, PageParts DEF EntryT
  <1> HIDE DEF a, x
  <1>9. v = PageOf(e, w.probes, w.timers, w.shown, w.element, w.owed)
    BY <1>6 DEF PageOf
  <1>10. /\ e \in EntryT /\ e.url = a.url /\ e.painted = a.painted
         /\ e.phase = a.phase /\ e.seq = a.seq /\ e.timer = a.timer /\ e.verifyIdx = a.verifyIdx
    BY <1>5, <1>7 DEF EntryT
  <1>11. e.heal = a.heal
    BY <1>7 DEF EntryT
  <1> HIDE DEF e, v
  <1>12. /\ v.entry = e /\ v.probes = w.probes /\ v.timers = w.timers /\ v.shown = w.shown
         /\ v.element = w.element /\ v.owed = w.owed
         /\ v = PageOf(v.entry, v.probes, v.timers, v.shown, v.element, v.owed)
    BY <1>9, PageFields
  <1>13. v \in PageT
    BY <1>1, <1>10, <1>12, PageParts DEF PageOf, PageT
  <1>14. v.entry.heal = w.entry.heal
    BY <1>8, <1>11, <1>12
  <1>15. PageOK(v)
    BY <1>7, <1>10, <1>12, <1>13, <1>14, AlikeOK
  <1> QED BY <1>3, <1>7, <1>10, <1>12, <1>14, <1>15

(* An element that failed leaves the glass, and its url is proved again. *)
LEMMA ElementErrorMoves ==
    ASSUME ProberAssumption, NEW w, PageOK(w)
    PROVE  LET v == ElementError(w)
           IN  PageOK(v) /\ v.probes = w.probes /\ v.entry.phase = "proving"
  <1> DEFINE yes == TRUE
             i == Invalidate(w)
             d == i.entry
             a == [d EXCEPT !.failing = yes]
             b == [a EXCEPT !.phase = "proving"]
             e == [b EXCEPT !.health = "unreachable"]
             x1 == [i EXCEPT !.entry.failing = yes]
             x2 == [x1 EXCEPT !.entry.phase = "proving"]
             v == [x2 EXCEPT !.entry.health = "unreachable"]
             f == [e EXCEPT !.painted = NoUrl]
             g == [v EXCEPT !.entry.painted = NoUrl, !.shown = NoUrl, !.element = NoElement]
             u == IF v.entry.painted = NoUrl THEN v ELSE g
  <1>1. w \in PageT /\ w.entry # NoEntry
    BY Known
  <1>2. Sound(i) /\ Still(i) /\ i.probes = w.probes
    BY InvalidateStills, InvalidateKeeps
  <1> HIDE DEF i
  <1>3. i = PageOf(d, i.probes, i.timers, i.shown, i.element, i.owed)
    BY <1>2, StillParts, PageParts DEF PageOf
  <1>4. ElementError(w) = Arm(u, "prove")
    <2>1. [Invalidate(w) EXCEPT !.entry.failing = TRUE, !.entry.phase = "proving",
                                !.entry.health = "unreachable"] = v
      BY <1>3 DEF i, PageOf
    <2> HIDE DEF v
    <2> QED BY <1>1, <2>1 DEF ElementError
  <1>5. yes \in BOOLEAN
    OBVIOUS
  <1> HIDE DEF yes
  <1>6. d \in EntryT /\ d.timer = 0 /\ d.heal = FALSE /\ i.element.url = d.painted
    BY <1>2, StillParts
  <1> HIDE DEF d
  <1>7. x1 = PageOf(a, i.probes, i.timers, i.shown, i.element, i.owed)
    BY <1>3 DEF PageOf
  <1>8. a \in EntryT /\ a.timer = 0 /\ a.painted = d.painted /\ a.seq = d.seq
    BY <1>5, <1>6 DEF EntryT
  <1>9. a.heal = FALSE
    BY <1>6 DEF EntryT
  <1> HIDE DEF a, x1
  <1>10. x2 = PageOf(b, i.probes, i.timers, i.shown, i.element, i.owed)
    BY <1>7 DEF PageOf
  <1>11. b \in EntryT /\ b.timer = 0 /\ b.heal = FALSE /\ b.painted = d.painted /\ b.seq = d.seq
         /\ b.phase = "proving"
    BY <1>8, <1>9 DEF EntryT, Phase
  <1> HIDE DEF b, x2
  <1>12. v = PageOf(e, i.probes, i.timers, i.shown, i.element, i.owed)
    BY <1>10 DEF PageOf
  <1>13. e \in EntryT /\ e.timer = 0 /\ e.heal = FALSE /\ e.painted = d.painted /\ e.seq = d.seq
         /\ e.phase = "proving"
    BY <1>11 DEF EntryT, Verdict
  <1> HIDE DEF e, v
  <1>14. /\ v.entry = e /\ v.probes = i.probes /\ v.timers = i.timers /\ v.shown = i.shown
         /\ v.element = i.element /\ v.owed = i.owed
         /\ v = PageOf(v.entry, v.probes, v.timers, v.shown, v.element, v.owed)
    BY <1>12, PageFields
  <1>15. Sound(v) /\ Still(v)
    BY <1>2, <1>6, <1>13, <1>14, StillParts, StillPage DEF d
  <1>16. CASE v.entry.painted = NoUrl
    <2>1. ElementError(w) = Arm(v, "prove")
      BY <1>4, <1>16
    <2> QED BY <1>2, <1>13, <1>14, <1>15, <2>1, ArmMoves DEF Runs, Fits
  <1>17. CASE v.entry.painted # NoUrl
    <2>1. ElementError(w) = Arm(g, "prove")
      BY <1>4, <1>17
    <2>2. g = PageOf(f, i.probes, i.timers, NoUrl, NoElement, i.owed)
      <3> DEFINE y == [v EXCEPT !.entry.painted = NoUrl]
      <3>1. g = [y EXCEPT !.shown = NoUrl, !.element = NoElement]
        BY <1>12 DEF PageOf
      <3>2. y = PageOf(f, i.probes, i.timers, i.shown, i.element, i.owed)
        BY <1>12 DEF PageOf
      <3> HIDE DEF g, y, f
      <3> QED BY <3>1, <3>2 DEF PageOf
    <2>3. f \in EntryT /\ f.timer = 0 /\ f.heal = FALSE /\ f.painted = NoUrl /\ f.seq = d.seq
          /\ f.phase = "proving"
      BY <1>13 DEF EntryT
    <2> HIDE DEF g, f
    <2>4. /\ g.entry = f /\ g.probes = i.probes /\ g.timers = i.timers /\ g.shown = NoUrl
          /\ g.element = NoElement /\ g.owed = i.owed
          /\ g = PageOf(g.entry, g.probes, g.timers, g.shown, g.element, g.owed)
      BY <2>2, PageFields
    <2>5. NoElement.url = NoUrl
      BY DEF NoElement
    <2>6. Sound(g) /\ Still(g)
      BY <1>2, <2>3, <2>4, <2>5, StillParts, StillPage DEF d
    <2> QED BY <1>2, <2>1, <2>3, <2>4, <2>6, ArmMoves DEF Runs, Fits
  <1> QED BY <1>16, <1>17

(* The result of a proof that counts: a retry, the glass, or a reload.     *)
LEMMA ProveLandsMoves ==
    ASSUME ProberAssumption, NEW w, Sound(w), Still(w), w.entry.phase = "proving",
           NEW p, p.url = w.entry.url, NEW ok \in BOOLEAN
    PROVE  LET v == ProveLands(w, p, ok)
           IN  PageOK(v) /\ v.probes = w.probes /\ (~p.spare => OnItsWay(v))
  <1>0. w \in PageT /\ "reachable" \in Verdict /\ "unreachable" \in Verdict
    BY DEF Sound, Verdict
  <1>1. CASE ~ok
    <2> DEFINE v == Health(w, "unreachable")
    <2>1. ProveLands(w, p, ok) = Arm(v, "prove")
      BY <1>1 DEF ProveLands
    <2>2. Sound(v) /\ Still(v) /\ v.entry.phase = "proving" /\ v.probes = w.probes
      BY <1>0, HealthStills, HealthKeeps
    <2> QED BY <2>1, <2>2, ArmMoves DEF Fits, Runs, OnItsWay
  <1>2. CASE ok
    <2> DEFINE v == IF w.entry.failing THEN w ELSE Health(w, "reachable")
    <2>1. /\ Sound(v) /\ Still(v) /\ v.probes = w.probes /\ v.entry.url = w.entry.url
      BY <1>0, HealthStills, HealthKeeps
    <2>2. ProveLands(w, p, ok) = IF v.entry.painted # p.url THEN Paint(v, p.url)
                                 ELSE IF p.spare THEN [v EXCEPT !.entry.phase = "steady"]
                                 ELSE RequestReload(v)
      BY <1>2 DEF ProveLands
    <2> HIDE DEF v
    <2>3. CASE v.entry.painted # p.url
      BY <2>1, <2>2, <2>3, PaintMoves, ZenonT(40) DEF OnItsWay
    <2>4. CASE v.entry.painted = p.url /\ p.spare
      BY <2>1, <2>2, <2>4, Rests
    <2>5. CASE v.entry.painted = p.url /\ ~p.spare
      BY <2>1, <2>2, <2>5, RequestReloadMoves
    <2> QED BY <2>3, <2>4, <2>5
  <1> QED BY <1>1, <1>2

(* The result of a spot check that counts: the next one, or a proof.       *)
LEMMA VerifyLandsMoves ==
    ASSUME ProberAssumption, NEW w, Sound(w), Still(w), Fits("verify", w.entry),
           NEW ok \in BOOLEAN
    PROVE  LET v == VerifyLands(w, ok)
           IN  /\ PageOK(v) /\ (OnItsWay(w) => OnItsWay(v))
               /\ Unspared(w) => Unspared(v)
  <1>0. w \in PageT /\ "reachable" \in Verdict /\ "unreachable" \in Verdict
    BY DEF Sound, Verdict
  <1>1. CASE ~ok
    <2> DEFINE v == Health(w, "unreachable")
    <2>1. VerifyLands(w, ok) = Prove(v, FALSE)
      BY <1>1 DEF VerifyLands
    <2>2. Sound(v) /\ Still(v) /\ v.probes = w.probes
      BY <1>0, HealthStills, HealthKeeps
    <2> HIDE DEF v
    <2> QED BY <2>1, <2>2, ProveMoves DEF OnItsWay, Unspared
  <1>2. CASE ok
    <2> DEFINE x == Health(w, "reachable")
               n == x.entry.verifyIdx + 1
               e == [x.entry EXCEPT !.verifyIdx = n]
               v == [x EXCEPT !.entry.verifyIdx = @ + 1]
    <2>1. VerifyLands(w, ok) = ScheduleVerify(v)
      BY <1>2 DEF VerifyLands
    <2>2. Sound(x) /\ Still(x) /\ x.probes = w.probes /\ x.entry.phase = w.entry.phase
          /\ x.entry.verifyIdx = w.entry.verifyIdx /\ x.owed = w.owed
      BY <1>0, HealthStills, HealthKeeps
    <2> HIDE DEF x
    <2>3. n \in 0..Verifies
      <3>1. w.entry.verifyIdx \in 0..Verifies
        BY <1>0, PageParts DEF EntryT
      <3> QED BY <2>2, <3>1 DEF Fits, ProberAssumption
    <2>4. v = PageOf(e, x.probes, x.timers, x.shown, x.element, x.owed)
      <3>1. x = PageOf(x.entry, x.probes, x.timers, x.shown, x.element, x.owed)
        BY <2>2, StillParts, PageParts DEF PageOf
      <3> QED BY <3>1 DEF PageOf
    <2> HIDE DEF n
    <2>5. /\ e \in EntryT /\ e.url = x.entry.url /\ e.painted = x.entry.painted
          /\ e.phase = x.entry.phase /\ e.seq = x.entry.seq /\ e.timer = 0 /\ e.heal = FALSE
      BY <2>2, <2>3, StillParts DEF EntryT
    <2> HIDE DEF e, v
    <2>6. /\ v.entry = e /\ v.probes = x.probes /\ v.timers = x.timers /\ v.shown = x.shown
          /\ v.element = x.element /\ v.owed = x.owed
          /\ v = PageOf(v.entry, v.probes, v.timers, v.shown, v.element, v.owed)
      BY <2>4, PageFields
    <2>7. e.phase # "proving" => e.painted = e.url
      BY <2>2, <2>5 DEF Sound, Glass
    <2>8. Sound(v) /\ Still(v)
      <3>1. \A p \in v.probes : p.seq <= v.entry.seq /\ p.seq # v.entry.seq
        BY <2>2, <2>5, <2>6, StillParts
      <3>2. v.entry.phase # "proving" => v.entry.painted = v.entry.url
        BY <2>6, <2>7
      <3>3. v.entry.heal = FALSE
        BY <2>5, <2>6
      <3>4. /\ v.probes \in SUBSET ProbeT /\ v.timers = {} /\ v.shown \in Url \cup {NoUrl}
            /\ v.element \in ElementT \cup {NoElement} /\ v.owed \in BOOLEAN
            /\ v.element.url = v.entry.painted
        BY <2>2, <2>5, <2>6, StillParts
      <3> QED BY <2>5, <2>6, <3>1, <3>2, <3>3, <3>4, StillPage
    <2>9. v.entry.phase = "verifying"
      BY <2>2, <2>5, <2>6 DEF Fits
    <2>10. /\ PageOK(ScheduleVerify(v)) /\ ScheduleVerify(v).probes = w.probes
           /\ ScheduleVerify(v).owed = w.owed
      BY <2>2, <2>6, <2>8, <2>9, ScheduleVerifyMoves
    <2>11. OnItsWay(w) => ~w.owed
      BY DEF OnItsWay, Still, Fits
    <2>12. OnItsWay(w) => OnItsWay(ScheduleVerify(v))
      BY <2>10, <2>11 DEF OnItsWay
    <2> QED BY <2>1, <2>10, <2>12 DEF Unspared
  <1> QED BY <1>1, <1>2

-----------------------------------------------------------------------------
(* From a page to the next state. *)

LEMMA PageIs ==
    /\ Page.entry = entry /\ Page.probes = probes /\ Page.timers = timers /\ Page.shown = shown
    /\ Page.element = element /\ Page.owed = owed
    /\ Page = PageOf(entry, probes, timers, shown, element, owed)
  BY DEF Page, PageOf

LEMMA BecomesPage ==
    ASSUME NEW v \in PageT, Becomes(v)
    PROVE  Page' = v /\ entry' = v.entry
  BY PageParts DEF Becomes, Page

(* A surface whose page is sound after a step leaves the invariant whole.  *)
LEMMA Carry ==
    ASSUME ProberAssumption, ProberInv, NEW v, Becomes(v), PageOK(v),
           kind' = kind, recheck' \in {"none", "full", "brief"}, up' \subseteq Url,
           left' \in 0..MaxEvents, story' = story,
           story = "long" => /\ recheck' # "brief" /\ Unspared(v)
                             /\ recheck' = "none" => OnItsWay(v)
    PROVE  ProberInv'
  <1>1. v \in PageT /\ v.entry # NoEntry
    BY Known
  <1>2. Page' = v /\ Present'
    BY <1>1, BecomesPage DEF Present
  <1>3. PageOK(Page)'
    BY <1>2
  <1>4. (story = "long" => /\ recheck # "brief" /\ Unspared(Page)
                           /\ Present /\ recheck = "none" => OnItsWay(Page))'
    BY <1>2
  <1>5. kind' \in {"frame", "media"} /\ story' \in {"long", "brief"}
    BY DEF ProberInv
  <1> QED BY <1>2, <1>3, <1>4, <1>5 DEF ProberInv

LEMMA EventLeft ==
    ASSUME ProberAssumption, ProberInv, Event
    PROVE  left' \in 0..MaxEvents
  BY DEF ProberAssumption, ProberInv, Event

LEMMA InitInvariant ==
    ASSUME ProberAssumption, MCInit
    PROVE  ProberInv
  <1>1. ~Present /\ probes = {} /\ timers = {} /\ element = NoElement /\ shown = NoUrl
        /\ recheck = "none" /\ up \subseteq Url /\ left = MaxEvents
    BY DEF MCInit, Init, Present
  <1>2. kind \in {"frame", "media"} /\ story \in {"long", "brief"} /\ owed \in BOOLEAN
    BY DEF MCInit, Init
  <1>3. Unspared(Page)
    BY <1>1, PageIs DEF Unspared
  <1>4. left \in 0..MaxEvents
    BY <1>1 DEF ProberAssumption
  <1> QED BY <1>1, <1>2, <1>3, <1>4 DEF ProberInv

(* A hint, or a cadence that comes due while the surface is proving, adds a debt. *)
LEMMA OwedMore ==
    ASSUME ProberAssumption, PageOK(Page), NEW ow \in BOOLEAN,
           NEW v, v = PageOf(entry, probes, timers, shown, element, ow)
    PROVE  PageOK(v) /\ v.probes = probes /\ v.entry = entry /\ v.owed = ow
  <1>1. Page \in PageT
    BY Known
  <1>2. v \in PageT
    BY <1>1, PageIs, PageParts DEF PageOf, PageT
  <1>3. /\ v.entry = entry /\ v.probes = probes /\ v.timers = timers
        /\ v.element = element /\ v.owed = ow
    BY DEF PageOf
  <1>4. PageOK(v)
    BY <1>2, <1>3, PageIs, AlikeOK
  <1> QED BY <1>3, <1>4

LEMMA AppearKeeps ==
    ASSUME ProberAssumption, ProberInv, story' = story, NEW u \in Url, Appear(u),
           ~Present /\ entry' # NoEntry => shown = NoUrl /\ probes = {}
    PROVE  ProberInv'
  <1> DEFINE f == Fresh(u)
             el == IF shown = NoUrl THEN element ELSE Load(shown)
             x == [Page EXCEPT !.entry = f, !.element = IF shown = NoUrl THEN @ ELSE Load(shown)]
             v == Prove(x, FALSE)
  <1>1. /\ ~Present /\ Becomes(v) /\ kind' = kind /\ recheck' = recheck /\ up' = up
        /\ left' \in 0..MaxEvents
    BY EventLeft DEF Appear
  <1>2. /\ probes \subseteq ProbeT /\ timers = {} /\ element = NoElement
        /\ shown \in Url \cup {NoUrl} /\ owed \in BOOLEAN
        /\ recheck \in {"none", "full", "brief"} /\ up \subseteq Url
        /\ (story = "long" => recheck # "brief")
    BY <1>1 DEF ProberInv
  <1>3. x = PageOf(f, probes, {}, shown, el, owed)
    <2>1. Page = PageOf(entry, probes, {}, shown, element, owed)
      BY <1>2, PageIs
    <2>2. x = [Page EXCEPT !.entry = f, !.element = el]
      BY PageIs
    <2> HIDE DEF x, f, el
    <2> QED BY <2>1, <2>2 DEF PageOf
  <1>4. /\ f.url = u /\ f.painted = NoUrl /\ f.phase = "proving" /\ f.seq = 0 /\ f.timer = 0
        /\ f.heal = FALSE
    BY DEF Fresh
  <1>5. f \in EntryT
    BY DEF Fresh, EntryT, Phase, Verdict, ProberAssumption
  <1>6. el \in ElementT \cup {NoElement}
    BY <1>2, LoadType
  <1> HIDE DEF f, x, el
  <1>7. x.entry = f /\ x.probes = probes /\ x.timers = {} /\ x.shown = shown /\ x.element = el
        /\ x.owed = owed /\ x = PageOf(x.entry, x.probes, x.timers, x.shown, x.element, x.owed)
    BY <1>3, PageFields
  <1>8. x \in PageT
    BY <1>2, <1>3, <1>5, <1>6 DEF PageOf, PageT
  <1>9. entry' # NoEntry
    <2> DEFINE y == [x EXCEPT !.entry.phase = "proving"]
    <2>1. y.entry.url = u
      <3>1. "proving" \in Phase
        BY DEF Phase
      <3>2. y = PageOf([x.entry EXCEPT !.phase = "proving"], x.probes, x.timers, x.shown,
                       x.element, x.owed)
        BY <1>8, <3>1, PhaseKeeps
      <3>3. [x.entry EXCEPT !.phase = "proving"].url = u
        BY <1>4, <1>7, <1>8, <3>1, PhaseKeeps
      <3> QED BY <3>2, <3>3 DEF PageOf
    <2>2. v = Probe(y, "prove", FALSE)
      BY DEF Prove
    <2>3. y \in PageT
      <3>1. "proving" \in Phase
        BY DEF Phase
      <3> QED BY <1>8, <3>1, PhaseKeeps, PageParts DEF PageOf, PageT
    <2> HIDE DEF y, v
    <2>4. v.entry = y.entry
      BY <2>2, <2>3, WithProbe DEF Probe
    <2>5. entry'.url = u
      BY <1>1, <2>1, <2>4 DEF Becomes
    <2> QED BY <2>5 DEF NoEntry, ProberAssumption
  <1>10. shown = NoUrl /\ probes = {}
    BY <1>1, <1>9
  <1>11. el.url = NoUrl
    BY <1>2, <1>10 DEF el, NoElement
  <1>12. Sound(x) /\ Still(x)
    BY <1>2, <1>4, <1>5, <1>6, <1>7, <1>10, <1>11, StillPage
  <1>13. PageOK(v) /\ v.entry.phase = "proving" /\ (Unspared(x) => Unspared(v))
    BY <1>12, ProveMoves
  <1>14. Unspared(x)
    BY <1>7, <1>10 DEF Unspared
  <1> QED BY <1>1, <1>2, <1>13, <1>14, Carry DEF OnItsWay

(* What the invariant says of a surface that is there. *)
LEMMA Here ==
    ASSUME ProberAssumption, ProberInv, Present
    PROVE  /\ PageOK(Page) /\ Page \in PageT /\ entry \in EntryT /\ probes \in SUBSET ProbeT
           /\ timers \in SUBSET TimerT /\ shown \in Url \cup {NoUrl}
           /\ element \in ElementT \cup {NoElement} /\ owed \in BOOLEAN
           /\ recheck \in {"none", "full", "brief"} /\ up \subseteq Url
           /\ left \in 0..MaxEvents
  <1>1. PageOK(Page)
    BY DEF ProberInv
  <1>2. Page \in PageT
    BY <1>1, Known
  <1>3. /\ recheck \in {"none", "full", "brief"} /\ up \subseteq Url /\ left \in 0..MaxEvents
    BY DEF ProberInv
  <1>4. /\ entry \in EntryT /\ probes \in SUBSET ProbeT /\ timers \in SUBSET TimerT
        /\ shown \in Url \cup {NoUrl} /\ element \in ElementT \cup {NoElement}
    BY <1>2, PageIs, PageParts
  <1>5. owed \in BOOLEAN
    BY <1>2, PageIs, PageParts
  <1> QED BY <1>1, <1>2, <1>3, <1>4, <1>5

LEMMA Long ==
    ASSUME ProberInv, Present, story = "long"
    PROVE  recheck # "brief" /\ Unspared(Page) /\ (recheck = "none" => OnItsWay(Page))
  BY DEF ProberInv

LEMMA RetargetKeeps ==
    ASSUME ProberAssumption, ProberInv, story' = story, NEW u \in Url, Retarget(u)
    PROVE  ProberInv'
  <1> DEFINE no == FALSE
             i == Invalidate(Page)
             x1 == [i EXCEPT !.entry.url = u]
             x2 == [x1 EXCEPT !.entry.failing = no]
             x == [x2 EXCEPT !.entry.health = "unknown"]
             a == [i.entry EXCEPT !.url = u]
             b == [a EXCEPT !.failing = no]
             e == [b EXCEPT !.health = "unknown"]
             y1 == [x EXCEPT !.entry.phase = "proving"]
             f == [e EXCEPT !.phase = "proving"]
             v == Prove(x, FALSE)
  <1>1. /\ Present /\ kind' = kind /\ recheck' = recheck /\ up' = up /\ left' \in 0..MaxEvents
    BY EventLeft DEF Retarget
  <1>2. Sound(i) /\ Still(i) /\ i.probes = probes
    BY <1>1, Here, InvalidateStills, InvalidateKeeps, PageIs
  <1>3. i = PageOf(i.entry, i.probes, i.timers, i.shown, i.element, i.owed)
    BY <1>2, StillParts, PageParts DEF PageOf
  <1>4. Becomes(v)
    <2>1. [Invalidate(Page) EXCEPT !.entry.url = u, !.entry.failing = FALSE,
                                   !.entry.health = "unknown"] = x
      BY <1>3 DEF PageOf
    <2> HIDE DEF x
    <2> QED BY <2>1 DEF Retarget
  <1>5. no \in BOOLEAN
    OBVIOUS
  <1> HIDE DEF no, i, v
  <1>6. x1 = PageOf(a, i.probes, i.timers, i.shown, i.element, i.owed)
    BY <1>3 DEF PageOf
  <1>7. a \in EntryT /\ a.timer = 0 /\ a.painted = i.entry.painted /\ a.seq = i.entry.seq
        /\ a.heal = FALSE
    BY <1>2, StillParts DEF EntryT
  <1> HIDE DEF a, x1
  <1>8. x2 = PageOf(b, i.probes, i.timers, i.shown, i.element, i.owed)
    BY <1>6 DEF PageOf
  <1>9. b \in EntryT /\ b.timer = 0 /\ b.painted = i.entry.painted /\ b.seq = i.entry.seq
    BY <1>5, <1>7 DEF EntryT
  <1>10. b.heal = FALSE
    BY <1>7 DEF EntryT
  <1> HIDE DEF b, x2
  <1>11. x = PageOf(e, i.probes, i.timers, i.shown, i.element, i.owed)
    BY <1>8 DEF PageOf
  <1>12. e \in EntryT /\ e.timer = 0 /\ e.painted = i.entry.painted /\ e.seq = i.entry.seq
         /\ e.heal = FALSE
    BY <1>9, <1>10 DEF EntryT, Verdict
  <1> HIDE DEF e, x
  <1>13. y1 = PageOf(f, i.probes, i.timers, i.shown, i.element, i.owed)
    BY <1>11 DEF PageOf
  <1>14. f \in EntryT /\ f.timer = 0 /\ f.painted = i.entry.painted /\ f.seq = i.entry.seq
         /\ f.heal = FALSE /\ f.phase = "proving"
    BY <1>12 DEF EntryT, Phase
  <1> HIDE DEF f, y1
  <1>15. y1.entry = f /\ y1.probes = i.probes /\ y1.timers = i.timers /\ y1.shown = i.shown
         /\ y1.element = i.element /\ y1.owed = i.owed
         /\ y1 = PageOf(y1.entry, y1.probes, y1.timers, y1.shown, y1.element, y1.owed)
    BY <1>13, PageFields
  <1>16. Sound(y1) /\ Still(y1)
    BY <1>2, <1>14, <1>15, StillParts, StillPage
  <1>17. v = Probe(y1, "prove", FALSE)
    BY DEF Prove, v, y1
  <1>18. PageOK(v) /\ v.entry = f /\ (Unspared(y1) => Unspared(v))
    BY <1>14, <1>15, <1>16, <1>17, ProbeMoves DEF Runs, Fits
  <1>19. story = "long" => recheck # "brief" /\ Unspared(v)
    BY <1>1, <1>2, <1>15, <1>18, Long, PageIs DEF Unspared
  <1>20. OnItsWay(v)
    BY <1>14, <1>18 DEF OnItsWay
  <1> QED BY <1>1, <1>4, <1>18, <1>19, <1>20, Here, Carry

LEMMA VanishKeeps ==
    ASSUME ProberAssumption, ProberInv, story' = story, Vanish
    PROVE  ProberInv'
  <1> DEFINE c == Cancel(Page)
             e == [entry EXCEPT !.timer = 0]
             T == {[t EXCEPT !.owned = FALSE] : t \in c.timers}
             v == [c EXCEPT !.entry = NoEntry, !.element = NoElement, !.owed = FALSE,
                            !.timers = {[t EXCEPT !.owned = FALSE] : t \in @}]
  <1>1. /\ Present /\ Becomes(v) /\ kind' = kind /\ recheck' = recheck /\ up' = up
        /\ left' \in 0..MaxEvents
    BY EventLeft DEF Vanish
  <1>2. c = PageOf(e, probes, {}, shown, element, owed)
    <2>1. Untimed(Page) \/ Timed(Page)
      BY <1>1, Here DEF PageOK, OneMover, Still, Probing, Healing
    <2> QED BY <1>1, <2>1, Here, CancelsTimer, PageIs
  <1> HIDE DEF c, e
  <1>3. T = {}
    BY <1>2 DEF PageOf
  <1>4. v = [c EXCEPT !.entry = NoEntry, !.element = NoElement, !.owed = FALSE, !.timers = T]
    BY <1>2 DEF PageOf
  <1> HIDE DEF T, v
  <1>5. v.entry = NoEntry /\ v.element = NoElement /\ v.timers = {} /\ v.probes = probes
        /\ v.shown = shown
    BY <1>2, <1>3, <1>4 DEF PageOf
  <1>6. v.owed = FALSE
    BY <1>2, <1>4 DEF PageOf
  <1>7. /\ ~Present' /\ probes' = probes /\ timers' = {} /\ element' = NoElement
        /\ shown' = shown /\ owed' = FALSE
    BY <1>1, <1>5, <1>6 DEF Becomes, Present
  <1>8. owed' \in BOOLEAN
    BY <1>7
  <1>9. story = "long" => recheck' # "brief" /\ Unspared(Page)'
    BY <1>1, <1>7, Long DEF Unspared, Page
  <1>10. /\ kind' \in {"frame", "media"} /\ story' \in {"long", "brief"}
         /\ recheck' \in {"none", "full", "brief"} /\ up' \subseteq Url
    BY <1>1 DEF ProberInv
  <1> QED BY <1>1, <1>7, <1>8, <1>9, <1>10, Here DEF ProberInv

LEMMA HintKeeps ==
    ASSUME ProberAssumption, ProberInv, story' = story, NEW how \in {"full", "brief"}, Hint(how),
           story = "long" => recheck' # "brief"
    PROVE  ProberInv'
  <1> DEFINE ow == owed \/ how = "full"
             v == PageOf(entry, probes, timers, shown, element, ow)
  <1>1. /\ Present /\ recheck' = (IF recheck = "none" THEN how ELSE recheck) /\ owed' = ow
        /\ kind' = kind /\ entry' = entry /\ probes' = probes /\ timers' = timers
        /\ shown' = shown /\ element' = element /\ up' = up /\ left' \in 0..MaxEvents
    BY EventLeft DEF Hint
  <1>2. ow \in BOOLEAN
    OBVIOUS
  <1> HIDE DEF ow
  <1>3. PageOK(v) /\ v.probes = probes /\ v.owed = ow
    BY <1>1, <1>2, Here, OwedMore
  <1>4. Becomes(v)
    BY <1>1 DEF Becomes, PageOf
  <1> HIDE DEF v
  <1>5. recheck' \in {"full", "brief"}
    BY <1>1, Here
  <1>6. story = "long" => Unspared(v)
    BY <1>1, <1>3, Long, PageIs DEF Unspared
  <1> QED BY <1>1, <1>3, <1>4, <1>5, <1>6, Here, Carry

LEMMA RefreshDueKeeps ==
    ASSUME ProberAssumption, ProberInv, story' = story, RefreshDue
    PROVE  ProberInv'
  <1> DEFINE yes == TRUE
             p == Prove(Invalidate(Page), FALSE)
             b == IF entry.phase = "proving" THEN Page ELSE p
             v == [b EXCEPT !.owed = yes]
  <1>1. /\ Present /\ Becomes(v) /\ kind' = kind /\ recheck' = recheck /\ up' = up
        /\ left' \in 0..MaxEvents
    BY EventLeft DEF RefreshDue
  <1>2. yes \in BOOLEAN /\ PageOK(Page) /\ Page.entry = entry /\ Page.probes = probes
    BY <1>1, Here, PageIs
  <1>3. PageOK(p) /\ p.entry.phase = "proving" /\ (Unspared(Page) => Unspared(p))
    <2>1. Sound(Invalidate(Page)) /\ Still(Invalidate(Page))
      BY <1>2, InvalidateStills
    <2>2. Invalidate(Page).probes = Page.probes
      BY <1>2, InvalidateKeeps
    <2> QED BY <2>1, <2>2, ProveMoves DEF Unspared
  <1> HIDE DEF yes, p
  <1>4. PageOK(b) /\ b.entry.phase = "proving" /\ (Unspared(Page) => Unspared(b))
    BY <1>2, <1>3
  <1> HIDE DEF b
  <1>5. b \in PageT
    BY <1>4, Known
  <1>6. v = PageOf(b.entry, b.probes, b.timers, b.shown, b.element, yes)
    BY <1>5, PageParts DEF PageOf
  <1> HIDE DEF v
  <1>7. v.entry = b.entry /\ v.probes = b.probes /\ v.timers = b.timers /\ v.shown = b.shown
        /\ v.element = b.element /\ v.owed = yes
    BY <1>6, PageFields
  <1>8. v \in PageT
    BY <1>2, <1>5, <1>6, PageParts DEF PageOf, PageT
  <1>9. PageOK(v)
    BY <1>4, <1>7, <1>8, AlikeOK
  <1>10. Unspared(Page) => Unspared(v)
    BY <1>4, <1>7 DEF Unspared
  <1>11. OnItsWay(v)
    BY <1>4, <1>7 DEF OnItsWay
  <1> QED BY <1>1, <1>9, <1>10, <1>11, Here, Long, Carry

LEMMA RecheckKeeps ==
    ASSUME ProberAssumption, ProberInv, story' = story, Recheck
    PROVE  ProberInv'
  <1>1. /\ recheck # "none" /\ recheck' = "none" /\ kind' = kind /\ up' = up /\ left' = left
        /\ up' \subseteq Url /\ left' \in 0..MaxEvents
    BY DEF Recheck, ProberInv
  <1>2. CASE ~Present
    <2>1. UNCHANGED page
      BY <1>2 DEF Recheck
    <2> QED BY <1>1, <1>2, <2>1 DEF page, ProberInv, Present, Page, Unspared
  <1>3. CASE Present /\ entry.phase = "proving" /\ entry.timer = 0
    <2>1. UNCHANGED page
      BY <1>3 DEF Recheck
    <2>2. Becomes(Page)
      BY <2>1 DEF page, Becomes, Page
    <2>3. OnItsWay(Page)
      BY <1>3, PageIs DEF OnItsWay
    <2> QED BY <1>1, <1>3, <2>2, <2>3, Here, Long, Carry
  <1>4. CASE Present /\ entry.phase = "proving" /\ entry.timer # 0
    <2> DEFINE c == Cancel(Page)
               e == [entry EXCEPT !.timer = 0]
               v == Prove(c, FALSE)
    <2>1. Becomes(v)
      BY <1>4 DEF Recheck
    <2>2. Timed(Page)
      BY <1>4, Here, PageIs DEF PageOK, OneMover, Probing, Healing, Untimed
    <2>3. c = PageOf(e, probes, {}, shown, element, owed)
      BY <1>4, <2>2, Here, CancelsTimer, PageIs
    <2>4. /\ e \in EntryT /\ e.timer = 0 /\ e.seq = entry.seq /\ e.painted = entry.painted
          /\ e.phase = "proving"
      BY <1>4, Here DEF EntryT
    <2>5. e.heal = FALSE
      <3>1. ~entry.heal
        BY <2>2, PageIs DEF Timed
      <3>2. e.heal = entry.heal
        BY <1>4, Here DEF EntryT
      <3>3. entry.heal \in BOOLEAN
        BY <1>4, Here DEF EntryT
      <3> QED BY <3>1, <3>2, <3>3
    <2>6. element.url = entry.painted /\ \A p \in probes : p.seq <= entry.seq /\ p.seq # entry.seq
      BY <1>4, <2>2, Here, PageIs DEF PageOK, Sound, Glass, Timed, Overtaken
    <2> HIDE DEF c, e, v
    <2>7. c.entry = e /\ c.probes = probes /\ c.timers = {} /\ c.shown = shown /\ c.element = element
          /\ c.owed = owed /\ c = PageOf(c.entry, c.probes, c.timers, c.shown, c.element, c.owed)
      BY <2>3, PageFields
    <2>8. Sound(c) /\ Still(c)
      BY <1>4, <2>4, <2>5, <2>6, <2>7, Here, StillPage
    <2>9. PageOK(v) /\ v.entry.phase = "proving" /\ (Unspared(c) => Unspared(v))
      BY <2>8, ProveMoves DEF v
    <2>10. story = "long" => Unspared(v)
      BY <1>4, <2>7, <2>9, Long, PageIs DEF Unspared
    <2>11. OnItsWay(v)
      BY <2>9 DEF OnItsWay
    <2> QED BY <1>1, <2>1, <2>9, <2>10, <2>11, Carry
  <1>5. CASE Present /\ entry.phase # "proving"
    <2> DEFINE i == Invalidate(Page)
               spare == recheck = "brief" /\ entry.phase = "steady"
               v == Prove(i, spare)
    <2>1. Becomes(v)
      BY <1>5 DEF Recheck
    <2>2. spare \in BOOLEAN /\ (story = "long" => ~spare)
      BY <1>5, Long
    <2>3. Sound(i) /\ Still(i)
      BY <1>5, Here, InvalidateStills
    <2>4. i.probes = probes
      BY <1>5, Here, InvalidateKeeps, PageIs
    <2> HIDE DEF i, spare
    <2>5. PageOK(v) /\ v.entry.phase = "proving" /\ (~spare /\ Unspared(i) => Unspared(v))
      BY <2>2, <2>3, ProveMoves
    <2>6. story = "long" => Unspared(v)
      BY <1>5, <2>2, <2>4, <2>5, Long, PageIs DEF Unspared
    <2>7. OnItsWay(v)
      BY <2>5 DEF OnItsWay
    <2> HIDE DEF v
    <2> QED BY <1>1, <2>1, <2>5, <2>6, <2>7, Carry
  <1> QED BY <1>2, <1>3, <1>4, <1>5

LEMMA FireKeeps ==
    ASSUME ProberAssumption, ProberInv, story' = story, NEW t \in timers, Fire(t)
    PROVE  ProberInv'
  <1> DEFINE w == [Page EXCEPT !.timers = @ \ {t},
                               !.entry = IF t.owned THEN [@ EXCEPT !.timer = 0] ELSE @]
             e == [entry EXCEPT !.timer = 0]
             v == Probe(w, t.runs, FALSE)
  <1>1. Present
    BY DEF ProberInv
  <1>2. Becomes(v) /\ kind' = kind /\ recheck' = recheck /\ up' = up /\ left' = left
    BY <1>1 DEF Fire
  <1>3. Timed(Page)
    BY <1>1, Here, PageIs DEF PageOK, OneMover, Still, Probing, Healing, Untimed
  <1>4. timers = {t} /\ t.owned /\ Fits(t.runs, entry)
    BY <1>3, PageIs DEF Timed
  <1>5. w = PageOf(e, probes, {}, shown, element, owed)
    <2>1. w = [Page EXCEPT !.timers = {}, !.entry = e]
      BY <1>4, PageIs
    <2> HIDE DEF w, e
    <2> QED BY <2>1, PageIs DEF PageOf
  <1>6. /\ e \in EntryT /\ e.timer = 0 /\ e.seq = entry.seq /\ e.painted = entry.painted
        /\ e.url = entry.url /\ e.phase = entry.phase /\ e.verifyIdx = entry.verifyIdx
    BY <1>1, Here DEF EntryT
  <1>7. e.heal = entry.heal
    BY <1>1, Here DEF EntryT
  <1>8. entry.heal = FALSE
    <2>1. ~entry.heal
      BY <1>3, PageIs DEF Timed
    <2>2. entry.heal \in BOOLEAN
      BY <1>1, Here DEF EntryT
    <2> QED BY <2>1, <2>2
  <1>9. /\ element.url = entry.painted /\ (entry.phase # "proving" => entry.painted = entry.url)
        /\ \A p \in probes : p.seq <= entry.seq /\ p.seq # entry.seq
    BY <1>1, <1>3, Here, PageIs DEF PageOK, Sound, Glass, Timed, Overtaken
  <1> HIDE DEF w, e
  <1>10. w.entry = e /\ w.probes = probes /\ w.timers = {} /\ w.shown = shown /\ w.element = element
         /\ w.owed = owed /\ w = PageOf(w.entry, w.probes, w.timers, w.shown, w.element, w.owed)
    BY <1>5, PageFields
  <1>11. w.entry.heal = FALSE
    BY <1>7, <1>8, <1>10
  <1>12. Sound(w) /\ Still(w)
    BY <1>1, <1>6, <1>9, <1>10, <1>11, Here, StillPage
  <1>13. Fits(t.runs, w.entry) /\ t.runs \in Runs
    BY <1>1, <1>4, <1>6, <1>10, Here DEF Fits, TimerT
  <1>14. PageOK(v) /\ v.owed = owed /\ v.entry = e /\ (Unspared(w) => Unspared(v))
    BY <1>10, <1>12, <1>13, ProbeMoves
  <1> HIDE DEF v
  <1>15. story = "long" => Unspared(v) /\ (recheck = "none" => OnItsWay(v))
    BY <1>1, <1>6, <1>7, <1>10, <1>14, Long, PageIs DEF Unspared, OnItsWay
  <1> QED BY <1>1, <1>2, <1>14, <1>15, Here, Long, Carry

LEMMA LandKeeps ==
    ASSUME ProberAssumption, ProberInv, story' = story, NEW p \in probes, NEW ok \in BOOLEAN,
           Land(p, ok)
    PROVE  ProberInv'
  <1> DEFINE ps == probes \ {p}
             w == [Page EXCEPT !.probes = @ \ {p}]
             v == IF ~Current(p) THEN w
                  ELSE IF p.runs = "prove" THEN ProveLands(w, p, ok)
                  ELSE VerifyLands(w, ok)
  <1>1. Becomes(v) /\ kind' = kind /\ recheck' = recheck /\ up' = up /\ left' = left
    BY DEF Land
  <1>2. w = PageOf(entry, ps, timers, shown, element, owed)
    BY PageIs DEF PageOf
  <1> HIDE DEF w
  <1>3. w.entry = entry /\ w.probes = ps /\ w.timers = timers /\ w.shown = shown
        /\ w.element = element /\ w.owed = owed
        /\ w = PageOf(w.entry, w.probes, w.timers, w.shown, w.element, w.owed)
    BY <1>2, PageFields
  <1>4. CASE ~Present
    <2>1. v = w
      BY <1>4 DEF Current
    <2>2. /\ entry' = entry /\ probes' = ps /\ timers' = timers /\ shown' = shown
          /\ element' = element /\ owed' = owed
      BY <1>1, <1>3, <2>1 DEF Becomes
    <2>3. ~Present' /\ Page'.probes = ps
      BY <1>4, <2>2 DEF Present, Page
    <2>4. story = "long" => Unspared(Page)'
      BY <2>3, PageIs DEF ProberInv, Unspared
    <2>5. owed' \in BOOLEAN
      BY <1>4, <2>2 DEF ProberInv
    <2> QED BY <1>1, <1>4, <2>2, <2>3, <2>4, <2>5 DEF ProberInv
  <1>5. CASE Present
    <2>1. /\ w \in PageT /\ \A q \in ps : q.seq <= entry.seq
          /\ element.url = entry.painted
          /\ entry.phase # "proving" => entry.painted = entry.url
      <3>1. w \in PageT
        BY <1>2, <1>5, Here DEF PageOf, PageT
      <3>2. /\ \A q \in ps : q.seq <= entry.seq
            /\ element.url = entry.painted
            /\ entry.phase # "proving" => entry.painted = entry.url
        BY <1>5, Here, PageIs DEF PageOK, Sound, Glass
      <3> QED BY <3>1, <3>2
    <2>2. Sound(w)
      BY <1>3, <2>1 DEF Sound, Glass
    <2>3. story = "long" => recheck # "brief" /\ Unspared(w)
      BY <1>3, <1>5, Long, PageIs DEF Unspared
    <2>4. CASE p.seq # entry.seq
      <3>1. v = w
        BY <2>4 DEF Current
      <3>2. OneMover(w)
        <4>1. Still(Page) => Still(w)
          BY <1>3, PageIs DEF Still, Overtaken, Untimed
        <4>2. Probing(Page) => Probing(w)
          BY <1>3, <2>4, PageIs DEF Probing, Untimed
        <4>3. Timed(Page) => Timed(w)
          BY <1>3, PageIs DEF Timed, Overtaken
        <4>4. Healing(Page) => Healing(w)
          BY <1>3, PageIs DEF Healing, Overtaken, Untimed
        <4> QED BY <1>3, <1>5, <4>1, <4>2, <4>3, <4>4, Here, PageIs DEF PageOK, OneMover
      <3>3. PageOK(w)
        BY <2>2, <3>2 DEF PageOK
      <3>4. story = "long" => (recheck = "none" => OnItsWay(w))
        BY <1>3, <1>5, Long, PageIs DEF OnItsWay
      <3> QED BY <1>1, <1>5, <2>3, <3>1, <3>3, <3>4, Here, Carry
    <2>5. CASE p.seq = entry.seq
      <3>1. Current(p)
        BY <1>5, <2>5 DEF Current
      <3>2. Probing(Page)
        BY <1>5, <2>5, Here, PageIs DEF PageOK, OneMover, Still, Timed, Healing, Overtaken
      <3>3. p.url = entry.url /\ Fits(p.runs, entry) /\ (\A q \in probes : q.seq = entry.seq => q = p)
        BY <2>5, <3>2, PageIs DEF Probing
      <3>4. Still(w)
        BY <1>3, <3>2, <3>3, PageIs DEF Still, Probing, Overtaken, Untimed
      <3>5. story = "long" => ~p.spare
        BY <1>5, Long, PageIs DEF Unspared
      <3>6. CASE p.runs = "prove"
        <4> DEFINE x == ProveLands(w, p, ok)
        <4>1. v = x
          BY <3>1, <3>6
        <4>2. w.entry.phase = "proving" /\ p.url = w.entry.url
          BY <1>3, <3>3, <3>6 DEF Fits
        <4>3. PageOK(x) /\ x.probes = w.probes /\ (~p.spare => OnItsWay(x))
          BY <2>2, <3>4, <4>2, ProveLandsMoves
        <4> HIDE DEF x, v
        <4>4. story = "long" => Unspared(x) /\ OnItsWay(x)
          BY <2>3, <3>5, <4>3 DEF Unspared
        <4> QED BY <1>1, <1>5, <2>3, <4>1, <4>3, <4>4, Here, Carry
      <3>7. CASE p.runs # "prove"
        <4> DEFINE x == VerifyLands(w, ok)
        <4>1. v = x
          BY <3>1, <3>7
        <4>2. Fits("verify", w.entry)
          BY <1>3, <3>3, <3>7 DEF Fits
        <4>3. PageOK(x) /\ (OnItsWay(w) => OnItsWay(x)) /\ (Unspared(w) => Unspared(x))
          BY <2>2, <3>4, <4>2, VerifyLandsMoves
        <4> HIDE DEF x, v
        <4>4. story = "long" => Unspared(x) /\ (recheck = "none" => OnItsWay(x))
          BY <1>3, <1>5, <2>3, <4>3, Long, PageIs DEF OnItsWay
        <4> QED BY <1>1, <1>5, <2>3, <4>1, <4>3, <4>4, Here, Carry
      <3> QED BY <3>6, <3>7
    <2> QED BY <2>4, <2>5
  <1> QED BY <1>4, <1>5

LEMMA IntervalOverKeeps ==
    ASSUME ProberAssumption, ProberInv, story' = story, IntervalOver
    PROVE  ProberInv'
  <1> DEFINE yes == TRUE
             no == FALSE
             a == [entry EXCEPT !.rested = yes]
             e == [a EXCEPT !.heal = no]
             x == [Page EXCEPT !.entry.rested = yes]
             w == [x EXCEPT !.entry.heal = no]
             v == IF entry.heal THEN PerformReload(w) ELSE w
  <1>1. Present /\ kind' = kind /\ recheck' = recheck /\ up' = up /\ left' = left
    BY DEF IntervalOver
  <1>2. Becomes(v)
    <2>1. [Page EXCEPT !.entry.rested = TRUE, !.entry.heal = FALSE] = w
      BY PageIs DEF PageOf
    <2> HIDE DEF w
    <2> QED BY <2>1 DEF IntervalOver
  <1>3. yes \in BOOLEAN /\ no \in BOOLEAN /\ ~no
    OBVIOUS
  <1>4. no = FALSE
    OBVIOUS
  <1> HIDE DEF yes, no
  <1>5. x = PageOf(a, probes, timers, shown, element, owed)
    BY PageIs DEF PageOf
  <1>6. /\ a \in EntryT /\ a.url = entry.url /\ a.painted = entry.painted /\ a.phase = entry.phase
        /\ a.seq = entry.seq /\ a.timer = entry.timer /\ a.verifyIdx = entry.verifyIdx
    BY <1>1, <1>3, Here DEF EntryT
  <1> HIDE DEF a, x
  <1>7. w = PageOf(e, probes, timers, shown, element, owed)
    BY <1>5 DEF PageOf
  <1>8. /\ e \in EntryT /\ e.url = entry.url /\ e.painted = entry.painted /\ e.phase = entry.phase
        /\ e.seq = entry.seq /\ e.timer = entry.timer /\ e.verifyIdx = entry.verifyIdx
    BY <1>3, <1>6 DEF EntryT
  <1>9. e.heal = no
    BY <1>6 DEF EntryT
  <1> HIDE DEF e, w
  <1>10. w.entry = e /\ w.probes = probes /\ w.timers = timers /\ w.shown = shown
         /\ w.element = element /\ w.owed = owed
         /\ w = PageOf(w.entry, w.probes, w.timers, w.shown, w.element, w.owed)
    BY <1>7, PageFields
  <1>11. w \in PageT
    BY <1>1, <1>7, <1>8, Here DEF PageOf, PageT
  <1>12. story = "long" => recheck # "brief" /\ Unspared(w)
    BY <1>1, <1>10, Long, PageIs DEF Unspared
  <1>13. entry.heal \in BOOLEAN
    BY <1>1, Here DEF EntryT
  <1>14. CASE entry.heal
    <2>1. v = PerformReload(w)
      BY <1>14
    <2>2. Healing(Page)
      BY <1>1, <1>14, Here, PageIs DEF PageOK, OneMover, Still, Probing, Timed
    <2>3. Sound(w)
      BY <1>1, <1>8, <1>10, <1>11, Here, PageIs DEF PageOK, Sound, Glass
    <2>4. Still(w)
      BY <1>3, <1>8, <1>9, <1>10, <2>2, PageIs DEF Healing, Still, Overtaken, Untimed
    <2>5. w.entry.painted = w.entry.url
      BY <1>8, <1>10, <2>2, <2>3, PageIs DEF Sound, Glass, Healing
    <2>6. PageOK(v) /\ v.probes = w.probes /\ v.owed = FALSE
      BY <2>1, <2>3, <2>4, <2>5, PerformReloadMoves
    <2> HIDE DEF v
    <2>7. story = "long" => Unspared(v) /\ OnItsWay(v)
      BY <1>12, <2>6 DEF Unspared, OnItsWay
    <2> QED BY <1>1, <1>2, <1>12, <2>6, <2>7, Here, Carry
  <1>15. CASE ~entry.heal
    <2>1. v = w
      BY <1>15
    <2>2. w.entry.heal = entry.heal
      BY <1>4, <1>9, <1>10, <1>13, <1>15
    <2>3. PageOK(w)
      BY <1>1, <1>8, <1>10, <1>11, <2>2, Here, PageIs, AlikeOK
    <2>4. story = "long" => (recheck = "none" => OnItsWay(w))
      BY <1>1, <1>8, <1>10, <2>2, Long, PageIs DEF OnItsWay
    <2> HIDE DEF v
    <2> QED BY <1>1, <1>2, <1>12, <2>1, <2>3, <2>4, Here, Carry
  <1> QED BY <1>14, <1>15

LEMMA ElementEndsKeeps ==
    ASSUME ProberAssumption, ProberInv, story' = story, NEW ok \in BOOLEAN, ElementEnds(ok)
    PROVE  ProberInv'
  <1> DEFINE l == IF ok THEN "good" ELSE "dead"
             el == [element EXCEPT !.load = l]
             w == [Page EXCEPT !.element.load = l]
             v == IF ok \/ kind = "frame" THEN ElementLoaded(w) ELSE ElementError(w)
  <1>1. /\ element # NoElement /\ kind' = kind /\ recheck' = recheck /\ up' = up /\ left' = left
        /\ Becomes(v)
    BY DEF ElementEnds
  <1>2. Present
    BY <1>1 DEF ProberInv
  <1>3. l \in {"good", "dead"}
    OBVIOUS
  <1> HIDE DEF l
  <1>4. w = PageOf(entry, probes, timers, shown, el, owed)
    BY PageIs DEF PageOf
  <1>5. el \in ElementT /\ el.url = element.url
    BY <1>1, <1>2, <1>3, Here DEF ElementT
  <1> HIDE DEF w, el
  <1>6. w.entry = entry /\ w.probes = probes /\ w.timers = timers /\ w.shown = shown
        /\ w.element = el /\ w.owed = owed
    BY <1>4, PageFields
  <1>7. w \in PageT
    BY <1>2, <1>4, <1>5, Here DEF PageOf, PageT
  <1>8. PageOK(w)
    BY <1>2, <1>5, <1>6, <1>7, Here, PageIs, AlikeOK
  <1>9. story = "long" => recheck # "brief" /\ Unspared(w) /\ (recheck = "none" => OnItsWay(w))
    BY <1>2, <1>6, Long, PageIs DEF Unspared, OnItsWay
  <1>10. CASE ok \/ kind = "frame"
    <2> DEFINE x == ElementLoaded(w)
    <2>1. v = x
      BY <1>10
    <2>2. PageOK(x) /\ x.probes = w.probes
      BY <1>8, ElementLoadedMoves
    <2>3. OnItsWay(w) => OnItsWay(x)
      BY <1>8, ElementLoadedMoves DEF OnItsWay
    <2> HIDE DEF x, v
    <2>4. story = "long" => Unspared(x) /\ (recheck = "none" => OnItsWay(x))
      BY <1>9, <2>2, <2>3 DEF Unspared
    <2> QED BY <1>1, <1>2, <1>9, <2>1, <2>2, <2>4, Here, Carry
  <1>11. CASE ~(ok \/ kind = "frame")
    <2> DEFINE x == ElementError(w)
    <2>1. v = x
      BY <1>11
    <2>2. PageOK(x) /\ x.probes = w.probes /\ x.entry.phase = "proving"
      BY <1>8, ElementErrorMoves
    <2> HIDE DEF x, v
    <2>3. story = "long" => Unspared(x) /\ OnItsWay(x)
      BY <1>9, <2>2 DEF Unspared, OnItsWay
    <2> QED BY <1>1, <1>2, <1>9, <2>1, <2>2, <2>3, Here, Carry
  <1> QED BY <1>10, <1>11

(* A probe whose network went: all of it but its prospects stays.          *)
LEMMA DoomedProbe ==
    ASSUME NEW u, NEW p \in ProbeT
    PROVE  LET q == IF p.url = u THEN [p EXCEPT !.doomed = TRUE] ELSE p
           IN  q \in ProbeT /\ q.runs = p.runs /\ q.url = p.url /\ q.seq = p.seq /\ q.spare = p.spare
  <1> DEFINE yes == TRUE
             d == [p EXCEPT !.doomed = yes]
  <1>1. yes \in BOOLEAN
    OBVIOUS
  <1>2. d = [p EXCEPT !.doomed = TRUE]
    OBVIOUS
  <1> HIDE DEF yes
  <1>3. d \in ProbeT /\ d.runs = p.runs /\ d.url = p.url /\ d.seq = p.seq
    BY <1>1 DEF ProbeT
  <1>4. d.spare = p.spare
    BY DEF ProbeT
  <1> HIDE DEF d
  <1> QED BY <1>2, <1>3, <1>4

LEMMA NetDownKeeps ==
    ASSUME ProberAssumption, ProberInv, story' = story, NEW u \in Url, NetDown(u)
    PROVE  ProberInv'
  <1> DEFINE F(p) == IF p.url = u THEN [p EXCEPT !.doomed = TRUE] ELSE p
             yes == TRUE
             d == [element EXCEPT !.doomed = yes]
             v == PageOf(entry, {F(p) : p \in probes}, timers, shown, element', owed)
  <1>1. /\ up' = up \ {u} /\ kind' = kind /\ recheck' = recheck /\ left' \in 0..MaxEvents
        /\ entry' = entry /\ timers' = timers /\ shown' = shown /\ owed' = owed
        /\ probes' = {F(p) : p \in probes}
        /\ element' = IF element.url = u /\ element.load = "loading" THEN d ELSE element
    BY EventLeft DEF NetDown
  <1>2. probes \in SUBSET ProbeT /\ element \in ElementT \cup {NoElement}
    BY Here DEF ProberInv
  <1>3. yes \in BOOLEAN
    OBVIOUS
  <1> HIDE DEF yes
  <1>4. element # NoElement => d \in ElementT /\ d.url = element.url
    BY <1>2, <1>3 DEF ElementT
  <1>5. NoElement.url # u
    BY DEF NoElement, ProberAssumption
  <1> HIDE DEF d
  <1>6. /\ element' \in ElementT \cup {NoElement} /\ element'.url = element.url
        /\ element = NoElement => element' = NoElement
    BY <1>1, <1>2, <1>4, <1>5
  <1>7. \A p \in probes : /\ F(p) \in ProbeT /\ F(p).runs = p.runs /\ F(p).url = p.url
                          /\ F(p).seq = p.seq /\ F(p).spare = p.spare
    BY <1>2, DoomedProbe
  <1> HIDE DEF F
  <1>8. probes' \in SUBSET ProbeT
    BY <1>1, <1>7
  <1>9. Page' = PageOf(entry, probes', timers, shown, element', owed)
    BY <1>1 DEF Page, PageOf
  <1>10. /\ Page'.entry = entry /\ Page'.probes = probes' /\ Page'.timers = timers
         /\ Page'.shown = shown /\ Page'.element = element' /\ Page'.owed = owed
    BY <1>9, PageFields
  <1>11. \A q \in probes' : \E p \in probes : q = F(p)
    BY <1>1
  <1>12. story = "long" => recheck # "brief" /\ Unspared(Page)'
    <2>1. story = "long" => recheck # "brief" /\ \A p \in probes : ~p.spare
      BY PageIs DEF ProberInv, Unspared
    <2>2. (\A p \in probes : ~p.spare) => \A q \in Page'.probes : ~q.spare
      BY <1>7, <1>10, <1>11
    <2> QED BY <2>1, <2>2 DEF Unspared
  <1>13. CASE ~Present
    <2>1. /\ ~Present' /\ timers' = {} /\ element' = NoElement /\ shown' \in Url \cup {NoUrl}
      BY <1>1, <1>6, <1>13 DEF ProberInv, Present
    <2>2. owed' \in BOOLEAN
      BY <1>1, <1>13 DEF ProberInv
    <2> QED BY <1>1, <1>8, <1>12, <2>1, <2>2 DEF ProberInv
  <1>14. CASE Present
    <2> DEFINE w == Page'
    <2>1. w \in PageT
      BY <1>6, <1>8, <1>9, <1>14, Here DEF PageOf, PageT
    <2>2. /\ PageOK(Page) /\ Page.entry = entry /\ Page.probes = probes /\ Page.timers = timers
          /\ Page.element = element
      BY <1>14, Here, PageIs
    <2> HIDE DEF w
    <2>3. Sound(w)
      <3>1. \A p \in probes : p.seq <= entry.seq
        BY <2>2 DEF PageOK, Sound
      <3>2. \A q \in probes' : q.seq <= entry.seq
        BY <1>7, <1>11, <3>1
      <3>3. Glass(w)
        BY <1>6, <1>10, <2>2 DEF PageOK, Sound, Glass, w
      <3> QED BY <1>10, <2>1, <3>2, <3>3 DEF Sound, w
    <2>4. w.entry = entry /\ w.probes = probes' /\ w.timers = timers
      BY <1>10 DEF w
    <2>5. Overtaken(Page) => Overtaken(w)
      BY <1>7, <1>11, <2>2, <2>4 DEF Overtaken
    <2>6. Untimed(Page) => Untimed(w)
      BY <2>2, <2>4 DEF Untimed
    <2>7. Still(Page) => Still(w)
      BY <2>2, <2>4, <2>5, <2>6 DEF Still
    <2>8. Probing(Page) => Probing(w)
      <3> SUFFICES ASSUME Probing(Page)
                   PROVE  Probing(w)
        OBVIOUS
      <3>1. PICK q \in probes : /\ q.seq = entry.seq /\ q.url = entry.url /\ Fits(q.runs, entry)
                                /\ \A p \in probes : p.seq = entry.seq => p = q
        BY <2>2 DEF Probing
      <3>2. F(q) \in probes' /\ F(q).seq = entry.seq /\ F(q).url = entry.url
            /\ F(q).runs = q.runs
        BY <1>1, <1>7, <3>1
      <3>3. \A p \in probes' : p.seq = entry.seq => p = F(q)
        BY <1>7, <1>11, <3>1
      <3> QED BY <2>2, <2>4, <2>6, <3>1, <3>2, <3>3 DEF Probing
    <2>9. Timed(Page) => Timed(w)
      BY <2>2, <2>4, <2>5 DEF Timed
    <2>10. Healing(Page) => Healing(w)
      BY <2>2, <2>4, <2>5, <2>6 DEF Healing
    <2>11. OneMover(w)
      BY <2>2, <2>4, <2>7, <2>8, <2>9, <2>10 DEF PageOK, OneMover
    <2>12. PageOK(Page)'
      BY <2>3, <2>11 DEF PageOK, w
    <2>13. Present' /\ (story = "long" => (recheck = "none" => OnItsWay(Page)'))
      <3>1. Present'
        BY <1>1, <1>14 DEF Present
      <3>2. OnItsWay(Page) => OnItsWay(Page)'
        BY <1>10, PageIs DEF OnItsWay
      <3> QED BY <1>14, <3>1, <3>2, Long
    <2>14. kind' \in {"frame", "media"} /\ story' \in {"long", "brief"} /\ up' \subseteq Url
           /\ recheck' \in {"none", "full", "brief"}
      BY <1>1 DEF ProberInv
    <2> QED BY <1>1, <1>12, <2>12, <2>13, <2>14 DEF ProberInv
  <1> QED BY <1>13, <1>14

LEMMA NetUpKeeps ==
    ASSUME ProberInv, story' = story, NEW u \in Url, NetUp(u)
    PROVE  ProberInv'
  <1>1. /\ up' \subseteq Url /\ UNCHANGED <<kind, entry, probes, timers, recheck, shown>>
        /\ UNCHANGED <<element, left, owed>>
    BY DEF NetUp, ProberInv
  <1>2. Page' = Page /\ Present' = Present
    BY <1>1 DEF Page, Present
  <1> QED BY <1>1, <1>2 DEF ProberInv

LEMMA StepInvariant ==
    ASSUME ProberAssumption, ProberInv, [MCNext]_<<vars, story>>
    PROVE  ProberInv'
  <1>1. CASE UNCHANGED <<vars, story>>
    <2>1. /\ UNCHANGED <<kind, entry, probes, timers, recheck, shown>>
          /\ UNCHANGED <<element, up, left, owed, story>>
      BY <1>1 DEF vars
    <2>2. Page' = Page /\ Present' = Present
      BY <2>1 DEF Page, Present
    <2> QED BY <2>1, <2>2 DEF ProberInv
  <1>2. CASE MCNext
    <2>1. /\ Next /\ story' = story /\ (story = "long" => recheck' # "brief")
          /\ (~Present /\ entry' # NoEntry => shown = NoUrl /\ probes = {})
      BY <1>2 DEF MCNext
    <2>2. CASE Vanish
      BY <2>1, <2>2, VanishKeeps
    <2>3. ASSUME NEW u \in Url, Appear(u) PROVE ProberInv'
      BY <2>1, <2>3, AppearKeeps
    <2>4. ASSUME NEW u \in Url, Retarget(u) PROVE ProberInv'
      BY <2>1, <2>4, RetargetKeeps
    <2>5. CASE Hint("full")
      BY <2>1, <2>5, HintKeeps
    <2>6. CASE Hint("brief")
      BY <2>1, <2>6, HintKeeps
    <2>7. CASE RefreshDue
      BY <2>1, <2>7, RefreshDueKeeps
    <2>8. CASE Recheck
      BY <2>1, <2>8, RecheckKeeps
    <2>9. ASSUME NEW p \in probes, NEW ok \in BOOLEAN, Land(p, ok) PROVE ProberInv'
      BY <2>1, <2>9, LandKeeps
    <2>10. ASSUME NEW t \in timers, Fire(t) PROVE ProberInv'
      BY <2>1, <2>10, FireKeeps
    <2>11. CASE IntervalOver
      BY <2>1, <2>11, IntervalOverKeeps
    <2>12. ASSUME NEW ok \in BOOLEAN, ElementEnds(ok) PROVE ProberInv'
      BY <2>1, <2>12, ElementEndsKeeps
    <2>13. ASSUME NEW u \in Url, NetDown(u) PROVE ProberInv'
      BY <2>1, <2>13, NetDownKeeps
    <2>14. ASSUME NEW u \in Url, NetUp(u) PROVE ProberInv'
      BY <2>1, <2>14, NetUpKeeps
    <2> QED BY <2>1, <2>2, <2>3, <2>4, <2>5, <2>6, <2>7, <2>8, <2>9, <2>10, <2>11, <2>12, <2>13,
               <2>14 DEF Next, Slice, Doubt, Lands, Fires, Browser, Network
  <1> QED BY <1>1, <1>2

(* A surface is moved on by one thing at a time, its glass shows what was  *)
(* proved, and (hints in full) an owed reload is on its way: whatever the  *)
(* order of edits, doubts, results, timers, loads and outages.             *)
THEOREM ProberInvariant == MCSpec => []ProberInv
  <1> USE ProberAssumption
  <1>1. MCInit => ProberInv
    BY InitInvariant
  <1>2. ProberInv /\ [MCNext]_<<vars, story>> => ProberInv'
    BY StepInvariant
  <1> QED BY <1>1, <1>2, PTL DEF MCSpec

-----------------------------------------------------------------------------
(* What the invariant gives. *)

LEMMA InvTypes ==
    ASSUME ProberAssumption, ProberInv
    PROVE  TypeOK
  <1>1. CASE Present
    <2>1. /\ entry \in EntryT /\ probes \in SUBSET ProbeT /\ timers \in SUBSET TimerT
          /\ shown \in Url \cup {NoUrl} /\ element \in ElementT \cup {NoElement} /\ owed \in BOOLEAN
      BY <1>1, Here
    <2>2. /\ entry.url \in Url /\ entry.painted \in Url \cup {NoUrl}
          /\ entry.phase \in {"proving", "verifying", "steady"}
          /\ entry.health \in {"unknown", "reachable", "unreachable"}
          /\ entry.timer \in TimerId \cup {0}
          /\ entry.verifyIdx \in 0..Verifies /\ entry.seq \in Nat
      BY <2>1 DEF EntryT, Phase, Verdict
    <2>3. {entry.failing, entry.heal, entry.rested} \subseteq BOOLEAN
      <3>1. entry.failing \in BOOLEAN
        BY <2>1 DEF EntryT
      <3>2. entry.heal \in BOOLEAN
        BY <2>1 DEF EntryT
      <3>3. entry.rested \in BOOLEAN
        BY <2>1 DEF EntryT
      <3> QED BY <3>1, <3>2, <3>3
    <2>4. /\ \A p \in probes : p.url \in Url /\ p.runs \in {"prove", "verify"}
          /\ \A t \in timers : t.id \in TimerId /\ t.runs \in {"prove", "verify"}
          /\ element # NoElement => element.load \in {"loading", "good", "dead"}
      BY <2>1 DEF ProbeT, TimerT, ElementT, Runs
    <2> QED BY <2>1, <2>2, <2>3, <2>4 DEF ProberInv, TypeOK
  <1>2. CASE ~Present
    <2>1. owed \in BOOLEAN
      BY <1>2 DEF ProberInv
    <2>2. /\ \A p \in probes : p.url \in Url /\ p.runs \in {"prove", "verify"}
          /\ timers = {} /\ shown \in Url \cup {NoUrl} /\ element = NoElement
      BY <1>2 DEF ProberInv, ProbeT, Runs
    <2> QED BY <1>2, <2>1, <2>2 DEF ProberInv, TypeOK
  <1> QED BY <1>1, <1>2

LEMMA InvOneThread ==
    ASSUME ProberAssumption, ProberInv
    PROVE  OneThread
  <1> SUFFICES ASSUME Present
               PROVE  Cardinality(Pending) + Cardinality(timers) + (IF entry.heal THEN 1 ELSE 0)
                         = IF entry.phase = "steady" THEN 0 ELSE 1
    BY DEF OneThread
  <1>1. OneMover(Page) /\ Page.entry = entry /\ Page.probes = probes /\ Page.timers = timers
    BY Here, PageIs DEF PageOK
  <1>2. Pending = {p \in probes : p.seq = entry.seq}
    BY DEF Pending, Current
  <1>3. Cardinality({}) = 0
    BY FS_EmptySet
  <1>4. CASE entry.phase = "steady"
    <2>1. Still(Page)
      BY <1>1, <1>4 DEF OneMover
    <2>2. Pending = {} /\ timers = {} /\ ~entry.heal
      BY <1>1, <1>2, <2>1 DEF Still, Overtaken, Untimed
    <2> QED BY <1>3, <1>4, <2>2
  <1>5. CASE entry.phase # "steady"
    <2>1. Probing(Page) \/ Timed(Page) \/ Healing(Page)
      BY <1>1, <1>5 DEF OneMover
    <2>2. CASE Probing(Page)
      <3>1. PICK q \in probes : q.seq = entry.seq /\ \A p \in probes : p.seq = entry.seq => p = q
        BY <1>1, <2>2 DEF Probing
      <3>2. Pending = {q}
        BY <1>2, <3>1
      <3>3. Cardinality(Pending) = 1
        BY <3>2, FS_Singleton
      <3>4. timers = {} /\ ~entry.heal
        BY <1>1, <2>2 DEF Probing, Untimed
      <3> QED BY <1>3, <1>5, <3>3, <3>4
    <2>3. CASE Timed(Page)
      <3>1. PICK t \in timers : timers = {t}
        BY <1>1, <2>3 DEF Timed
      <3>2. Cardinality(timers) = 1
        BY <3>1, FS_Singleton
      <3>3. Pending = {} /\ ~entry.heal
        BY <1>1, <1>2, <2>3 DEF Timed, Overtaken
      <3> QED BY <1>3, <1>5, <3>2, <3>3
    <2>4. CASE Healing(Page)
      <3>1. Pending = {} /\ timers = {} /\ entry.heal
        BY <1>1, <1>2, <2>4 DEF Healing, Overtaken, Untimed
      <3> QED BY <1>3, <1>5, <3>1
    <2> QED BY <2>1, <2>2, <2>3, <2>4
  <1> QED BY <1>4, <1>5

(* A surface that is not settled has exactly one thing that will move it   *)
(* on, and a settled one none, for any urls, spot checks and events: the   *)
(* sequence numbers of surface-prober.ts overtake every late answer.       *)
THEOREM OneThreadOfDoubtHolds == MCSpec => []OneThreadOfDoubt
  <1> USE ProberAssumption
  <1>1. ProberInv => OneThreadOfDoubt
    BY InvTypes, InvOneThread DEF OneThreadOfDoubt
  <1> QED BY <1>1, ProberInvariant, PTL

(* The element shows the url that was proved, and at rest the one the      *)
(* operator gave, for any urls, spot checks and events.                    *)
THEOREM GlassShowsWhatWasProved == MCSpec => []GlassRight
  <1> USE ProberAssumption
  <1>1. ProberInv => GlassRight
    <2> SUFFICES ASSUME ProberInv
                 PROVE  GlassRight
      OBVIOUS
    <2>1. element # NoElement => Present
      BY DEF ProberInv
    <2>2. Present => /\ element.url = entry.painted
                     /\ entry.phase = "steady" => entry.painted = entry.url
      BY Here, PageIs DEF PageOK, Sound, Glass
    <2> QED BY <2>1, <2>2 DEF GlassRight, GlassAsProved, SteadyShowsTarget
  <1> QED BY <1>1, ProberInvariant, PTL

(* No surface comes to rest with a reload owed, unless a brief outage told *)
(* the probe to spare the glass: for any urls, spot checks and events.     *)
THEOREM HealsAreKept == MCSpec => []HealNeverDroppedLong
  <1> USE ProberAssumption
  <1>1. ProberInv => HealNeverDroppedLong
    <2> SUFFICES ASSUME ProberInv, story = "long", Present, entry.phase = "steady", recheck = "none"
                 PROVE  ~owed
      BY DEF HealNeverDroppedLong, HealNeverDropped
    <2>1. owed => entry.phase = "proving" \/ entry.heal
      BY Long, PageIs DEF OnItsWay
    <2>2. ~entry.heal
      BY Here, PageIs DEF PageOK, OneMover, Still
    <2> QED BY <2>1, <2>2
  <1> QED BY <1>1, ProberInvariant, PTL
=============================================================================
