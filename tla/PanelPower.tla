----------------------------- MODULE PanelPower -----------------------------
(***************************************************************************)
(* Scheduled and manual panel power: the server's PanelPowerScheduler      *)
(* (panel-power.ts), the power half of the SceneScheduler's tick           *)
(* (scheduler.ts), the admit path of an agent's hello and the power-ack    *)
(* and close handlers (ws.ts), and the box that executes the commands.     *)
(*                                                                         *)
(* The schedule itself is an input here: verdict[w] is what resolveMuralAt *)
(* answers for mural w at this moment ("none" = no enabled window governs  *)
(* it, or the master switch is off).  It moves when a boundary passes or   *)
(* when an operator edits, deletes or switches off windows; the module     *)
(* ScheduleResolver models how it is computed.                             *)
(*                                                                         *)
(* A screen is one connector of one approved machine, and it carries       *)
(* content, so ensureScreens never prunes it.                              *)
(***************************************************************************)
EXTENDS Naturals, Sequences, FiniteSets

CONSTANTS
    Screen,         \* the registered screens
    Mural,          \* the walls screens are placed on
    Machine,        \* the approved machines
    home,           \* home[s]: the machine whose connector screen s is
    NoMural,        \* placement of an unplaced screen
    Events,         \* which of AllEvents the environment of this instance has
    MaxFrames       \* bound: commands (and acks) in flight per screen

Verdict   == {"on", "off", "none"}
AllEvents == {"boundary", "move", "manual", "drop", "halfopen", "lose", "refuse",
              "reboot", "hotplug", "restart"}

ASSUME HomeAssumption   == home \in [Screen -> Machine]
ASSUME MuralAssumption  == NoMural \notin Mural
ASSUME EventsAssumption == Events \subseteq AllEvents
ASSUME BoundAssumption  == MaxFrames \in Nat \ {0}

VARIABLES
    verdict,        \* [Mural -> Verdict]: what the schedule says right now
    placement,      \* [Screen -> Mural or NoMural]
    outputs,        \* screens whose connector the server believes advertised
    lastDesired,    \* PanelPowerScheduler.lastDesired
    ticking,        \* murals the running tick has still to evaluate
    seen,           \* the verdicts the running tick captured at its start
    live,           \* machines whose newest socket works both ways
    halfOpen,       \* machines with a dead socket the server still counts
    admitting,      \* machine -> the hello between registerMachine and reconcile
    asleep,         \* Presence.asleep: what the console shows
    cmds,           \* server/display-power frames in flight, per screen
    acks,           \* agent/power-ack frames in flight, per screen
    said,           \* connectors the agent last advertised (this.outputs)
    present,        \* connectors the compositor has now
    panel,          \* the glass: "lit", or who it was darkened by
    override        \* history: screens an operator has just overridden

serverVars == <<outputs, lastDesired, ticking, seen, admitting, asleep>>
linkVars   == <<live, halfOpen>>
boxVars    == <<said, present, panel>>
inputVars  == <<verdict, placement>>
vars == <<inputVars, serverVars, linkVars, cmds, acks, boxVars, override>>

-----------------------------------------------------------------------------
(* Types *)

Author   == {"schedule", "operator"}
Command  == [on : BOOLEAN, by : Author]
Ack      == [on : BOOLEAN, ok : BOOLEAN]
Opinion  == [mural : Mural, desired : BOOLEAN]
NoRecord == [mural |-> NoMural, desired |-> TRUE]
Idle     == [hello |-> FALSE, rebound |-> {}]

TypeOK ==
    /\ verdict \in [Mural -> Verdict]
    /\ placement \in [Screen -> Mural \cup {NoMural}]
    /\ outputs \subseteq Screen
    /\ lastDesired \in [Screen -> Opinion \cup {NoRecord}]
    /\ ticking \subseteq Mural
    /\ seen \in [Mural -> Verdict]
    /\ live \subseteq Machine
    /\ halfOpen \subseteq Machine
    /\ admitting \in [Machine -> [hello : BOOLEAN, rebound : SUBSET Screen]]
    /\ asleep \subseteq Screen
    /\ cmds \in [Screen -> Seq(Command)]
    /\ acks \in [Screen -> Seq(Ack)]
    /\ said \subseteq Screen
    /\ present \subseteq Screen
    /\ panel \in [Screen -> {"lit"} \cup Author]
    /\ override \subseteq Screen

Connectors(m) == {s \in Screen : home[s] = m}
Online(m)     == m \in live \cup halfOpen

(* What the schedule wants of a screen now: the verdict of its wall. *)
DesiredFor(s) == IF placement[s] = NoMural THEN "none" ELSE verdict[placement[s]]

-----------------------------------------------------------------------------
(* Sending.  A frame is delivered when the hub has an open socket for the  *)
(* machine and the connector is advertised; it is in flight only when that *)
(* socket really works.                                                    *)

Delivers(s) == Online(home[s]) /\ s \in outputs
HasRoom(s)  == Len(cmds[s]) < MaxFrames

Push(s, on, by) ==
    IF Delivers(s) /\ home[s] \in live
    THEN Append(cmds[s], [on |-> on, by |-> by])
    ELSE cmds[s]

(* What one pass over a screen decides: the memory it leaves and the       *)
(* command it sends, if any.                                               *)
Quiet(rec) == [record |-> rec, send |-> "quiet"]
Say(rec, v) == [record |-> rec, send |-> v]

(* Mutant: the record goes although the wake reached nobody. *)
ReleaseForgetsOffline(s) ==
    IF lastDesired[s] = NoRecord \/ lastDesired[s].desired
    THEN Quiet(NoRecord)
    ELSE Say(NoRecord, "on")

(* Mutant: only the wall that slept a screen may wake it. *)
ReleaseOwnWallOnly(s) ==
    IF lastDesired[s] = NoRecord \/ lastDesired[s].desired \/ lastDesired[s].mural # placement[s]
    THEN Quiet(NoRecord)
    ELSE IF Delivers(s) THEN Say(NoRecord, "on") ELSE Say(lastDesired[s], "on")

ReleaseScreen(s) ==
    IF lastDesired[s] = NoRecord \/ lastDesired[s].desired
    THEN Quiet(NoRecord)
    ELSE IF Delivers(s) THEN Say(NoRecord, "on") ELSE Say(lastDesired[s], "on")

(* Mutant: a verdict from another wall is taken for a first sight. *)
ApplyPerWall(s, w, panels) ==
    LET want == [mural |-> w, desired |-> panels = "on"] IN
    IF panels = "none" THEN ReleaseScreen(s)
    ELSE IF lastDesired[s].mural # w \/ lastDesired[s].desired = want.desired
         THEN Quiet(want)
         ELSE Say(want, panels)

(* Mutant: the desired state is asserted again on every tick. *)
ApplyEveryTick(s, w, panels) ==
    IF panels = "none" THEN ReleaseScreen(s)
    ELSE Say([mural |-> w, desired |-> panels = "on"], panels)

ApplyMuralPower(s, w, panels) ==
    LET want == [mural |-> w, desired |-> panels = "on"] IN
    IF panels = "none" THEN ReleaseScreen(s)
    ELSE IF lastDesired[s] = NoRecord \/ lastDesired[s].desired = want.desired
         THEN Quiet(want)
         ELSE Say(want, panels)

(* Mutant: an unplaced screen is not told apart from an off window. *)
ReconcileUnplaced(s, rebound) ==
    IF DesiredFor(s) = "on"
    THEN Quiet([mural |-> placement[s], desired |-> TRUE])
    ELSE Say([mural |-> placement[s], desired |-> FALSE], "off")

(* Mutant: a box whose sleep is on record is not slept again. *)
ReconcileUnrecorded(s, rebound) ==
    LET v    == DesiredFor(s)
        want == [mural |-> placement[s], desired |-> v = "on"]
    IN
    IF v = "none" THEN ReleaseScreen(s)
    ELSE IF v = "off" /\ (lastDesired[s] = NoRecord \/ lastDesired[s].desired)
         THEN IF Delivers(s) THEN Say(want, "off") ELSE Say(lastDesired[s], "off")
         ELSE Quiet(want)

ReconcileMachine(s, rebound) ==
    LET v    == DesiredFor(s)
        want == [mural |-> placement[s], desired |-> v = "on"]
    IN
    IF s \in rebound
    THEN IF v = "none" THEN Quiet(lastDesired[s]) ELSE Say(want, v)
    ELSE IF v = "none" THEN ReleaseScreen(s)
    ELSE IF v = "off"
         THEN IF Delivers(s) THEN Say(want, "off") ELSE Say(lastDesired[s], "off")
         ELSE Quiet(want)

(* Carry out the decisions made for some screens (a function on them). *)
Carry(decision) ==
    LET S == DOMAIN decision IN
    /\ \A s \in S : decision[s].send # "quiet" => HasRoom(s)
    /\ lastDesired' = [s \in Screen |-> IF s \in S THEN decision[s].record
                                                   ELSE lastDesired[s]]
    /\ cmds' = [s \in Screen |->
                  IF s \in S /\ decision[s].send # "quiet"
                  THEN Push(s, decision[s].send = "on", "schedule")
                  ELSE cmds[s]]

-----------------------------------------------------------------------------
(* The server boots with its store loaded: the machines are known and      *)
(* their outputs are the ones they last advertised.  Nobody is connected.  *)
StartWith(connected) ==
    /\ verdict \in [Mural -> Verdict]
    /\ placement \in [Screen -> Mural \cup {NoMural}]
    /\ outputs = Screen
    /\ lastDesired = [s \in Screen |-> NoRecord]
    /\ ticking = {}
    /\ seen = [w \in Mural |-> "none"]
    /\ live = connected
    /\ halfOpen = {}
    /\ admitting = [m \in Machine |-> Idle]
    /\ asleep = {}
    /\ cmds = [s \in Screen |-> <<>>]
    /\ acks = [s \in Screen |-> <<>>]
    /\ said = Screen
    /\ present = Screen
    /\ panel = [s \in Screen |-> "lit"]
    /\ override = {}

Init == StartWith({})

-----------------------------------------------------------------------------
(* Inputs: the clock and the operator's edits of windows, the placements,  *)
(* and the manual wake and sleep of the console.                           *)

ScheduleMoves ==
    /\ "boundary" \in Events
    /\ \E w \in Mural : \E v \in Verdict \ {verdict[w]} :
          verdict' = [verdict EXCEPT ![w] = v]
    /\ override' = {s \in override :
                      placement[s] # NoMural => verdict'[placement[s]] = verdict[placement[s]]}
    /\ UNCHANGED <<placement, serverVars, linkVars, cmds, acks, boxVars>>

PlaceScreen(s, w) ==
    /\ "move" \in Events
    /\ placement[s] # w
    /\ placement' = [placement EXCEPT ![s] = w]
    /\ override' = override \ {s}
    /\ UNCHANGED <<verdict, serverVars, linkVars, cmds, acks, boxVars>>

(* Would the schedule say nothing about s if it were evaluated now?  Ticks *)
(* never visit an unplaced screen, whatever the memory holds for it.       *)
ScheduleRests(s) ==
    /\ ticking = {}
    /\ placement[s] # NoMural =>
          IF DesiredFor(s) = "none"
          THEN lastDesired[s] = NoRecord
          ELSE /\ lastDesired[s] # NoRecord
               /\ lastDesired[s].desired = (DesiredFor(s) = "on")

(* Mutant: the operator's command is recorded as the schedule's opinion. *)
ManualPowerRecorded(s, on) ==
    /\ "manual" \in Events
    /\ Delivers(s)
    /\ HasRoom(s)
    /\ cmds' = [cmds EXCEPT ![s] = Push(s, on, "operator")]
    /\ lastDesired' = [lastDesired EXCEPT ![s] =
                          IF placement[s] = NoMural THEN @
                          ELSE [mural |-> placement[s], desired |-> on]]
    /\ override' = IF ScheduleRests(s) /\ ~admitting[home[s]].hello
                   THEN override \cup {s} ELSE override
    /\ UNCHANGED <<inputVars, outputs, ticking, seen, admitting, asleep,
                   linkVars, acks, boxVars>>

ManualPower(s, on) ==
    /\ "manual" \in Events
    /\ Delivers(s)
    /\ HasRoom(s)
    /\ cmds' = [cmds EXCEPT ![s] = Push(s, on, "operator")]
    /\ override' = IF ScheduleRests(s) /\ ~admitting[home[s]].hello
                   THEN override \cup {s} ELSE override
    /\ UNCHANGED <<inputVars, serverVars, linkVars, acks, boxVars>>

-----------------------------------------------------------------------------
(* The ticker.  A tick captures the schedule once and then walks the       *)
(* murals; applying a wall's scene awaits, so other handlers run between   *)
(* one mural's power and the next one's.  `running` makes overlapping      *)
(* ticks and kicks no-ops: a tick starts only when none is under way.      *)

MuralStep(w, v) ==
    Carry([s \in {x \in Screen : placement[x] = w} |-> ApplyMuralPower(s, w, v)])

(* The verdicts a tick keeps for the murals it has still to evaluate.      *)
Remember(S, v) == [w \in Mural |-> IF w \in S THEN v[w] ELSE "none"]

TickStart(w) ==
    /\ ticking = {}
    /\ MuralStep(w, verdict[w])
    /\ ticking' = Mural \ {w}
    /\ seen' = Remember(Mural \ {w}, verdict)
    /\ UNCHANGED <<inputVars, outputs, admitting, asleep, linkVars,
                   acks, boxVars, override>>

TickMural(w) ==
    /\ w \in ticking
    /\ MuralStep(w, seen[w])
    /\ ticking' = ticking \ {w}
    /\ seen' = Remember(ticking \ {w}, seen)
    /\ UNCHANGED <<inputVars, outputs, admitting, asleep, linkVars,
                   acks, boxVars, override>>

-----------------------------------------------------------------------------
(* An agent's hello.  Everything up to the await of registerMachine's      *)
(* writes happens at once: the hub and presence entries, the advertised    *)
(* outputs and which connectors came back.  reconcileMachine runs after.   *)

Hello(m, adv) ==
    /\ ~admitting[m].hello
    /\ outputs' = (outputs \ Connectors(m)) \cup adv
    /\ admitting' = [admitting EXCEPT ![m] =
                       [hello |-> TRUE, rebound |-> adv \ outputs]]
    /\ override' = override \ Connectors(m)

Connect(m) ==
    /\ m \notin live
    /\ live' = live \cup {m}
    /\ Hello(m, said \cap Connectors(m))
    /\ UNCHANGED <<inputVars, lastDesired, ticking, seen, asleep, halfOpen,
                   cmds, acks, boxVars>>

Rediscover(m) ==
    LET now == present \cap Connectors(m) IN
    /\ m \in live
    /\ now # {} /\ now # said \cap Connectors(m)
    /\ said' = (said \ Connectors(m)) \cup now
    /\ Hello(m, now)
    /\ UNCHANGED <<inputVars, lastDesired, ticking, seen, asleep, linkVars,
                   cmds, acks, present, panel>>

AdmitDone(m) ==
    /\ admitting[m].hello
    /\ IF outputs \cap Connectors(m) = {}
       THEN UNCHANGED <<lastDesired, cmds>>
       ELSE Carry([s \in Connectors(m) |-> ReconcileMachine(s, admitting[m].rebound)])
    /\ admitting' = [admitting EXCEPT ![m] = Idle]
    /\ UNCHANGED <<inputVars, outputs, ticking, seen, asleep, linkVars,
                   acks, boxVars, override>>

-----------------------------------------------------------------------------
(* The box.  It executes the oldest command for a connector; a connector   *)
(* the compositor does not have, or a compositor that fails, is refused.   *)

Executes(s, ok) ==
    LET c == Head(cmds[s]) IN
    /\ home[s] \in live
    /\ cmds[s] # <<>>
    /\ Len(acks[s]) < MaxFrames
    /\ ok => s \in present
    /\ ~ok => s \notin present \/ "refuse" \in Events
    /\ panel' = IF ~ok THEN panel
                ELSE [panel EXCEPT ![s] = IF c.on THEN "lit" ELSE c.by]
    /\ cmds' = [cmds EXCEPT ![s] = Tail(@)]
    /\ acks' = [acks EXCEPT ![s] = Append(@, [on |-> c.on, ok |-> ok])]
    /\ UNCHANGED <<inputVars, serverVars, linkVars, said, present, override>>

(* Mutant: a refused sleep is shown as a sleep. *)
PowerAckUnchecked(s) ==
    LET a == Head(acks[s]) IN
    /\ acks[s] # <<>>
    /\ asleep' = IF ~a.on THEN asleep \cup {s} ELSE asleep \ {s}
    /\ lastDesired' = lastDesired
    /\ acks' = [acks EXCEPT ![s] = Tail(@)]
    /\ UNCHANGED <<inputVars, outputs, ticking, seen, admitting, linkVars,
                   cmds, boxVars, override>>

PowerAck(s) ==
    LET a == Head(acks[s]) IN
    /\ acks[s] # <<>>
    /\ asleep' = IF a.ok /\ ~a.on THEN asleep \cup {s} ELSE asleep \ {s}
    /\ lastDesired' = IF a.ok THEN lastDesired ELSE [lastDesired EXCEPT ![s] = NoRecord]
    /\ acks' = [acks EXCEPT ![s] = Tail(@)]
    /\ UNCHANGED <<inputVars, outputs, ticking, seen, admitting, linkVars,
                   cmds, boxVars, override>>

-----------------------------------------------------------------------------
(* Failures *)

(* Frames between server and box die with the socket that carries them.    *)
LoseFrames(m) ==
    /\ cmds' = [s \in Screen |-> IF home[s] = m THEN <<>> ELSE cmds[s]]
    /\ acks' = [s \in Screen |-> IF home[s] = m THEN <<>> ELSE acks[s]]

NoFrames(m) == \A s \in Connectors(m) : cmds[s] = <<>> /\ acks[s] = <<>>

(* Mutant: presence keeps the sleeps of a machine that went away. *)
OfflineRemembers(m, stillOpen) == asleep' = asleep

(* The close handler: on the true offline edge the console forgets which   *)
(* panels were asleep.                                                     *)
Offline(m, stillOpen) ==
    asleep' = IF stillOpen THEN asleep ELSE asleep \ Connectors(m)

(* The socket dies and the server sees it close. *)
Drop(m) ==
    /\ "drop" \in Events
    /\ m \in live
    /\ "lose" \in Events \/ NoFrames(m)
    /\ live' = live \ {m}
    /\ LoseFrames(m)
    /\ Offline(m, m \in halfOpen)
    /\ UNCHANGED <<inputVars, outputs, lastDesired, ticking, seen, admitting,
                   halfOpen, boxVars, override>>

(* The path dies silently: the server goes on counting the socket as open. *)
GoHalfOpen(m) ==
    /\ "halfopen" \in Events
    /\ m \in live \ halfOpen
    /\ live' = live \ {m}
    /\ halfOpen' = halfOpen \cup {m}
    /\ LoseFrames(m)
    /\ UNCHANGED <<inputVars, serverVars, boxVars, override>>

NoticeClose(m) ==
    /\ m \in halfOpen
    /\ halfOpen' = halfOpen \ {m}
    /\ Offline(m, m \in live)
    /\ UNCHANGED <<inputVars, outputs, lastDesired, ticking, seen, admitting,
                   live, cmds, acks, boxVars, override>>

(* The box restarts: the compositor comes back lit, and the first hello    *)
(* may precede its outputs.                                                *)
Reboot(m) ==
    /\ "reboot" \in Events
    /\ m \notin live
    /\ panel' = [s \in Screen |-> IF home[s] = m THEN "lit" ELSE panel[s]]
    /\ \E adv \in {{}, present \cap Connectors(m)} :
          said' = (said \ Connectors(m)) \cup adv
    /\ UNCHANGED <<inputVars, serverVars, linkVars, cmds, acks, present, override>>

(* A panel switched off at the wall drops its connector; it comes back as  *)
(* a new, lit output.                                                      *)
Unplug(s) ==
    /\ "hotplug" \in Events
    /\ s \in present
    /\ present' = present \ {s}
    /\ UNCHANGED <<inputVars, serverVars, linkVars, cmds, acks, said, panel, override>>

Replug(s) ==
    /\ s \notin present
    /\ present' = present \cup {s}
    /\ panel' = [panel EXCEPT ![s] = "lit"]
    /\ UNCHANGED <<inputVars, serverVars, linkVars, cmds, acks, said, override>>

(* The server process restarts: the scheduler's memory, presence and the   *)
(* sockets go; placements, windows and advertised outputs are in the store.*)
ServerRestart ==
    /\ "restart" \in Events
    /\ lastDesired' = [s \in Screen |-> NoRecord]
    /\ ticking' = {}
    /\ seen' = [w \in Mural |-> "none"]
    /\ admitting' = [m \in Machine |-> Idle]
    /\ asleep' = {}
    /\ live' = {}
    /\ halfOpen' = {}
    /\ cmds' = [s \in Screen |-> <<>>]
    /\ acks' = [s \in Screen |-> <<>>]
    /\ override' = {}
    /\ UNCHANGED <<inputVars, outputs, boxVars>>

-----------------------------------------------------------------------------
Tick == \E w \in Mural : TickStart(w) \/ TickMural(w)

Session(m) == Connect(m) \/ Rediscover(m) \/ AdmitDone(m) \/ NoticeClose(m)

Box(s) == (\E ok \in BOOLEAN : Executes(s, ok)) \/ PowerAck(s)

Operator ==
    \E s \in Screen :
        \/ \E w \in Mural \cup {NoMural} : PlaceScreen(s, w)
        \/ \E on \in BOOLEAN : ManualPower(s, on)

Failure ==
    \/ \E m \in Machine : Drop(m) \/ GoHalfOpen(m) \/ Reboot(m)
    \/ \E s \in Screen : Unplug(s)
    \/ ServerRestart

Next ==
    \/ ScheduleMoves
    \/ Operator
    \/ Tick
    \/ \E m \in Machine : Session(m)
    \/ \E s \in Screen : Box(s) \/ Replug(s)
    \/ Failure

Spec == Init /\ [][Next]_vars

-----------------------------------------------------------------------------
(* Properties *)

(* Nothing is on its way to the screen or its box, the box is connected    *)
(* and its output exists, and no tick would say anything more about it.    *)
Settled(s) ==
    /\ ScheduleRests(s)
    /\ home[s] \in live \ halfOpen
    /\ ~admitting[home[s]].hello
    /\ cmds[s] = <<>> /\ acks[s] = <<>>
    /\ s \in present \cap outputs

(* A screen that should be showing content is never left dark by the       *)
(* schedule: once everything has settled inside a wall's hours, no panel   *)
(* is still in the sleep a window put it in (panel-power.ts, the rule).    *)
NeverStrandedInHours ==
    \A s \in Screen : Settled(s) /\ DesiredFor(s) = "on" => panel[s] # "schedule"

(* Wake what the schedule slept: a screen on a wall that lost its windows  *)
(* does not stay in the sleep one of them put it in.                       *)
NeverStrandedUngoverned ==
    \A s \in Screen :
        Settled(s) /\ DesiredFor(s) = "none" /\ placement[s] # NoMural
            => panel[s] # "schedule"

(* The console shows a panel as asleep only while its box is connected:    *)
(* on the offline edge the close handler forgets, and no late ack brings   *)
(* the sleep back.                                                         *)
AsleepOnlyOnline == \A s \in asleep : Online(home[s])

(* Never show a wall as dark when it is lit: with no ack still under way,  *)
(* a panel the console shows asleep is dark.                               *)
AsleepMeansDark ==
    \A s \in asleep : acks[s] = <<>> /\ s \in present => panel[s] # "lit"

(* A manual wake or sleep holds until the next boundary: after an operator *)
(* overrides a screen the schedule has nothing to say about, the schedule  *)
(* sends that screen nothing until the verdict on it changes, it is moved, *)
(* or its box says hello again.                                            *)
ScheduleSpeaksTo(s) ==
    /\ Len(cmds'[s]) > Len(cmds[s])
    /\ cmds'[s][Len(cmds'[s])].by = "schedule"

OverrideHolds == [][\A s \in override : ~ScheduleSpeaksTo(s)]_vars

(* A box that comes back inside an off window is slept again.              *)
HelloOutOfHoursSleeps ==
    \A s \in Screen :
        /\ admitting[home[s]].hello /\ s \in outputs
        /\ home[s] \in live /\ DesiredFor(s) = "off"
        ~> \/ panel[s] # "lit"
           \/ DesiredFor(s) # "off"
           \/ home[s] \notin live
           \/ s \notin outputs \cap present

(* A screen the schedule slept, on a wall that has since lost its windows, *)
(* does not stay dark for good while its box is connected, also when the   *)
(* box was away at the time: the kept record lets a later hello finish the *)
(* wake.  (Hours that begin unseen by the box are another matter: see      *)
(* NeverStrandedInHours.)                                                  *)
Released(s) ==
    /\ panel[s] = "schedule"
    /\ placement[s] # NoMural /\ DesiredFor(s) = "none"
    /\ home[s] \in live /\ s \in outputs \cap present

ReleasedScreenWakes ==
    \A s \in Screen : [](DesiredFor(s) # "on") => []<>~Released(s)
=============================================================================
