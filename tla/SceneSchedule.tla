---------------------------- MODULE SceneSchedule ----------------------------
(***************************************************************************)
(* The content half of the SceneScheduler (server/src/scheduler.ts), over   *)
(* the layout of Murals: the ticker is one more client, and a scheduled     *)
(* apply is the very handler an operator's Apply runs, with all its awaits. *)
(*                                                                         *)
(* wanted[m] is the scene resolveMuralAt answers for mural m at this moment *)
(* (a window's or the default one; it belongs to m), or NoScene.  It moves  *)
(* when a boundary passes and when an operator edits windows.  A kick and a *)
(* tick of the interval are the same step: either may come at any time.     *)
(***************************************************************************)
EXTENDS Murals

CONSTANTS
    Ticker,         \* the client whose handler is the tick's apply
    Inputs          \* which of AllInputs this instance has

AllInputs == {"boundary", "switch", "restart"}

ASSUME TickerAssumption == Ticker \in Client
ASSUME InputsAssumption == Inputs \subseteq AllInputs

VARIABLES
    wanted,         \* [Mural -> SceneId or NoScene]: what the schedule says now
    enabled,        \* the master switch
    lastVerdicts,   \* SceneScheduler.lastVerdicts (absent and null are alike)
    tour,           \* the running tick: the murals left and the verdicts it saw
    spoken          \* history: murals a tick has evaluated under their verdict

tickVars     == <<lastVerdicts, tour, spoken>>
scheduleVars == <<wanted, enabled, tickVars>>
allVars      == <<vars, scheduleVars>>

Verdicts  == [Mural -> SceneId \cup {NoScene}]
Unspoken  == [m \in Mural |-> NoScene]
Resting   == [left |-> {}, saw |-> Unspoken]
Running   == tour # Resting \/ ~Idle(Ticker)

ScheduleTypeOK ==
    /\ wanted \in Verdicts
    /\ enabled \in BOOLEAN
    /\ lastVerdicts \in Verdicts
    /\ tour.left \subseteq Mural /\ tour.saw \in Verdicts
    /\ spoken \subseteq Mural

-----------------------------------------------------------------------------
(* The tick.  It reads the windows once.  A mural whose verdict is not due  *)
(* takes no time; one that is due is applied, and everything may happen     *)
(* until that apply is done and the walk goes on.                           *)

Applicable(id) == id # NoScene /\ scenes[id] # NoScene /\ scenes[id].mural \in murals

(* Mutant: the wall is compared with its badge alone. *)
DueUnlessLive(m, saw) == Applicable(saw[m]) /\ badge[m] # saw[m]

(* Mutant: the verdict is recorded before it is compared. *)
DueAfterRecord(m, saw) ==
    LET recorded == [lastVerdicts EXCEPT ![m] = saw[m]] IN
    Applicable(saw[m]) /\ recorded[m] # saw[m] /\ badge[m] # saw[m]

Due(m, saw) == Applicable(saw[m]) /\ lastVerdicts[m] # saw[m] /\ badge[m] # saw[m]

(* Murals of `evaluated` have had their turn. *)
Record(evaluated, saw) ==
    /\ lastVerdicts' = [m \in Mural |-> IF m \in evaluated THEN saw[m] ELSE lastVerdicts[m]]
    /\ spoken' = spoken \cup {m \in evaluated : saw[m] = wanted[m]}

Narrow(left, saw) == [left |-> left, saw |-> [m \in Mural |-> IF m \in left THEN saw[m] ELSE NoScene]]

Evaluate(left, saw) ==
    LET due == {m \in left : Due(m, saw)} IN
    \/ /\ due = {}
       /\ Record(left, saw)
       /\ tour' = Resting
       /\ UNCHANGED vars
    \/ \E m \in due, before \in SUBSET (left \ due) :
        /\ Record(before \cup {m}, saw)
        /\ tour' = Narrow(left \ (before \cup {m}), saw)
        /\ Apply(Ticker, saw[m])

(* A disabled scheduler forgets every verdict. *)
Tick ==
    /\ ~Running
    /\ IF enabled
       THEN Evaluate(murals, wanted)
       ELSE /\ lastVerdicts' = Unspoken /\ spoken' = {}
            /\ UNCHANGED <<vars, tour>>
    /\ UNCHANGED <<wanted, enabled>>

TickOn ==
    /\ tour # Resting /\ Idle(Ticker)
    /\ Evaluate(tour.left, tour.saw)
    /\ UNCHANGED <<wanted, enabled>>

(* A tick whose apply fails ends there: tick() catches, and is free again. *)
TickFails ==
    /\ "fail" \in Ops
    /\ Fail(Ticker)
    /\ tour' = Resting
    /\ UNCHANGED <<wanted, enabled, lastVerdicts, spoken>>

-----------------------------------------------------------------------------
(* Inputs *)

ScenesOf(m) == {id \in SceneId : scenes[id] # NoScene /\ scenes[id].mural = m}

Boundary ==
    /\ "boundary" \in Inputs
    /\ \E m \in Mural : \E id \in (ScenesOf(m) \cup {NoScene}) \ {wanted[m]} :
        /\ wanted' = [wanted EXCEPT ![m] = id]
        /\ spoken' = spoken \ {m}
    /\ UNCHANGED <<vars, enabled, lastVerdicts, tour>>

Switch ==
    /\ "switch" \in Inputs
    /\ enabled' = ~enabled
    /\ spoken' = {}
    /\ UNCHANGED <<vars, wanted, lastVerdicts, tour>>

(* The server restarts between two requests and two ticks: the layout, the  *)
(* badges and the windows are in the store, the verdicts are not.           *)
Restart ==
    /\ "restart" \in Inputs
    /\ tour = Resting /\ \A c \in Client : Idle(c)
    /\ lastVerdicts' = Unspoken
    /\ spoken' = {}
    /\ UNCHANGED <<vars, wanted, enabled, tour>>

(* Everyone else.  A scene's id is not given again while the schedule, the  *)
(* ticker's memory or its tick names it.                                    *)
Named == UNION {{wanted[m], lastVerdicts[m], tour.saw[m]} : m \in Mural}

OthersWith(c, ops) ==
    /\ IF c = Ticker THEN Resume(c)
       ELSE RequestOf(c, ops) \/ Resume(c) \/ ("fail" \in ops /\ Fail(c))
    /\ \A id \in SceneId \cap Named : scenes[id] = NoScene => scenes'[id] = NoScene
    /\ UNCHANGED scheduleVars

Others(c) == OthersWith(c, Ops)

-----------------------------------------------------------------------------
ScheduleInitWith(M) ==
    /\ InitWith(M, Screen)
    /\ wanted = Unspoken
    /\ enabled = TRUE
    /\ lastVerdicts = Unspoken
    /\ tour = Resting
    /\ spoken = {}

ScheduleInit == ScheduleInitWith(Mural)

ScheduleNext ==
    \/ Tick
    \/ TickOn
    \/ TickFails
    \/ Boundary
    \/ Switch
    \/ Restart
    \/ \E c \in Client : Others(c)

ScheduleSpec == ScheduleInit /\ [][ScheduleNext]_allVars

(* The interval keeps firing, and the store answers the tick's apply. *)
TickerFairness == WF_allVars(Tick \/ TickOn \/ Others(Ticker))

-----------------------------------------------------------------------------
(* Properties *)

(* The schedule is the floor, not a leash: once a tick has evaluated a mural *)
(* under its current verdict, no tick applies anything to that mural until   *)
(* the verdict changes, whatever scene an operator applies, whatever the     *)
(* badge says and however stale the verdicts a running tick still carries    *)
(* (the master switch and a restart make the schedule speak again).          *)
TickApplies(m) ==
    /\ Idle(Ticker) /\ ~Idle(Ticker)'
    /\ Head(todo'[Ticker]).scene.mural = m

SpeaksOncePerVerdict == [][\A m \in spoken : ~TickApplies(m)]_allVars

(* A verdict the ticker has not acted on yet reaches the wall: the mural is  *)
(* put on the wanted scene, unless the schedule, the switch or the scene     *)
(* changes first, also when the tick that read it was already walking, or    *)
(* a kick was skipped.                                                       *)
LandsOn(m, id) ==
    enabled /\ wanted[m] = id /\ lastVerdicts[m] # id /\ Applicable(id)
        ~> badge[m] = id \/ ~enabled \/ wanted[m] # id \/ ~Applicable(id)

VerdictLands == \A m \in Mural, id \in SceneId : LandsOn(m, id)
=============================================================================
