------------------------ MODULE SceneScheduleProofs ------------------------
(***************************************************************************)
(* Proofs about SceneSchedule, for every number of clients, screens, walls *)
(* and scenes.                                                             *)
(***************************************************************************)
EXTENDS SceneSchedule, TLAPS

-----------------------------------------------------------------------------
(* The frame of the layout's handlers: a step of one client changes no     *)
(* other client's continuation, a scene that exists stays as it is or is   *)
(* deleted, and no mural is created.                                       *)

Mine(c)    == todo' = todo \/ \E x : todo' = [todo EXCEPT ![c] = x]
ScenesKept ==
    /\ DOMAIN scenes' = DOMAIN scenes
    /\ \A id \in SceneId : scenes[id] # NoScene => scenes'[id] \in {scenes[id], NoScene}

Framed(c) == Mine(c) /\ ScenesKept /\ murals' \subseteq murals

LEMMA RequestFramed ==
    ASSUME NEW c \in Client, DOMAIN scenes = SceneId, Request(c)
    PROVE  Framed(c)
  <1> USE DEF Framed, Mine, ScenesKept, Then, vars, layout
  <1>1. CASE \E s \in Screen, m \in Mural, cell \in Cell : Place(c, s, m, cell)
    BY <1>1 DEF Place
  <1>2. CASE \E s \in Screen : Unplace(c, s)
    BY <1>2 DEF Unplace
  <1>3. CASE \E s \in Screen : Forget(c, s)
    BY <1>3 DEF Forget
  <1>4. CASE \E m \in Mural, S \in SUBSET Screen : Combine(c, m, S)
    BY <1>4 DEF Combine, NewWall
  <1>5. CASE \E m \in Mural, S \in SUBSET Screen : Pack(c, m, S)
    BY <1>5 DEF Pack, PackOne
  <1>6. CASE \E w \in walls : Split(c, w)
    BY <1>6 DEF Split, SplitWall
  <1>7. CASE \E s \in Screen, what \in What : AssignScreen(c, s, what)
    BY <1>7 DEF AssignScreen, ShowOn
  <1>8. CASE \E w \in walls, what \in What : AssignWall(c, w, what)
    BY <1>8 DEF AssignWall, SpanWall
  <1>9. CASE \E s \in Screen : ClearScreen(c, s)
    BY <1>9 DEF ClearScreen
  <1>10. CASE \E w \in walls : ClearWall(c, w)
    BY <1>10 DEF ClearWall
  <1>11. CASE \E id \in Source : Unlist(c, id)
    BY <1>11 DEF Unlist, Unspan
  <1>12. CASE \E m \in Mural, S \in SUBSET Screen, dx \in {-1, 1} : Move(c, m, S, dx)
    BY <1>12 DEF Move, Shift
  <1>13. CASE \E m \in Mural, id \in SceneId : Snapshot(c, m, id)
    BY <1>13 DEF Snapshot, FreshScene
  <1>14. CASE \E id \in SceneId : Apply(c, id)
    BY <1>14 DEF Apply
  <1>15. CASE \E id \in SceneId : Unsave(c, id)
    BY <1>15 DEF Unsave
  <1>16. CASE \E m \in Mural : Raze(c, m)
    BY <1>16 DEF Raze, RazeWalls, Evict
  <1> QED BY <1>1, <1>2, <1>3, <1>4, <1>5, <1>6, <1>7, <1>8, <1>9, <1>10, <1>11,
             <1>12, <1>13, <1>14, <1>15, <1>16 DEF Request, RequestOf

LEMMA ResumeFramed ==
    ASSUME NEW c \in Client, Resume(c)
    PROVE  Framed(c)
  <1> DEFINE st == Head(todo[c]) rest == Tail(todo[c])
  <1> USE DEF Framed, Mine, ScenesKept, Then, vars, layout
  <1>1. CASE JudgeStep(c, rest)
    BY <1>1 DEF JudgeStep, Rejudge
  <1>2. CASE RejudgeStep(c, st, rest)
    BY <1>2 DEF RejudgeStep, Rejudge
  <1>3. CASE Lower(c, st, rest)
    BY <1>3 DEF Lower, Rejudge
  <1>4. CASE Dissolve(c, st, rest)
    BY <1>4 DEF Dissolve
  <1>5. CASE ClearStep(c, st, rest)
    BY <1>5 DEF ClearStep
  <1>6. CASE ForgetStep(c, st, rest)
    BY <1>6 DEF ForgetStep
  <1>7. CASE Shift(c, st.to, st.left, rest)
    BY <1>7 DEF Shift
  <1>8. CASE PackStep(c, st, rest)
    BY <1>8 DEF PackStep, PackOne, NewWall
  <1>9. CASE UnlistStep(c, st, rest)
    BY <1>9 DEF UnlistStep, Unspan
  <1>10. CASE RespanStep(c, st, rest)
    BY <1>10 DEF RespanStep, SpanWall
  <1>11. CASE RazeStep(c, st, rest)
    BY <1>11 DEF RazeStep, RazeWalls, Evict
  <1>12. CASE EvictStep(c, st, rest)
    BY <1>12 DEF EvictStep, Evict
  <1>13. CASE Close(c, st, rest)
    BY <1>13 DEF Close
  <1>14. CASE Resplit(c, st, rest) /\ UNCHANGED scenes
    BY <1>14 DEF Resplit, SplitWall, Skip, Enter
  <1>15. CASE Omit(c, st, rest) /\ UNCHANGED scenes
    BY <1>15 DEF Omit, Skip, Enter
  <1>16. CASE Lay(c, st, rest) /\ UNCHANGED scenes
    BY <1>16 DEF Lay, Skip, Enter
  <1>17. CASE Regroup(c, st, rest) /\ UNCHANGED scenes
    BY <1>17 DEF Regroup, NewWall, Skip, Enter
  <1>18. CASE Dress(c, st, rest) /\ UNCHANGED scenes
    BY <1>18 DEF Dress, ShowOn, Skip
  <1> QED BY <1>1, <1>2, <1>3, <1>4, <1>5, <1>6, <1>7, <1>8, <1>9,
             <1>10, <1>11, <1>12, <1>13, <1>14, <1>15, <1>16, <1>17, <1>18 DEF Resume

-----------------------------------------------------------------------------
(* The scheduler's invariant.  The verdicts it works with are scenes of    *)
(* their own mural; a mural it has spoken on is remembered at its current  *)
(* verdict, and a running tick carries no other verdict for it.            *)

Own1(m, id) == id \in SceneId /\ scenes[id] # NoScene => scenes[id].mural = m

OwnScenes == \A m \in Mural : Own1(m, wanted[m]) /\ Own1(m, tour.saw[m])

Remembered ==
    \A m \in spoken :
        /\ lastVerdicts[m] = wanted[m]
        /\ m \in tour.left => tour.saw[m] = wanted[m]

LayoutShape ==
    /\ todo = [c \in Client |-> todo[c]]
    /\ DOMAIN scenes = SceneId
    /\ murals \subseteq Mural

ScheduleInv == ScheduleTypeOK /\ LayoutShape /\ OwnScenes /\ Remembered

LEMMA ScheduleStarts == ScheduleInit => ScheduleInv
  <1> SUFFICES ASSUME ScheduleInit PROVE ScheduleInv
    OBVIOUS
  <1>1. ScheduleTypeOK /\ LayoutShape
    BY DEF ScheduleInit, ScheduleInitWith, ScheduleTypeOK, LayoutShape, InitWith, Verdicts, Unspoken, Resting
  <1>2. OwnScenes /\ Remembered
    BY NullAssumption DEF ScheduleInit, ScheduleInitWith, OwnScenes, Own1, Remembered, Unspoken, Resting
  <1> QED BY <1>1, <1>2 DEF ScheduleInv

(* A walk that holds verdicts of the murals' own scenes keeps the invariant, *)
(* and applies nothing to a mural it has spoken on.                          *)
LEMMA EvaluateKeeps ==
    ASSUME ScheduleInv, NEW left \in SUBSET Mural, NEW saw \in Verdicts,
           \A m \in Mural : Own1(m, saw[m]),
           \A m \in spoken \cap left : saw[m] = wanted[m],
           Idle(Ticker), Evaluate(left, saw), UNCHANGED <<wanted, enabled>>
    PROVE  ScheduleInv' /\ \A m \in spoken : ~TickApplies(m)
  <1> USE DEF ScheduleInv
  <1>1. CASE \E m \in left, before \in SUBSET left :
                /\ Due(m, saw)
                /\ Record(before \cup {m}, saw)
                /\ tour' = Narrow(left \ (before \cup {m}), saw)
                /\ Apply(Ticker, saw[m])
    <2> PICK m \in left, before \in SUBSET left :
                /\ Due(m, saw)
                /\ Record(before \cup {m}, saw)
                /\ tour' = Narrow(left \ (before \cup {m}), saw)
                /\ Apply(Ticker, saw[m])
      BY <1>1
    <2>1. ScheduleTypeOK'
      BY DEF ScheduleTypeOK, Record, Narrow, Verdicts
    <2>2. LayoutShape'
      BY DEF LayoutShape, Apply, Then, layout
    <2>3. OwnScenes'
      BY NullAssumption DEF OwnScenes, Own1, Apply, Narrow, layout
    <2>4. Remembered'
      BY DEF Remembered, Record, Narrow, ScheduleTypeOK, Verdicts
    <2>5. todo'[Ticker] = <<[do |-> "resplit", id |-> saw[m], scene |-> scenes[saw[m]],
                             left |-> {w.id : w \in WallsOn(scenes[saw[m]].mural)}]>>
      BY TickerAssumption DEF Apply, Then, LayoutShape
    <2>6. Head(todo'[Ticker]).scene.mural = m
      <3>1. saw[m] \in SceneId /\ scenes[saw[m]] # NoScene
        BY DEF Due, Applicable, Verdicts
      <3> QED BY <2>5, <3>1 DEF Own1
    <2>7. m \notin spoken
      BY DEF Due, Remembered
    <2> QED BY <2>1, <2>2, <2>3, <2>4, <2>6, <2>7 DEF TickApplies
  <1>2. CASE /\ Record(left, saw) /\ tour' = Resting /\ UNCHANGED vars
    <2>1. ScheduleTypeOK'
      BY <1>2 DEF ScheduleTypeOK, Record, Resting, Unspoken, Verdicts
    <2>2. LayoutShape'
      BY <1>2 DEF LayoutShape, vars, layout
    <2>3. OwnScenes'
      BY <1>2, NullAssumption DEF OwnScenes, Own1, Resting, Unspoken, vars
    <2>4. Remembered'
      BY <1>2 DEF Remembered, Record, Resting, ScheduleTypeOK, Verdicts
    <2>5. Idle(Ticker)'
      BY <1>2 DEF Idle, vars
    <2> QED BY <2>1, <2>2, <2>3, <2>4, <2>5 DEF TickApplies
  <1> QED BY <1>1, <1>2 DEF Evaluate

LEMMA OthersKeep ==
    ASSUME ScheduleInv, NEW c \in Client, Others(c)
    PROVE  ScheduleInv' /\ \A m \in spoken : ~TickApplies(m)
  <1> USE DEF ScheduleInv
  <1>1. Framed(c)
    <2>1. CASE Request(c)
      BY <2>1, RequestFramed DEF LayoutShape, Request
    <2>2. CASE Resume(c)
      BY <2>2, ResumeFramed
    <2>3. CASE Fail(c)
      BY <2>3 DEF Fail, Framed, Mine, ScenesKept, Then, layout
    <2> QED BY <2>1, <2>2, <2>3 DEF Others, OthersWith, Request
  <1>2. UNCHANGED scheduleVars
    BY DEF Others, OthersWith
  <1>3. ScheduleTypeOK' /\ Remembered'
    BY <1>2 DEF ScheduleTypeOK, Remembered, scheduleVars, tickVars
  <1>4. LayoutShape'
    BY <1>1 DEF LayoutShape, Framed, Mine, ScenesKept
  <1>5. OwnScenes'
    <2> SUFFICES ASSUME NEW m \in Mural, NEW id \in {wanted[m], tour.saw[m]}, id \in SceneId,
                        scenes'[id] # NoScene
                 PROVE  scenes'[id].mural = m
      BY <1>2 DEF OwnScenes, Own1, scheduleVars, tickVars
    <2>1. id \in Named
      BY DEF Named
    <2>2. scenes[id] # NoScene
      BY <2>1 DEF Others, OthersWith
    <2>3. scenes'[id] = scenes[id]
      BY <1>1, <2>2 DEF Framed, ScenesKept
    <2> QED BY <2>2, <2>3 DEF OwnScenes, Own1
  <1>6. Idle(Ticker) => Idle(Ticker)'
    <2>1. CASE c = Ticker
      BY <2>1 DEF Others, OthersWith, Resume
    <2>2. CASE c # Ticker
      BY <1>1, <2>2, TickerAssumption DEF Framed, Mine, LayoutShape, Idle
    <2> QED BY <2>1, <2>2
  <1> QED BY <1>3, <1>4, <1>5, <1>6 DEF TickApplies

LEMMA InputsKeep ==
    ASSUME ScheduleInv, Boundary \/ Switch \/ Restart \/ UNCHANGED allVars
    PROVE  ScheduleInv' /\ \A m \in spoken : ~TickApplies(m)
  <1> USE DEF ScheduleInv
  <1>1. UNCHANGED vars
    BY DEF Boundary, Switch, Restart, allVars
  <1>2. LayoutShape' /\ (Idle(Ticker) => Idle(Ticker)')
    BY <1>1 DEF LayoutShape, Idle, vars, layout
  <1>3. CASE Boundary
    <2>1. ScheduleTypeOK'
      BY <1>3 DEF Boundary, ScheduleTypeOK, Verdicts, ScenesOf
    <2>2. OwnScenes'
      BY <1>1, <1>3, NullAssumption DEF Boundary, ScheduleTypeOK, Verdicts, ScenesOf, OwnScenes, Own1, vars
    <2>3. Remembered'
      BY <1>3 DEF Boundary, Remembered, ScheduleTypeOK, Verdicts
    <2> QED BY <1>2, <2>1, <2>2, <2>3 DEF TickApplies
  <1>4. CASE Switch \/ Restart
    <2>1. ScheduleTypeOK' /\ Remembered'
      BY <1>4 DEF Switch, Restart, ScheduleTypeOK, Remembered, Verdicts, Unspoken
    <2>2. OwnScenes'
      BY <1>1, <1>4 DEF Switch, Restart, OwnScenes, Own1, vars
    <2> QED BY <1>2, <2>1, <2>2 DEF TickApplies
  <1>5. CASE UNCHANGED allVars
    BY <1>1, <1>2, <1>5 DEF allVars, scheduleVars, tickVars, vars, ScheduleTypeOK, OwnScenes, Own1,
                            Remembered, TickApplies
  <1> QED BY <1>3, <1>4, <1>5

LEMMA StepKeeps ==
    ASSUME ScheduleInv, [ScheduleNext]_allVars
    PROVE  ScheduleInv' /\ \A m \in spoken : ~TickApplies(m)
  <1> USE DEF ScheduleInv
  <1>1. CASE Tick
    <2>1. CASE enabled
      <3>1. tour = Resting /\ Idle(Ticker) /\ Evaluate(murals, wanted) /\ UNCHANGED <<wanted, enabled>>
        BY <1>1, <2>1 DEF Tick, Running
      <3>2. wanted \in Verdicts /\ murals \in SUBSET Mural
        BY DEF ScheduleTypeOK, LayoutShape
      <3> QED BY <3>1, <3>2, EvaluateKeeps DEF OwnScenes
    <2>2. CASE ~enabled
      <3>1. UNCHANGED <<vars, tour, wanted, enabled>> /\ lastVerdicts' = Unspoken /\ spoken' = {}
        BY <1>1, <2>2 DEF Tick
      <3>2. ScheduleTypeOK' /\ Remembered'
        BY <3>1 DEF ScheduleTypeOK, Remembered, Verdicts, Unspoken
      <3>3. LayoutShape' /\ OwnScenes' /\ (Idle(Ticker) => Idle(Ticker)')
        BY <3>1 DEF LayoutShape, OwnScenes, Own1, Idle, vars, layout
      <3> QED BY <3>2, <3>3 DEF TickApplies
    <2> QED BY <2>1, <2>2 DEF ScheduleTypeOK
  <1>2. CASE TickOn
    <2>1. Idle(Ticker) /\ Evaluate(tour.left, tour.saw) /\ UNCHANGED <<wanted, enabled>>
      BY <1>2 DEF TickOn
    <2>2. tour.saw \in Verdicts /\ tour.left \in SUBSET Mural
      BY DEF ScheduleTypeOK
    <2>3. \A m \in spoken \cap tour.left : tour.saw[m] = wanted[m]
      BY DEF Remembered
    <2> QED BY <2>1, <2>2, <2>3, EvaluateKeeps DEF OwnScenes
  <1>3. CASE TickFails
    <2>1. ScheduleTypeOK' /\ Remembered'
      BY <1>3 DEF TickFails, ScheduleTypeOK, Remembered, Resting, Unspoken, Verdicts
    <2>2. LayoutShape'
      BY <1>3 DEF TickFails, Fail, LayoutShape, Then, layout
    <2>3. OwnScenes'
      BY <1>3, NullAssumption DEF TickFails, Fail, OwnScenes, Own1, Resting, Unspoken
    <2> QED BY <1>3, <2>1, <2>2, <2>3 DEF TickFails, Fail, TickApplies
  <1>4. CASE \E c \in Client : Others(c)
    BY <1>4, OthersKeep
  <1>5. CASE Boundary \/ Switch \/ Restart \/ UNCHANGED allVars
    BY <1>5, InputsKeep
  <1> QED BY <1>1, <1>2, <1>3, <1>4, <1>5 DEF ScheduleNext

(* The scheduler's memory is always well typed. *)
THEOREM ScheduleTypeCorrect == ScheduleSpec => []ScheduleTypeOK
  <1>1. ScheduleInv /\ [ScheduleNext]_allVars => ScheduleInv'
    BY StepKeeps
  <1>2. ScheduleInv => ScheduleTypeOK
    BY DEF ScheduleInv
  <1> QED BY ScheduleStarts, <1>1, <1>2, PTL DEF ScheduleSpec

(* Once a tick has evaluated a mural under its verdict, no tick applies     *)
(* anything to it until the verdict changes, the switch is used or the      *)
(* server restarts: what an operator applies by hand in between stands.     *)
THEOREM ScheduleIsAFloor == ScheduleSpec => SpeaksOncePerVerdict
  <1>1. ScheduleInv /\ [ScheduleNext]_allVars => ScheduleInv'
    BY StepKeeps
  <1>2. ScheduleInv /\ [ScheduleNext]_allVars => [\A m \in spoken : ~TickApplies(m)]_allVars
    BY StepKeeps
  <1> QED BY ScheduleStarts, <1>1, <1>2, PTL DEF ScheduleSpec, SpeaksOncePerVerdict
=============================================================================
