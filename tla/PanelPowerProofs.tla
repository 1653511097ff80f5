------------------------ MODULE PanelPowerProofs ------------------------
(* What holds of PanelPower for every set of screens, walls and machines,   *)
(* and of its stories for every number of frames under way.                *)
EXTENDS MCPanelStories, TLAPS

Memory   == Opinion \cup {NoRecord}
Decision == [record : Memory, send : {"quiet", "on", "off"}]

(* Frames are under way only on a socket that works.                       *)
FramesNeedLink == \A s \in Screen : home[s] \notin live => cmds[s] = <<>> /\ acks[s] = <<>>

(* The part of the state that makes AsleepOnlyOnline inductive.            *)
SessionInv == TypeOK /\ FramesNeedLink /\ AsleepOnlyOnline

-----------------------------------------------------------------------------
(* What a pass decides is well formed, and carrying it out keeps the       *)
(* memory and the queues well formed and never queues on a dead socket.    *)

LEMMA ReleaseDecides ==
    ASSUME TypeOK, NEW s \in Screen
    PROVE  ReleaseScreen(s) \in Decision
  BY DEF TypeOK, ReleaseScreen, Decision, Memory, Quiet, Say

LEMMA ApplyDecides ==
    ASSUME TypeOK, NEW s \in Screen, NEW w \in Mural, NEW v \in Verdict
    PROVE  ApplyMuralPower(s, w, v) \in Decision
  <1> DEFINE want == [mural |-> w, desired |-> v = "on"]
  <1>1. want \in Opinion
    BY DEF Opinion
  <1>2. CASE v = "none"
    BY <1>2, ReleaseDecides DEF ApplyMuralPower
  <1>3. CASE v # "none"
    BY <1>1, <1>3 DEF ApplyMuralPower, Decision, Memory, Quiet, Say, Verdict
  <1> QED BY <1>2, <1>3

LEMMA ReconcileDecides ==
    ASSUME TypeOK, NEW s \in Screen, NEW R
    PROVE  ReconcileMachine(s, R) \in Decision
  <1> DEFINE want == [mural |-> placement[s], desired |-> DesiredFor(s) = "on"]
  <1>1. DesiredFor(s) \in Verdict
    BY DEF TypeOK, DesiredFor, Verdict
  <1>2. lastDesired[s] \in Memory
    BY DEF TypeOK, Memory
  <1>3. DesiredFor(s) # "none" => want \in Opinion
    BY DEF TypeOK, DesiredFor, Opinion
  <1>4. CASE DesiredFor(s) = "none"
    BY <1>2, <1>4, ReleaseDecides DEF ReconcileMachine, Decision, Quiet
  <1>5. CASE DesiredFor(s) # "none"
    BY <1>1, <1>2, <1>3, <1>5 DEF ReconcileMachine, Decision, Memory, Quiet, Say, Verdict
  <1> QED BY <1>4, <1>5

LEMMA CarryKeeps ==
    ASSUME TypeOK, NEW S \in SUBSET Screen, NEW d \in [S -> Decision], Carry(d)
    PROVE  /\ lastDesired' \in [Screen -> Memory]
           /\ cmds' \in [Screen -> Seq(Command)]
           /\ \A s \in Screen : home[s] \notin live => cmds'[s] = cmds[s]
  <1>1. DOMAIN d = S
    OBVIOUS
  <1>2. lastDesired' \in [Screen -> Memory]
    BY <1>1 DEF Carry, TypeOK, Memory, Decision
  <1>3. ASSUME NEW s \in Screen, NEW on \in BOOLEAN
        PROVE  /\ Push(s, on, "schedule") \in Seq(Command)
               /\ home[s] \notin live => Push(s, on, "schedule") = cmds[s]
    <2>1. [on |-> on, by |-> "schedule"] \in Command
      BY DEF Command, Author
    <2> QED BY <2>1 DEF Push, TypeOK
  <1>4. cmds' \in [Screen -> Seq(Command)]
    BY <1>1, <1>3 DEF Carry, TypeOK
  <1>5. \A s \in Screen : home[s] \notin live => cmds'[s] = cmds[s]
    BY <1>1, <1>3 DEF Carry
  <1> QED BY <1>2, <1>4, <1>5

-----------------------------------------------------------------------------
(* Every step keeps the session invariant: one lemma per group of actions. *)

LEMMA StartSession ==
    ASSUME NEW C \in SUBSET Machine, StartWith(C)
    PROVE  SessionInv
  BY DEF StartWith, SessionInv, TypeOK, FramesNeedLink, AsleepOnlyOnline, Idle, Verdict

LEMMA MuralStepSession ==
    ASSUME SessionInv, NEW w \in Mural, NEW v \in Verdict, MuralStep(w, v),
           ticking' \in SUBSET Mural, seen' \in [Mural -> Verdict],
           UNCHANGED <<inputVars, outputs, admitting, asleep, linkVars,
                       acks, boxVars, override>>
    PROVE  SessionInv'
  <1> DEFINE S == {x \in Screen : placement[x] = w}
             d == [s \in S |-> ApplyMuralPower(s, w, v)]
  <1>1. d \in [S -> Decision]
    BY ApplyDecides DEF SessionInv
  <1>2. Carry(d)
    BY DEF MuralStep
  <1>3. /\ lastDesired' \in [Screen -> Memory]
        /\ cmds' \in [Screen -> Seq(Command)]
        /\ \A s \in Screen : home[s] \notin live => cmds'[s] = cmds[s]
    BY <1>1, <1>2, CarryKeeps DEF SessionInv
  <1>4. TypeOK'
    BY <1>3 DEF SessionInv, TypeOK, Memory, inputVars, linkVars, boxVars
  <1>5. FramesNeedLink'
    BY <1>3 DEF SessionInv, FramesNeedLink, linkVars
  <1>6. AsleepOnlyOnline'
    BY DEF SessionInv, AsleepOnlyOnline, Online, linkVars
  <1> QED BY <1>4, <1>5, <1>6 DEF SessionInv

LEMMA TickSession ==
    ASSUME SessionInv, Tick
    PROVE  SessionInv'
  <1>1. \A S \in SUBSET Mural, v \in [Mural -> Verdict] : Remember(S, v) \in [Mural -> Verdict]
    BY DEF Remember, Verdict
  <1>2. ASSUME NEW w \in Mural, TickStart(w)
        PROVE  SessionInv'
    <2>1. verdict[w] \in Verdict /\ seen' \in [Mural -> Verdict]
      BY <1>1, <1>2 DEF SessionInv, TypeOK, TickStart
    <2> QED BY <1>2, <2>1, MuralStepSession DEF TickStart
  <1>3. ASSUME NEW w \in Mural, TickMural(w)
        PROVE  SessionInv'
    <2>1. seen[w] \in Verdict /\ seen' \in [Mural -> Verdict] /\ ticking' \in SUBSET Mural
      BY <1>1, <1>3 DEF SessionInv, TypeOK, TickMural
    <2> QED BY <1>3, <2>1, MuralStepSession DEF TickMural
  <1> QED BY <1>2, <1>3 DEF Tick

LEMMA HelloTypes ==
    ASSUME SessionInv, NEW m \in Machine, NEW adv \in SUBSET Screen, Hello(m, adv)
    PROVE  /\ outputs' \subseteq Screen
           /\ admitting' \in [Machine -> [hello : BOOLEAN, rebound : SUBSET Screen]]
           /\ override' \subseteq Screen
  BY DEF SessionInv, TypeOK, Hello, Connectors

LEMMA SessionSession ==
    ASSUME SessionInv, NEW m \in Machine, Session(m)
    PROVE  SessionInv'
  <1>1. CASE Connect(m)
    <2>1. said \cap Connectors(m) \in SUBSET Screen
      BY DEF Connectors
    <2>2. Hello(m, said \cap Connectors(m))
      BY <1>1 DEF Connect
    <2>3. TypeOK'
      BY <1>1, <2>1, <2>2, HelloTypes DEF SessionInv, TypeOK, Connect, inputVars, boxVars
    <2>4. FramesNeedLink' /\ AsleepOnlyOnline'
      BY <1>1 DEF SessionInv, FramesNeedLink, AsleepOnlyOnline, Online, Connect
    <2> QED BY <2>3, <2>4 DEF SessionInv
  <1>2. CASE Rediscover(m)
    <2>1. present \cap Connectors(m) \in SUBSET Screen
      BY DEF Connectors
    <2>2. Hello(m, present \cap Connectors(m))
      BY <1>2 DEF Rediscover
    <2>3. TypeOK'
      BY <1>2, <2>1, <2>2, HelloTypes
      DEF SessionInv, TypeOK, Rediscover, inputVars, linkVars
    <2>4. FramesNeedLink' /\ AsleepOnlyOnline'
      BY <1>2 DEF SessionInv, FramesNeedLink, AsleepOnlyOnline, Online, Rediscover, linkVars
    <2> QED BY <2>3, <2>4 DEF SessionInv
  <1>3. CASE AdmitDone(m)
    <2> DEFINE d == [s \in Connectors(m) |-> ReconcileMachine(s, admitting[m].rebound)]
    <2>1. d \in [Connectors(m) -> Decision] /\ Connectors(m) \in SUBSET Screen
      BY ReconcileDecides DEF SessionInv, Connectors
    <2>2. /\ lastDesired' \in [Screen -> Memory]
          /\ cmds' \in [Screen -> Seq(Command)]
          /\ \A s \in Screen : home[s] \notin live => cmds'[s] = cmds[s]
      <3>1. CASE outputs \cap Connectors(m) = {}
        BY <1>3, <3>1 DEF AdmitDone, SessionInv, TypeOK, Memory
      <3>2. CASE outputs \cap Connectors(m) # {}
        <4>1. Carry(d)
          BY <1>3, <3>2 DEF AdmitDone
        <4> QED BY <2>1, <4>1, CarryKeeps DEF SessionInv
      <3> QED BY <3>1, <3>2
    <2>3. TypeOK'
      BY <1>3, <2>2 DEF SessionInv, TypeOK, Memory, AdmitDone, Idle, inputVars, linkVars, boxVars
    <2>4. FramesNeedLink' /\ AsleepOnlyOnline'
      BY <1>3, <2>2
      DEF SessionInv, FramesNeedLink, AsleepOnlyOnline, Online, AdmitDone, linkVars
    <2> QED BY <2>3, <2>4 DEF SessionInv
  <1>4. CASE NoticeClose(m)
    BY <1>4 DEF SessionInv, TypeOK, FramesNeedLink, AsleepOnlyOnline, Online, NoticeClose,
                Offline, Connectors, inputVars, boxVars
  <1> QED BY <1>1, <1>2, <1>3, <1>4 DEF Session

LEMMA BoxSession ==
    ASSUME SessionInv, NEW s \in Screen, Box(s)
    PROVE  SessionInv'
  <1>1. ASSUME NEW ok \in BOOLEAN, Executes(s, ok)
        PROVE  SessionInv'
    <2>1. cmds[s] \in Seq(Command) /\ cmds[s] # <<>>
      BY <1>1 DEF Executes, SessionInv, TypeOK
    <2>2. Head(cmds[s]) \in Command /\ Tail(cmds[s]) \in Seq(Command)
      BY <2>1
    <2>3. [on |-> Head(cmds[s]).on, ok |-> ok] \in Ack
      BY <2>2 DEF Ack, Command
    <2>4. Append(acks[s], [on |-> Head(cmds[s]).on, ok |-> ok]) \in Seq(Ack)
      BY <2>3 DEF SessionInv, TypeOK
    <2>5. panel' \in [Screen -> {"lit"} \cup Author]
      BY <1>1, <2>2 DEF Executes, SessionInv, TypeOK, Command
    <2>6. TypeOK'
      BY <1>1, <2>2, <2>4, <2>5
      DEF Executes, SessionInv, TypeOK, inputVars, serverVars, linkVars
    <2>7. FramesNeedLink' /\ AsleepOnlyOnline'
      BY <1>1 DEF Executes, SessionInv, FramesNeedLink, AsleepOnlyOnline, Online, TypeOK,
                  serverVars, linkVars
    <2> QED BY <2>6, <2>7 DEF SessionInv
  <1>2. CASE PowerAck(s)
    <2>1. acks[s] \in Seq(Ack) /\ acks[s] # <<>> /\ home[s] \in live
      BY <1>2 DEF PowerAck, SessionInv, TypeOK, FramesNeedLink
    <2>2. Tail(acks[s]) \in Seq(Ack)
      BY <2>1
    <2>3. TypeOK'
      BY <1>2, <2>2 DEF PowerAck, SessionInv, TypeOK, inputVars, linkVars, boxVars
    <2>4. FramesNeedLink' /\ AsleepOnlyOnline'
      BY <1>2, <2>1 DEF PowerAck, SessionInv, FramesNeedLink, AsleepOnlyOnline, Online, TypeOK,
                        linkVars
    <2> QED BY <2>3, <2>4 DEF SessionInv
  <1> QED BY <1>1, <1>2 DEF Box

LEMMA OperatorSession ==
    ASSUME SessionInv, ScheduleMoves \/ Operator
    PROVE  SessionInv'
  <1>1. CASE ScheduleMoves
    BY <1>1 DEF ScheduleMoves, SessionInv, TypeOK, FramesNeedLink, AsleepOnlyOnline, Online,
                Verdict, serverVars, linkVars, boxVars
  <1>2. ASSUME NEW s \in Screen, NEW w \in Mural \cup {NoMural}, PlaceScreen(s, w)
        PROVE  SessionInv'
    BY <1>2 DEF PlaceScreen, SessionInv, TypeOK, FramesNeedLink, AsleepOnlyOnline, Online,
                serverVars, linkVars, boxVars
  <1>3. ASSUME NEW s \in Screen, NEW on \in BOOLEAN, ManualPower(s, on)
        PROVE  SessionInv'
    <2>1. [on |-> on, by |-> "operator"] \in Command
      BY DEF Command, Author
    <2>2. Push(s, on, "operator") \in Seq(Command)
      BY <2>1 DEF Push, SessionInv, TypeOK
    <2>3. home[s] \notin live => Push(s, on, "operator") = cmds[s]
      BY DEF Push
    <2>4. TypeOK'
      BY <1>3, <2>2 DEF ManualPower, SessionInv, TypeOK, inputVars, serverVars, linkVars, boxVars
    <2>5. FramesNeedLink' /\ AsleepOnlyOnline'
      BY <1>3, <2>3 DEF ManualPower, SessionInv, TypeOK, FramesNeedLink, AsleepOnlyOnline, Online,
                        serverVars, linkVars
    <2> QED BY <2>4, <2>5 DEF SessionInv
  <1> QED BY <1>1, <1>2, <1>3 DEF Operator

LEMMA FailureSession ==
    ASSUME SessionInv, Failure \/ \E s \in Screen : Replug(s)
    PROVE  SessionInv'
  <1>1. ASSUME NEW m \in Machine, Drop(m)
        PROVE  SessionInv'
    BY <1>1, HomeAssumption
    DEF Drop, LoseFrames, Offline, Connectors, SessionInv, TypeOK, FramesNeedLink,
        AsleepOnlyOnline, Online, inputVars, boxVars
  <1>2. ASSUME NEW m \in Machine, GoHalfOpen(m)
        PROVE  SessionInv'
    BY <1>2, HomeAssumption
    DEF GoHalfOpen, LoseFrames, SessionInv, TypeOK, FramesNeedLink, AsleepOnlyOnline, Online,
        inputVars, serverVars, boxVars
  <1>3. ASSUME NEW m \in Machine, Reboot(m)
        PROVE  SessionInv'
    BY <1>3 DEF Reboot, Connectors, SessionInv, TypeOK, FramesNeedLink, AsleepOnlyOnline, Online,
                inputVars, serverVars, linkVars
  <1>4. ASSUME NEW s \in Screen, Unplug(s) \/ Replug(s)
        PROVE  SessionInv'
    BY <1>4 DEF Unplug, Replug, SessionInv, TypeOK, FramesNeedLink, AsleepOnlyOnline, Online,
                inputVars, serverVars, linkVars
  <1>5. CASE ServerRestart
    BY <1>5 DEF ServerRestart, SessionInv, TypeOK, FramesNeedLink, AsleepOnlyOnline, Online,
                Idle, Verdict, inputVars, boxVars
  <1> QED BY <1>1, <1>2, <1>3, <1>4, <1>5 DEF Failure

LEMMA StepSession ==
    ASSUME SessionInv, [Next]_vars
    PROVE  SessionInv'
  <1>1. CASE UNCHANGED vars
    BY <1>1 DEF vars, inputVars, serverVars, linkVars, boxVars, SessionInv, TypeOK,
                FramesNeedLink, AsleepOnlyOnline, Online
  <1>2. CASE Next
    BY <1>2, TickSession, SessionSession, BoxSession, OperatorSession, FailureSession DEF Next
  <1> QED BY <1>1, <1>2

(* Wherever the boxes are when it starts, the system keeps its types, has  *)
(* frames under way on working sockets only, and shows a panel asleep only *)
(* while its box is connected.                                             *)
THEOREM SessionInvariant == Spec => []SessionInv
  <1>1. Init => SessionInv
    BY StartSession DEF Init
  <1>2. SessionInv /\ [Next]_vars => SessionInv'
    BY StepSession
  <1> QED BY <1>1, <1>2, PTL DEF Spec

(* The types of the whole system's state (every handler of panel-power.ts, *)
(* of the hello, ack and close paths of ws.ts, and of the box).            *)
THEOREM TypeCorrect == Spec => []TypeOK
  <1>1. SessionInv => TypeOK
    BY DEF SessionInv
  <1> QED BY <1>1, SessionInvariant, PTL

(* The console never shows a panel of a disconnected box as asleep: the    *)
(* offline edge forgets it, and no late acknowledgement brings it back.    *)
THEOREM NoGhostSleep == Spec => []AsleepOnlyOnline
  <1>1. SessionInv => AsleepOnlyOnline
    BY DEF SessionInv
  <1> QED BY <1>1, SessionInvariant, PTL

-----------------------------------------------------------------------------
(* An operator's override.  While it stands, the memory agrees with the    *)
(* schedule, so does what a running tick has still to say of that wall,    *)
(* and no hello of the screen's box waits to be reconciled.                *)

Agrees(s) ==
    \/ lastDesired[s] = NoRecord
    \/ /\ DesiredFor(s) # "none"
       /\ lastDesired[s].desired = (DesiredFor(s) = "on")

Undisturbed(s) ==
    /\ ~admitting[home[s]].hello
    /\ placement[s] # NoMural =>
          /\ Agrees(s)
          /\ placement[s] \in ticking => seen[placement[s]] = verdict[placement[s]]

OverrideInv == SessionInv /\ \A s \in override : Undisturbed(s)

LEMMA ApplyQuiet ==
    ASSUME TypeOK, NEW s \in Screen, NEW w \in Mural, placement[s] = w, Agrees(s)
    PROVE  /\ ApplyMuralPower(s, w, verdict[w]).send = "quiet"
           /\ \/ ApplyMuralPower(s, w, verdict[w]).record = NoRecord
              \/ /\ verdict[w] # "none"
                 /\ ApplyMuralPower(s, w, verdict[w]).record.desired = (verdict[w] = "on")
  <1>1. DesiredFor(s) = verdict[w]
    BY MuralAssumption DEF DesiredFor
  <1>2. CASE verdict[w] = "none"
    BY <1>1, <1>2 DEF Agrees, ApplyMuralPower, ReleaseScreen, Quiet
  <1>3. CASE verdict[w] # "none"
    BY <1>1, <1>3 DEF Agrees, ApplyMuralPower, Quiet
  <1> QED BY <1>2, <1>3

(* A step of the tick says nothing to an overridden screen, and leaves its *)
(* memory in agreement.                                                    *)
LEMMA MuralStepQuiet ==
    ASSUME TypeOK, NEW s \in Screen, NEW w \in Mural, NEW v \in Verdict, MuralStep(w, v),
           placement[s] = w => v = verdict[w] /\ Agrees(s)
    PROVE  /\ cmds'[s] = cmds[s]
           /\ placement[s] = w => \/ lastDesired'[s] = NoRecord
                                  \/ /\ verdict[w] # "none"
                                     /\ lastDesired'[s].desired = (verdict[w] = "on")
           /\ placement[s] # w => lastDesired'[s] = lastDesired[s]
  <1> DEFINE S == {x \in Screen : placement[x] = w}
             d == [x \in S |-> ApplyMuralPower(x, w, v)]
  <1>1. Carry(d) /\ DOMAIN d = S
    BY DEF MuralStep
  <1>2. CASE placement[s] = w
    <2>1. s \in S /\ d[s] = ApplyMuralPower(s, w, verdict[w])
      BY <1>2
    <2>2. /\ d[s].send = "quiet"
          /\ d[s].record = NoRecord \/ (verdict[w] # "none" /\ d[s].record.desired = (verdict[w] = "on"))
      BY <1>2, <2>1, ApplyQuiet
    <2> HIDE DEF d
    <2>3. cmds'[s] = cmds[s] /\ lastDesired'[s] = d[s].record
      BY <1>1, <2>1, <2>2 DEF Carry
    <2> QED BY <1>2, <2>2, <2>3
  <1>3. CASE placement[s] # w
    <2>1. s \notin S
      BY <1>3
    <2> HIDE DEF d
    <2> QED BY <1>1, <1>3, <2>1 DEF Carry
  <1> QED BY <1>2, <1>3

LEMMA TickOverride ==
    ASSUME OverrideInv, Tick
    PROVE  \A s \in override : cmds'[s] = cmds[s] /\ Undisturbed(s)'
  <1> SUFFICES ASSUME NEW s \in override
               PROVE  cmds'[s] = cmds[s] /\ Undisturbed(s)'
    OBVIOUS
  <1>0. /\ s \in Screen /\ TypeOK
        /\ Undisturbed(s)
        /\ placement[s] \in Mural \cup {NoMural}
    BY DEF OverrideInv, SessionInv, TypeOK
  <1>1. ASSUME NEW w \in Mural, NEW v \in Verdict, MuralStep(w, v),
               UNCHANGED <<verdict, placement, admitting>>,
               placement[s] = w => v = verdict[w],
               placement[s] \in ticking' /\ placement[s] # NoMural =>
                   seen'[placement[s]] = verdict[placement[s]]
        PROVE  cmds'[s] = cmds[s] /\ Undisturbed(s)'
    <2>1. placement[s] = w => Agrees(s)
      BY <1>0, MuralAssumption DEF Undisturbed
    <2>2. /\ cmds'[s] = cmds[s]
          /\ placement[s] = w => \/ lastDesired'[s] = NoRecord
                                 \/ /\ verdict[w] # "none"
                                    /\ lastDesired'[s].desired = (verdict[w] = "on")
          /\ placement[s] # w => lastDesired'[s] = lastDesired[s]
      BY <1>0, <1>1, <2>1, MuralStepQuiet
    <2>3. placement[s] # NoMural => Agrees(s)'
      BY <1>0, <1>1, <2>2, MuralAssumption DEF Agrees, DesiredFor, Undisturbed
    <2> QED BY <1>0, <1>1, <2>2, <2>3 DEF Undisturbed
  <1>2. ASSUME NEW w \in Mural, TickStart(w)
        PROVE  cmds'[s] = cmds[s] /\ Undisturbed(s)'
    <2>1. verdict[w] \in Verdict
      BY <1>0 DEF TypeOK
    <2>2. placement[s] \in ticking' /\ placement[s] # NoMural =>
              seen'[placement[s]] = verdict[placement[s]]
      BY <1>0, <1>2 DEF TickStart, Remember
    <2> QED BY <1>1, <1>2, <2>1, <2>2 DEF TickStart, inputVars
  <1>3. ASSUME NEW w \in Mural, TickMural(w)
        PROVE  cmds'[s] = cmds[s] /\ Undisturbed(s)'
    <2>1. seen[w] \in Verdict
      BY <1>0 DEF TypeOK
    <2>2. placement[s] = w => seen[w] = verdict[w]
      BY <1>0, <1>3, MuralAssumption DEF TickMural, Undisturbed
    <2>3. placement[s] \in ticking' /\ placement[s] # NoMural =>
              seen'[placement[s]] = verdict[placement[s]]
      BY <1>0, <1>3 DEF TickMural, Remember, Undisturbed
    <2> QED BY <1>1, <1>3, <2>1, <2>2, <2>3 DEF TickMural, inputVars
  <1> QED BY <1>2, <1>3 DEF Tick

LEMMA SessionOverride ==
    ASSUME OverrideInv, NEW m \in Machine, Session(m)
    PROVE  \A s \in override' : s \in override /\ Undisturbed(s)' /\ cmds'[s] = cmds[s]
  <1> SUFFICES ASSUME NEW s \in override'
               PROVE  s \in override /\ Undisturbed(s)' /\ cmds'[s] = cmds[s]
    OBVIOUS
  <1>0. TypeOK /\ TypeOK'
    BY SessionSession DEF OverrideInv, SessionInv
  <1>1. s \in Screen /\ home[s] \in Machine
    BY <1>0, HomeAssumption DEF TypeOK
  <1>2. CASE Connect(m) \/ Rediscover(m)
    <2>1. s \in override /\ home[s] # m
      BY <1>1, <1>2 DEF Connect, Rediscover, Hello, Connectors
    <2>2. UNCHANGED <<inputVars, lastDesired, ticking, seen, cmds>>
      BY <1>2 DEF Connect, Rediscover
    <2>3. admitting'[home[s]] = admitting[home[s]]
      BY <1>0, <1>1, <1>2, <2>1 DEF Connect, Rediscover, Hello, TypeOK
    <2> QED BY <2>1, <2>2, <2>3
            DEF OverrideInv, Undisturbed, Agrees, DesiredFor, inputVars
  <1>3. CASE AdmitDone(m)
    <2>1. s \in override
      BY <1>3 DEF AdmitDone
    <2>2. s \notin Connectors(m)
      BY <1>3, <2>1 DEF AdmitDone, OverrideInv, Undisturbed, Connectors
    <2>3. lastDesired'[s] = lastDesired[s] /\ cmds'[s] = cmds[s]
      <3>1. CASE outputs \cap Connectors(m) = {}
        BY <1>3, <3>1 DEF AdmitDone
      <3>2. CASE outputs \cap Connectors(m) # {}
        <4> DEFINE d == [x \in Connectors(m) |-> ReconcileMachine(x, admitting[m].rebound)]
        <4>1. Carry(d) /\ DOMAIN d = Connectors(m)
          BY <1>3, <3>2 DEF AdmitDone
        <4> HIDE DEF d
        <4> QED BY <1>1, <2>2, <4>1 DEF Carry
      <3> QED BY <3>1, <3>2
    <2>4. ~admitting'[home[s]].hello
      BY <1>0, <1>1, <1>3, <2>1 DEF AdmitDone, TypeOK, OverrideInv, Undisturbed, Idle
    <2> QED BY <1>3, <2>1, <2>3, <2>4
            DEF AdmitDone, OverrideInv, Undisturbed, Agrees, DesiredFor, inputVars
  <1>4. CASE NoticeClose(m)
    BY <1>4 DEF NoticeClose, OverrideInv, Undisturbed, Agrees, DesiredFor, inputVars
  <1> QED BY <1>2, <1>3, <1>4 DEF Session

LEMMA BoxOverride ==
    ASSUME OverrideInv, NEW b \in Screen, Box(b)
    PROVE  /\ override' = override
           /\ \A s \in override : Undisturbed(s)' /\ ~ScheduleSpeaksTo(s)
  <1>0. override' = override /\ TypeOK
    BY DEF Box, Executes, PowerAck, OverrideInv, SessionInv
  <1> SUFFICES ASSUME NEW s \in override
               PROVE  Undisturbed(s)' /\ ~ScheduleSpeaksTo(s)
    BY <1>0
  <1>1. s \in Screen /\ cmds[s] \in Seq(Command) /\ Undisturbed(s)
    BY <1>0 DEF TypeOK, OverrideInv
  <1>2. ASSUME NEW ok \in BOOLEAN, Executes(b, ok)
        PROVE  Undisturbed(s)' /\ ~ScheduleSpeaksTo(s)
    <2>1. cmds'[s] = cmds[s] \/ (cmds[s] # <<>> /\ cmds'[s] = Tail(cmds[s]))
      BY <1>0, <1>1, <1>2 DEF Executes, TypeOK
    <2>2. ~(Len(cmds'[s]) > Len(cmds[s]))
      <3> DEFINE q == cmds[s]
      <3>1. q \in Seq(Command) /\ Len(q) \in Nat
        BY <1>1
      <3>2. q # <<>> => Len(Tail(q)) = Len(q) - 1
        BY <3>1
      <3>3. cmds'[s] = q \/ (q # <<>> /\ cmds'[s] = Tail(q))
        BY <2>1
      <3> HIDE DEF q
      <3>4. Len(cmds'[s]) = Len(q) \/ Len(cmds'[s]) = Len(q) - 1
        BY <3>2, <3>3
      <3>5. ~(Len(cmds'[s]) > Len(q))
        BY <3>1, <3>4
      <3> QED BY <3>5 DEF q
    <2>3. Undisturbed(s)'
      BY <1>1, <1>2 DEF Executes, Undisturbed, Agrees, DesiredFor, inputVars, serverVars
    <2> QED BY <2>2, <2>3 DEF ScheduleSpeaksTo
  <1>3. CASE PowerAck(b)
    <2>1. lastDesired'[s] = lastDesired[s] \/ lastDesired'[s] = NoRecord
      BY <1>0, <1>1, <1>3 DEF PowerAck, TypeOK
    <2>2. Undisturbed(s)'
      BY <1>1, <1>3, <2>1 DEF PowerAck, Undisturbed, Agrees, DesiredFor, inputVars
    <2>3. ~(Len(cmds'[s]) > Len(cmds[s]))
      BY <1>1, <1>3 DEF PowerAck
    <2> QED BY <2>2, <2>3 DEF ScheduleSpeaksTo
  <1> QED BY <1>2, <1>3 DEF Box

LEMMA OperatorOverride ==
    ASSUME OverrideInv, ScheduleMoves \/ Operator
    PROVE  /\ \A s \in override' : Undisturbed(s)'
           /\ \A s \in override : ~ScheduleSpeaksTo(s)
  <1>0. TypeOK
    BY DEF OverrideInv, SessionInv
  <1>1. CASE ScheduleMoves
    BY <1>0, <1>1 DEF ScheduleMoves, OverrideInv, Undisturbed, Agrees, DesiredFor, TypeOK,
                serverVars, ScheduleSpeaksTo
  <1>2. ASSUME NEW x \in Screen, NEW w \in Mural \cup {NoMural}, PlaceScreen(x, w)
        PROVE  /\ \A s \in override' : Undisturbed(s)'
               /\ \A s \in override : ~ScheduleSpeaksTo(s)
    BY <1>0, <1>2 DEF PlaceScreen, OverrideInv, Undisturbed, Agrees, DesiredFor, TypeOK,
                serverVars, ScheduleSpeaksTo
  <1>3. ASSUME NEW x \in Screen, NEW on \in BOOLEAN, ManualPower(x, on)
        PROVE  /\ \A s \in override' : Undisturbed(s)'
               /\ \A s \in override : ~ScheduleSpeaksTo(s)
    <2>1. UNCHANGED <<inputVars, serverVars>>
      BY <1>3 DEF ManualPower
    <2>2. ASSUME NEW s \in override'
          PROVE  Undisturbed(s)
      <3>1. CASE s \in override
        BY <3>1 DEF OverrideInv
      <3>2. CASE s = x /\ ScheduleRests(x) /\ ~admitting[home[x]].hello
        BY <3>2 DEF Undisturbed, Agrees, ScheduleRests
      <3> QED BY <1>3, <2>2, <3>1, <3>2 DEF ManualPower
    <2>3. \A s \in override' : Undisturbed(s)'
      BY <2>1, <2>2 DEF Undisturbed, Agrees, DesiredFor, inputVars, serverVars
    <2>4. ASSUME NEW s \in override
          PROVE  ~ScheduleSpeaksTo(s)
      <3>1. s \in Screen /\ cmds[s] \in Seq(Command)
        BY <1>0 DEF TypeOK
      <3>2. CASE s # x
        BY <1>0, <1>3, <3>1, <3>2 DEF ManualPower, TypeOK, ScheduleSpeaksTo
      <3>3. CASE s = x
        <4> DEFINE c == [on |-> on, by |-> "operator"]
        <4>1. cmds'[s] = cmds[s] \/ cmds'[s] = Append(cmds[s], c)
          BY <1>0, <1>3, <3>1, <3>3 DEF ManualPower, Push, TypeOK
        <4>2. CASE cmds'[s] = cmds[s]
          BY <3>1, <4>2 DEF ScheduleSpeaksTo
        <4>3. CASE cmds'[s] = Append(cmds[s], c)
          <5>1. c \in Command
            BY DEF Command, Author
          <5>2. cmds'[s][Len(cmds'[s])] = c
            BY <3>1, <4>3, <5>1
          <5> QED BY <5>2 DEF ScheduleSpeaksTo
        <4> QED BY <4>1, <4>2, <4>3
      <3> QED BY <3>2, <3>3
    <2> QED BY <2>3, <2>4
  <1> QED BY <1>1, <1>2, <1>3 DEF Operator

LEMMA FailureOverride ==
    ASSUME OverrideInv, Failure \/ \E s \in Screen : Replug(s)
    PROVE  /\ override' \subseteq override
           /\ \A s \in override' : Undisturbed(s)'
           /\ \A s \in override : ~ScheduleSpeaksTo(s)
  <1>0. TypeOK
    BY DEF OverrideInv, SessionInv
  <1>1. CASE ServerRestart
    BY <1>0, <1>1 DEF ServerRestart, TypeOK, ScheduleSpeaksTo
  <1>2. CASE ~ServerRestart
    <2>1. /\ override' = override
          /\ UNCHANGED <<inputVars, lastDesired, ticking, seen, admitting>>
      BY <1>2 DEF Failure, Drop, GoHalfOpen, Reboot, Unplug, Replug, serverVars
    <2>2. \A s \in Screen : cmds'[s] = cmds[s] \/ cmds'[s] = <<>>
      BY <1>0, <1>2 DEF Failure, Drop, GoHalfOpen, LoseFrames, Reboot, Unplug, Replug, TypeOK
    <2>3. \A s \in override : ~ScheduleSpeaksTo(s)
      BY <1>0, <2>2 DEF TypeOK, ScheduleSpeaksTo
    <2> QED BY <2>1, <2>3 DEF OverrideInv, Undisturbed, Agrees, DesiredFor, inputVars
  <1> QED BY <1>1, <1>2

LEMMA StepOverride ==
    ASSUME OverrideInv, [Next]_vars
    PROVE  /\ OverrideInv'
           /\ \A s \in override : ~ScheduleSpeaksTo(s)
  <1>0. TypeOK
    BY DEF OverrideInv, SessionInv
  <1>1. SessionInv'
    BY StepSession DEF OverrideInv
  <1>2. \A s \in override : cmds'[s] = cmds[s] => ~ScheduleSpeaksTo(s)
    BY <1>0 DEF TypeOK, ScheduleSpeaksTo
  <1>3. CASE UNCHANGED vars
    BY <1>1, <1>2, <1>3 DEF vars, inputVars, serverVars, OverrideInv, Undisturbed, Agrees, DesiredFor
  <1>4. CASE Tick
    <2>1. override' = override
      BY <1>4 DEF Tick, TickStart, TickMural
    <2> QED BY <1>1, <1>2, <1>4, <2>1, TickOverride DEF OverrideInv
  <1>5. ASSUME NEW m \in Machine, Session(m)
        PROVE  /\ OverrideInv'
               /\ \A s \in override : ~ScheduleSpeaksTo(s)
    <2>1. OverrideInv'
      BY <1>1, <1>5, SessionOverride DEF OverrideInv
    <2>2. ASSUME NEW s \in override
          PROVE  ~ScheduleSpeaksTo(s)
      <3>1. CASE s \in override'
        BY <1>2, <1>5, <3>1, SessionOverride
      <3>2. CASE s \notin override'
        <4>1. Connect(m) \/ Rediscover(m)
          BY <1>5, <3>2 DEF Session, AdmitDone, NoticeClose
        <4> QED BY <1>2, <4>1 DEF Connect, Rediscover
      <3> QED BY <3>1, <3>2
    <2> QED BY <2>1, <2>2
  <1>6. ASSUME NEW s \in Screen, Box(s)
        PROVE  /\ OverrideInv'
               /\ \A x \in override : ~ScheduleSpeaksTo(x)
    BY <1>1, <1>6, BoxOverride DEF OverrideInv
  <1>7. CASE ScheduleMoves \/ Operator
    BY <1>1, <1>7, OperatorOverride DEF OverrideInv
  <1>8. CASE Failure \/ \E s \in Screen : Replug(s)
    BY <1>1, <1>8, FailureOverride DEF OverrideInv
  <1> QED BY <1>3, <1>4, <1>5, <1>6, <1>7, <1>8 DEF Next

(* A manual wake or sleep holds until the next boundary, whatever the      *)
(* ticker, other operators, boxes and failures do in between: the memory   *)
(* of panel-power.ts records the schedule's opinion and nothing else.      *)
THEOREM ManualOverrideHolds == Spec => OverrideHolds
  <1>1. Init => OverrideInv
    <2>1. Init => SessionInv
      BY StartSession DEF Init
    <2> QED BY <2>1 DEF Init, StartWith, OverrideInv
  <1>2. OverrideInv /\ [Next]_vars => OverrideInv'
    BY StepOverride
  <1>3. OverrideInv /\ [Next]_vars => [\A s \in override : ~ScheduleSpeaksTo(s)]_vars
    BY StepOverride
  <1> QED BY <1>1, <1>2, <1>3, PTL DEF Spec, OverrideHolds
-----------------------------------------------------------------------------
(* Frames are handled in order, so what a queue leads to is what its last  *)
(* frame says.                                                             *)

LastOf(q) == q[Len(q)]

LEMMA AppendLast ==
    ASSUME NEW S, NEW q \in Seq(S), NEW x \in S
    PROVE  Append(q, x) # <<>> /\ LastOf(Append(q, x)) = x
  BY DEF LastOf

LEMMA TailLast ==
    ASSUME NEW S, NEW q \in Seq(S), q # <<>>
    PROVE  /\ Tail(q) = <<>> => LastOf(q) = Head(q)
           /\ Tail(q) # <<>> => LastOf(Tail(q)) = LastOf(q)
  <1>1. Len(q) \in Nat /\ Len(q) # 0 /\ Head(q) = q[1]
    OBVIOUS
  <1>2. /\ Tail(q) \in Seq(S) /\ Len(Tail(q)) = Len(q) - 1
        /\ \A i \in 1 .. Len(q) - 1 : Tail(q)[i] = q[i + 1]
    OBVIOUS
  <1>3. Tail(q) = <<>> => Len(q) = 1
    <2>1. Len(<<>>) = 0
      OBVIOUS
    <2>2. Tail(q) = <<>> => Len(Tail(q)) = 0
      BY <2>1, Zenon
    <2> QED BY <1>1, <1>2, <2>2
  <1>4. Tail(q) # <<>> => Len(q) - 1 \in 1 .. Len(q) - 1
    BY <1>1, <1>2
  <1> QED BY <1>1, <1>2, <1>3, <1>4 DEF LastOf

-----------------------------------------------------------------------------
(* While every command gets through, a panel that is in the schedule's     *)
(* sleep, or is about to be, is one the memory knows it slept.  All that    *)
(* is not in this story is at rest: sockets, outputs, hellos, refusals.     *)

Painted(c) == IF c.on THEN "lit" ELSE c.by
Coming(s)  == IF cmds[s] = <<>> THEN panel[s] ELSE Painted(LastOf(cmds[s]))

Quietly ==
    /\ live = Machine /\ halfOpen = {} /\ said = present /\ outputs = Screen
    /\ \A m \in Machine : ~admitting[m].hello
    /\ \A s \in Screen : \A i \in 1 .. Len(acks[s]) : acks[s][i].ok

SleepsKnown == \A s \in Screen : Coming(s) = "schedule" => ~lastDesired[s].desired

WallsInv == SessionInv /\ Quietly /\ SleepsKnown

LEMMA StartWalls ==
    ASSUME SteadyInit
    PROVE  WallsInv
  <1>1. SessionInv
    BY StartSession DEF SteadyInit
  <1> QED BY <1>1 DEF SteadyInit, StartWith, WallsInv, Quietly, SleepsKnown, Coming, Idle

LEMMA PushComes ==
    ASSUME TypeOK, NEW s \in Screen, NEW on \in BOOLEAN, NEW by \in Author
    PROVE  \/ Push(s, on, by) = cmds[s]
           \/ /\ Push(s, on, by) # <<>>
              /\ LastOf(Push(s, on, by)) = [on |-> on, by |-> by]
  <1>1. [on |-> on, by |-> by] \in Command /\ cmds[s] \in Seq(Command)
    BY DEF Command, TypeOK
  <1> QED BY <1>1, AppendLast DEF Push

(* A verdict the pass stays quiet about is one the memory agrees with.     *)
LEMMA ApplyKnows ==
    ASSUME TypeOK, NEW s \in Screen, NEW w \in Mural, NEW v \in Verdict
    PROVE  /\ ApplyMuralPower(s, w, v).send = "off" => ~ApplyMuralPower(s, w, v).record.desired
           /\ ApplyMuralPower(s, w, v).send = "quiet" /\ ~lastDesired[s].desired
                 => ~ApplyMuralPower(s, w, v).record.desired
  <1> DEFINE want == [mural |-> w, desired |-> v = "on"]
  <1>1. lastDesired[s] = NoRecord => lastDesired[s].desired
    BY DEF NoRecord
  <1>2. CASE v = "none"
    BY <1>1, <1>2 DEF ApplyMuralPower, ReleaseScreen, Quiet, Say
  <1>3. CASE v # "none"
    <2>1. want.desired = (v = "on")
      OBVIOUS
    <2>2. CASE lastDesired[s] = NoRecord \/ lastDesired[s].desired = want.desired
      <3>1. ApplyMuralPower(s, w, v) = Quiet(want)
        BY <1>3, <2>2 DEF ApplyMuralPower
      <3> QED BY <1>1, <2>2, <3>1 DEF Quiet
    <2>3. CASE ~(lastDesired[s] = NoRecord \/ lastDesired[s].desired = want.desired)
      <3>1. ApplyMuralPower(s, w, v) = Say(want, v)
        BY <1>3, <2>3 DEF ApplyMuralPower
      <3>2. v # "quiet" /\ (v = "off" => v # "on")
        BY <1>3 DEF Verdict
      <3>3. Say(want, v).record = want /\ Say(want, v).send = v
        BY DEF Say
      <3> QED BY <2>1, <3>1, <3>2, <3>3, Zenon
    <2> QED BY <2>2, <2>3
  <1> QED BY <1>2, <1>3

LEMMA MuralStepWalls ==
    ASSUME WallsInv, SessionInv', NEW w \in Mural, NEW v \in Verdict, MuralStep(w, v),
           UNCHANGED <<inputVars, outputs, admitting, asleep, linkVars,
                       acks, boxVars, override>>
    PROVE  WallsInv'
  <1> DEFINE S == {x \in Screen : placement[x] = w}
             d == [s \in S |-> ApplyMuralPower(s, w, v)]
  <1>0. TypeOK /\ TypeOK'
    BY DEF WallsInv, SessionInv
  <1>1. Carry(d) /\ DOMAIN d = S /\ d \in [S -> Decision]
    BY <1>0, ApplyDecides DEF MuralStep
  <1>2. Quietly'
    BY DEF WallsInv, Quietly, linkVars, boxVars
  <1>3. ASSUME NEW s \in Screen, Coming(s)' = "schedule"
        PROVE  ~lastDesired'[s].desired
    <2>1. panel'[s] = panel[s]
      BY DEF boxVars
    <2>2. CASE s \notin S
      <3>1. lastDesired'[s] = lastDesired[s] /\ cmds'[s] = cmds[s]
        BY <1>1, <2>2 DEF Carry
      <3> QED BY <1>3, <2>1, <3>1 DEF Coming, WallsInv, SleepsKnown
    <2>3. CASE s \in S /\ d[s].send = "quiet"
      <3>1. lastDesired'[s] = d[s].record /\ cmds'[s] = cmds[s]
        BY <1>1, <2>3 DEF Carry
      <3>2. ~lastDesired[s].desired
        BY <1>3, <2>1, <3>1 DEF Coming, WallsInv, SleepsKnown
      <3> QED BY <1>0, <2>3, <3>1, <3>2, ApplyKnows
    <2>4. CASE s \in S /\ d[s].send # "quiet"
      <3>1. lastDesired'[s] = d[s].record /\ cmds'[s] = Push(s, d[s].send = "on", "schedule")
        BY <1>1, <2>4 DEF Carry
      <3>2. Delivers(s) /\ home[s] \in live
        BY HomeAssumption DEF WallsInv, Quietly, Delivers, Online
      <3>3. /\ cmds'[s] # <<>>
            /\ LastOf(cmds'[s]) = [on |-> d[s].send = "on", by |-> "schedule"]
        <4>1. [on |-> d[s].send = "on", by |-> "schedule"] \in Command /\ cmds[s] \in Seq(Command)
          BY <1>0 DEF Command, Author, TypeOK
        <4> QED BY <3>1, <3>2, <4>1, AppendLast DEF Push
      <3>4. Painted(LastOf(cmds'[s])) = "schedule"
        BY <1>3, <3>3 DEF Coming
      <3>5. ASSUME d[s].send = "on" PROVE FALSE
        <4>1. [on |-> d[s].send = "on", by |-> "schedule"].on = (d[s].send = "on")
          OBVIOUS
        <4>2. LastOf(cmds'[s]).on
          BY <3>3, <3>5, <4>1, Zenon
        <4> QED BY <3>4, <4>2 DEF Painted
      <3>6. d[s].send = "off"
        BY <1>1, <2>4, <3>5 DEF Decision
      <3> QED BY <1>0, <2>4, <3>1, <3>6, ApplyKnows
    <2> QED BY <2>2, <2>3, <2>4
  <1> QED BY <1>2, <1>3 DEF WallsInv, SleepsKnown

LEMMA StepWalls ==
    ASSUME WallsInv, SessionInv',
           WallsNext \/ UNCHANGED vars
    PROVE  WallsInv'
  <1>0. TypeOK /\ TypeOK'
    BY DEF WallsInv, SessionInv
  <1>1. CASE UNCHANGED vars
    BY <1>1 DEF vars, inputVars, serverVars, linkVars, boxVars, WallsInv, Quietly, SleepsKnown, Coming
  <1>2. CASE ScheduleMoves
    BY <1>2 DEF ScheduleMoves, serverVars, linkVars, boxVars, WallsInv, Quietly, SleepsKnown, Coming
  <1>3. ASSUME NEW s \in Screen, NEW w \in Mural \cup {NoMural}, PlaceScreen(s, w)
        PROVE  WallsInv'
    BY <1>3 DEF PlaceScreen, serverVars, linkVars, boxVars, WallsInv, Quietly, SleepsKnown, Coming
  <1>4. ASSUME NEW s \in Screen, NEW on \in BOOLEAN, ManualPower(s, on)
        PROVE  WallsInv'
    <2>1. Quietly'
      BY <1>4 DEF ManualPower, WallsInv, Quietly, serverVars, linkVars, boxVars
    <2>2. ASSUME NEW x \in Screen, Coming(x)' = "schedule"
          PROVE  ~lastDesired'[x].desired
      <3>1. lastDesired' = lastDesired /\ panel' = panel
        BY <1>4 DEF ManualPower, serverVars, boxVars
      <3>2. cmds'[x] = cmds[x] \/ (x = s /\ cmds'[x] = Push(s, on, "operator"))
        BY <1>0, <1>4 DEF ManualPower, TypeOK
      <3>3. CASE cmds'[x] = cmds[x]
        BY <2>2, <3>1, <3>3 DEF Coming, WallsInv, SleepsKnown
      <3>4. CASE x = s /\ cmds'[x] = Push(s, on, "operator") /\ cmds'[x] # cmds[x]
        <4>1. cmds'[x] # <<>> /\ LastOf(cmds'[x]) = [on |-> on, by |-> "operator"]
          BY <1>0, <3>4, PushComes DEF Author
        <4>2. Coming(x)' # "schedule"
          BY <4>1 DEF Coming, Painted
        <4> QED BY <2>2, <4>2
      <3> QED BY <3>2, <3>3, <3>4
    <2> QED BY <2>1, <2>2 DEF WallsInv, SleepsKnown
  <1>5. CASE Tick
    <2>1. ASSUME NEW w \in Mural, TickStart(w)
          PROVE  WallsInv'
      BY <1>0, <2>1, MuralStepWalls DEF TickStart, TypeOK
    <2>2. ASSUME NEW w \in Mural, TickMural(w)
          PROVE  WallsInv'
      BY <1>0, <2>2, MuralStepWalls DEF TickMural, TypeOK
    <2> QED BY <1>5, <2>1, <2>2 DEF Tick
  <1>6. ASSUME NEW m \in Machine
        PROVE  ~Session(m)
    BY DEF Session, Connect, Rediscover, AdmitDone, NoticeClose, WallsInv, Quietly
  <1>7. ASSUME NEW s \in Screen, Executes(s, TRUE)
        PROVE  WallsInv'
    <2> DEFINE c == Head(cmds[s])
    <2>1. cmds[s] \in Seq(Command) /\ cmds[s] # <<>> /\ c \in Command
      BY <1>0, <1>7 DEF Executes, TypeOK
    <2>2. cmds'[s] = Tail(cmds[s]) /\ panel'[s] = Painted(c)
      BY <1>0, <1>7 DEF Executes, TypeOK, Painted
    <2>3. \A x \in Screen \ {s} : cmds'[x] = cmds[x] /\ panel'[x] = panel[x] /\ acks'[x] = acks[x]
      BY <1>0, <1>7 DEF Executes, TypeOK
    <2>4. Coming(s)' = Coming(s)
      BY <2>1, <2>2, TailLast DEF Coming
    <2>5. \A x \in Screen : Coming(x)' = Coming(x)
      BY <2>3, <2>4 DEF Coming
    <2>6. \A i \in 1 .. Len(acks'[s]) : acks'[s][i].ok
      <3>1. [on |-> c.on, ok |-> TRUE] \in Ack /\ acks[s] \in Seq(Ack)
        BY <1>0, <2>1 DEF TypeOK, Ack, Command
      <3>2. acks'[s] = Append(acks[s], [on |-> c.on, ok |-> TRUE])
        BY <1>0, <1>7 DEF Executes, TypeOK
      <3>3. \A i \in 1 .. Len(acks[s]) : acks[s][i].ok
        BY DEF WallsInv, Quietly
      <3> QED BY <3>1, <3>2, <3>3
    <2>7. Quietly'
      BY <1>7, <2>3, <2>6 DEF Executes, WallsInv, Quietly, serverVars, linkVars
    <2>8. lastDesired' = lastDesired
      BY <1>7 DEF Executes, serverVars
    <2> QED BY <2>5, <2>7, <2>8 DEF WallsInv, SleepsKnown
  <1>8. ASSUME NEW s \in Screen, PowerAck(s)
        PROVE  WallsInv'
    <2>1. acks[s] \in Seq(Ack) /\ acks[s] # <<>> /\ acks'[s] = Tail(acks[s])
      BY <1>0, <1>8 DEF PowerAck, TypeOK
    <2>2. Len(acks[s]) \in Nat \ {0} /\ Len(acks'[s]) = Len(acks[s]) - 1
          /\ \A i \in 1 .. Len(acks'[s]) : acks'[s][i] = acks[s][i + 1]
      BY <2>1
    <2>3. Head(acks[s]) = acks[s][1]
      BY <2>1
    <2>4. Head(acks[s]).ok /\ \A i \in 1 .. Len(acks'[s]) : acks'[s][i].ok
      BY <2>2, <2>3 DEF WallsInv, Quietly
    <2>5. \A x \in Screen \ {s} : acks'[x] = acks[x]
      BY <1>0, <1>8 DEF PowerAck, TypeOK
    <2>6. Quietly'
      BY <1>8, <2>4, <2>5 DEF PowerAck, WallsInv, Quietly, linkVars, boxVars
    <2>7. lastDesired' = lastDesired /\ cmds' = cmds /\ panel' = panel
      BY <1>8, <2>4 DEF PowerAck, boxVars
    <2> QED BY <2>6, <2>7 DEF WallsInv, SleepsKnown, Coming
  <1> QED BY <1>1, <1>2, <1>3, <1>4, <1>5, <1>6, <1>7, <1>8 DEF WallsNext, Operator

LEMMA WallsKnown ==
    ASSUME WallsInv
    PROVE  NeverStrandedInHours /\ NeverStrandedUngoverned
  <1>1. ASSUME NEW s \in Screen, Settled(s), panel[s] = "schedule"
        PROVE  ~lastDesired[s].desired
    BY <1>1 DEF Settled, WallsInv, SleepsKnown, Coming
  <1>2. NeverStrandedInHours
    BY <1>1 DEF NeverStrandedInHours, Settled, ScheduleRests, DesiredFor
  <1>3. NeverStrandedUngoverned
    BY <1>1 DEF NeverStrandedUngoverned, Settled, ScheduleRests, NoRecord
  <1> QED BY <1>2, <1>3

(* No screen of the walls' story is left in a sleep of the schedule, for   *)
(* any number of walls, screens and frames under way: the passes of        *)
(* panel-power.ts over a wall, a release and an operator's own commands     *)
(* never leave behind a sleep that the memory does not know of.             *)
THEOREM NoWallStranded == StorySpec => []WallsNotStranded
  <1> DEFINE I == story = "walls" => WallsInv
  <1>1. StoryInit => I
    BY StartWalls DEF StoryInit
  <1>2. I /\ [StoryNext]_<<vars, story>> => I'
    <2> SUFFICES ASSUME I, [StoryNext]_<<vars, story>>, story' = "walls"
                 PROVE  WallsInv'
      OBVIOUS
    <2>1. story = "walls" /\ (WallsNext \/ UNCHANGED vars)
      BY DEF StoryNext
    <2>2. SessionInv'
      <3>1. [Next]_vars
        BY <2>1 DEF WallsNext, Next, Box
      <3> QED BY <2>1, <3>1, StepSession DEF WallsInv
    <2> QED BY <2>1, <2>2, StepWalls
  <1>3. I => WallsNotStranded
    BY WallsKnown DEF WallsNotStranded
  <1> QED BY <1>1, <1>2, <1>3, PTL DEF StorySpec

-----------------------------------------------------------------------------
(* Overlapping sockets and re-created outputs apart, what the console will *)
(* show once it has read what is under way is dark.                        *)

Shows(s) == IF acks[s] = <<>> THEN s \in asleep
            ELSE LastOf(acks[s]).ok /\ ~LastOf(acks[s]).on

ConsoleInv ==
    /\ SessionInv /\ halfOpen = {} /\ present = Screen
    /\ \A s \in Screen : Shows(s) => panel[s] # "lit"

LEMMA BoxConsole ==
    ASSUME ConsoleInv, SessionInv', NEW s \in Screen, Box(s)
    PROVE  ConsoleInv'
  <1>0. TypeOK
    BY DEF ConsoleInv, SessionInv
  <1>1. ASSUME NEW ok \in BOOLEAN, Executes(s, ok)
        PROVE  ConsoleInv'
    <2> DEFINE c == Head(cmds[s])
               a == [on |-> c.on, ok |-> ok]
    <2>1. c \in Command
      <3>1. cmds[s] \in Seq(Command) /\ cmds[s] # <<>>
        BY <1>0, <1>1 DEF Executes, TypeOK
      <3> QED BY <3>1
    <2>2. acks'[s] # <<>> /\ LastOf(acks'[s]) = a
      <3>1. a \in Ack /\ acks[s] \in Seq(Ack) /\ acks'[s] = Append(acks[s], a)
        BY <1>0, <1>1, <2>1 DEF Executes, TypeOK, Ack, Command
      <3> QED BY <3>1, AppendLast
    <2>3. a.ok = ok /\ a.on = c.on
      OBVIOUS
    <2>4. Shows(s)' => ok /\ ~c.on
      BY <2>2, <2>3, Zenon DEF Shows
    <2>5. ok /\ ~c.on => panel'[s] = c.by
      BY <1>0, <1>1 DEF Executes, TypeOK
    <2>6. c.by # "lit"
      BY <2>1 DEF Command, Author
    <2>7. \A x \in Screen \ {s} : acks'[x] = acks[x] /\ panel'[x] = panel[x]
      BY <1>0, <1>1 DEF Executes, TypeOK
    <2>8. asleep' = asleep /\ halfOpen' = halfOpen /\ present' = present
      BY <1>1 DEF Executes, serverVars, linkVars
    <2>9. \A x \in Screen \ {s} : Shows(x)' = Shows(x)
      BY <2>7, <2>8, Zenon DEF Shows
    <2> QED BY <2>4, <2>5, <2>6, <2>7, <2>8, <2>9 DEF ConsoleInv
  <1>2. CASE PowerAck(s)
    <2> DEFINE a == Head(acks[s])
    <2>1. acks[s] \in Seq(Ack) /\ acks[s] # <<>> /\ acks'[s] = Tail(acks[s])
      BY <1>0, <1>2 DEF PowerAck, TypeOK
    <2>2. acks'[s] = <<>> => LastOf(acks[s]) = a
      BY <2>1, TailLast
    <2>3. acks'[s] # <<>> => LastOf(acks'[s]) = LastOf(acks[s])
      BY <2>1, TailLast
    <2>4. s \in asleep' => a.ok /\ ~a.on
      BY <1>2 DEF PowerAck
    <2>5. Shows(s)' => Shows(s)
      <3>1. CASE acks'[s] = <<>>
        BY <2>1, <2>2, <2>4, <3>1, Zenon DEF Shows
      <3>2. CASE acks'[s] # <<>>
        BY <2>1, <2>3, <3>2, Zenon DEF Shows
      <3> QED BY <3>1, <3>2
    <2>6. \A x \in Screen \ {s} : acks'[x] = acks[x] /\ (x \in asleep' <=> x \in asleep)
      BY <1>0, <1>2 DEF PowerAck, TypeOK
    <2>7. \A x \in Screen \ {s} : Shows(x)' => Shows(x)
      BY <2>6, Zenon DEF Shows
    <2>8. panel' = panel /\ present' = present /\ halfOpen' = halfOpen
      BY <1>2 DEF PowerAck, boxVars, linkVars
    <2> QED BY <2>5, <2>7, <2>8 DEF ConsoleInv
  <1> QED BY <1>1, <1>2 DEF Box

LEMMA StepConsole ==
    ASSUME ConsoleInv, SessionInv', [Next]_vars, Events \cap {"halfopen", "hotplug"} = {}
    PROVE  ConsoleInv'
  <1>0. TypeOK /\ FramesNeedLink /\ AsleepOnlyOnline
    BY DEF ConsoleInv, SessionInv
  <1>1. ASSUME acks' = acks, asleep' = asleep, panel' = panel, present' = present, halfOpen' = halfOpen
        PROVE  ConsoleInv'
    BY <1>1 DEF ConsoleInv, Shows
  <1>2. CASE ScheduleMoves \/ Operator \/ Tick \/ UNCHANGED vars
    BY <1>1, <1>2 DEF ScheduleMoves, Operator, PlaceScreen, ManualPower, Tick, TickStart, TickMural,
                     vars, serverVars, linkVars, boxVars
  <1>3. ASSUME NEW m \in Machine, Session(m)
        PROVE  ConsoleInv'
    BY <1>1, <1>3 DEF Session, Connect, Rediscover, AdmitDone, NoticeClose, ConsoleInv, boxVars, linkVars
  <1>4. ASSUME NEW m \in Machine, Drop(m)
        PROVE  ConsoleInv'
    <2>1. \A s \in Screen : Shows(s)' => Shows(s)
      <3> SUFFICES ASSUME NEW s \in Screen PROVE Shows(s)' => Shows(s)
        OBVIOUS
      <3>1. CASE home[s] = m
        BY <1>0, <1>4, <3>1 DEF Drop, LoseFrames, Offline, Connectors, ConsoleInv, Shows
      <3>2. CASE home[s] # m
        BY <1>0, <1>4, <3>2 DEF Drop, LoseFrames, Offline, Connectors, ConsoleInv, Shows
      <3> QED BY <3>1, <3>2
    <2> QED BY <1>4, <2>1 DEF Drop, ConsoleInv, boxVars
  <1>5. ASSUME NEW m \in Machine, Reboot(m)
        PROVE  ConsoleInv'
    <2>1. \A s \in Screen : Shows(s)' => Shows(s) /\ home[s] # m
      <3> SUFFICES ASSUME NEW s \in Screen PROVE Shows(s)' => Shows(s) /\ home[s] # m
        OBVIOUS
      <3>1. acks' = acks /\ asleep' = asleep /\ m \notin live \cup halfOpen
        BY <1>5 DEF Reboot, serverVars, ConsoleInv
      <3>2. home[s] = m => acks[s] = <<>> /\ s \notin asleep
        BY <1>0, <3>1 DEF FramesNeedLink, AsleepOnlyOnline, Online
      <3> QED BY <3>1, <3>2, Zenon DEF Shows
    <2>2. \A s \in Screen : home[s] # m => panel'[s] = panel[s]
      BY <1>5 DEF Reboot
    <2> QED BY <1>5, <2>1, <2>2 DEF Reboot, ConsoleInv, linkVars
  <1>6. CASE ServerRestart
    BY <1>6 DEF ServerRestart, ConsoleInv, Shows, boxVars
  <1>7. ASSUME NEW s \in Screen PROVE ~Unplug(s) /\ ~Replug(s)
    BY DEF Unplug, Replug, ConsoleInv
  <1>8. ASSUME NEW m \in Machine PROVE ~GoHalfOpen(m)
    BY DEF GoHalfOpen
  <1> QED BY <1>2, <1>3, <1>4, <1>5, <1>6, <1>7, <1>8, BoxConsole DEF Next, Failure

LEMMA ConsoleDark ==
    ASSUME ConsoleInv
    PROVE  AsleepMeansDark
  BY DEF ConsoleInv, AsleepMeansDark, Shows, SessionInv, TypeOK

(* With an ack under way for nobody, what the console shows asleep is dark, *)
(* for any screens, walls and boxes, whatever drops, reboots, is refused or *)
(* restarts; overlapping sockets and outputs that come and go are excepted. *)
THEOREM SleepsShownAreDark ==
    ASSUME Events \cap {"halfopen", "hotplug"} = {}
    PROVE  Spec => []AsleepMeansDark
  <1>1. Init => ConsoleInv
    <2>1. Init => SessionInv
      BY StartSession DEF Init
    <2> QED BY <2>1 DEF Init, StartWith, ConsoleInv, Shows
  <1>2. ConsoleInv /\ [Next]_vars => ConsoleInv'
    <2>1. ConsoleInv /\ [Next]_vars => SessionInv'
      BY StepSession DEF ConsoleInv
    <2> QED BY <2>1, StepConsole
  <1>3. ConsoleInv => AsleepMeansDark
    BY ConsoleDark
  <1> QED BY <1>1, <1>2, <1>3, PTL DEF Spec

(* The same of the console's story, whose environment has no more in it.    *)
THEOREM ConsoleIsHonest ==
    ASSUME Events \cap {"halfopen", "hotplug"} = {}
    PROVE  StorySpec => []ConsoleHonest
  <1> DEFINE I == story = "console" => ConsoleInv
  <1>1. StoryInit => I
    <2>1. Init => SessionInv
      BY StartSession DEF Init
    <2> QED BY <2>1 DEF StoryInit, Init, StartWith, ConsoleInv, Shows
  <1>2. I /\ [StoryNext]_<<vars, story>> => I'
    <2> SUFFICES ASSUME I, [StoryNext]_<<vars, story>>, story' = "console"
                 PROVE  ConsoleInv'
      OBVIOUS
    <2>1. story = "console" /\ [Next]_vars
      BY DEF StoryNext, ConsoleNext
    <2>2. SessionInv'
      BY <2>1, StepSession DEF ConsoleInv
    <2> QED BY <2>1, <2>2, StepConsole
  <1>3. I => ConsoleHonest
    BY ConsoleDark DEF ConsoleHonest
  <1> QED BY <1>1, <1>2, <1>3, PTL DEF StorySpec
=============================================================================
