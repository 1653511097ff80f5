---------------------------- MODULE UpkeepProofs ----------------------------
(***************************************************************************)
(* Proofs about what keeps a box up to date.  Of AgentUpdate, for any        *)
(* versions, boot budget and number of troubles: an update is guarded by a   *)
(* build that stayed up, and a build that stayed up is never rolled back.    *)
(* Of ImageDepot, for any number of builds, requests, crashes and builds     *)
(* kept: a kept build is the build it was.                                   *)
(***************************************************************************)
EXTENDS MCUpkeep, Sequences, TLAPS

(* The processes that are somewhere between an offer and their exit.       *)
Updating == proc.pc \in {"fetch", "wait", "mark", "exit"}
Alive    == proc.pc # "down"

(* Somebody asked for a rollback, and it may still be carried out.         *)
Undoing == request.do = "rollback" \/ script.do = "rollback"

(* The marker protects nobody: no boot of its build is left to be counted. *)
MarkerSpent == marker.target = None \/ marker.committed \/ marker.boots >= MaxUnstableBoots
Awaited     == marker.target # None /\ ~marker.committed

-----------------------------------------------------------------------------
(* The inductive invariant.                                                *)

(* Types, and what each place of the process says of the rest.             *)
Basics ==
    /\ TypeOK
    /\ proven \cap bad = {} /\ Image \notin bad
    /\ request.do = "swap" => request.version # None
    /\ script.do = "swap" => script.version # None
    /\ Alive => proc.ver # None
    /\ proc.pc \in {"down", "start", "undo"} => proc.timer = "off"
    /\ Updating => proc.offer # None
    /\ direct => request = NoRequest /\ script = NoRequest

(* Versions: what is newer than what.                                      *)
Ordered ==
    /\ Image <= served /\ bin <= served /\ bak <= bin
    /\ stage \in Version => bin <= stage /\ stage <= served
    /\ \A p \in proven : p <= bin /\ (Alive => p <= proc.ver)
    /\ bak # None /\ bin \notin proven => \A p \in proven : p <= bak
    /\ proc.pc \in {"fetch", "wait", "mark"} => proc.offer > proc.ver /\ proc.offer <= served

(* A build that is waited for has not stayed up yet, and is not staged.    *)
Unproven ==
    /\ Awaited => marker.target \notin proven
    /\ proc.pc \in {"up", "fetch", "wait"} => marker.target \in {None, proc.ver}
    /\ proc.pc \in {"mark", "exit"} => stage \notin Version
    /\ stage \in Version =>
          /\ stage \notin proven
          /\ Awaited => marker.target # stage
          /\ proc.timer = "armed" => proc.ver # stage

(* A rollback that may still come finds a build nobody vouched for.        *)
Undone ==
    /\ Undoing => MarkerSpent /\ proc.timer # "armed" /\ (bak = None \/ bin \notin proven)
    /\ proc.pc \in {"wait", "mark", "exit"} => request.do # "rollback"
    /\ proc.pc \in {"mark", "exit"} \/ (proc.pc = "wait" /\ result # "none") => script.do # "rollback"
    /\ proc.pc = "start" => bin = proc.ver \/ bin \notin proven \/ bak = None
    /\ (proc.pc = "start" /\ ~MarkerSpent) \/ proc.timer = "armed" =>
          proc.ver <= bin /\ (bin = proc.ver \/ bak = None \/ proc.ver <= bak)

(* The guard: what an update in progress and the script may count on.      *)
Trusted ==
    /\ Updating => proc.ver \in proven /\ proc.timer = "off"
    /\ proc.pc = "fetch" => bin \in proven
    /\ proc.pc \in {"start", "up"} => bin = proc.ver \/ bin \in proven
    /\ proc.pc = "undo" /\ result # "none" => bin \in proven
    /\ proc.pc \in {"wait", "mark"} => bin \in proven \/ bin = proc.offer
    /\ proc.pc = "wait" /\ result = "failed" => bin \in proven
    /\ proc.timer \in {"clear", "drop", "wait"} => bin \in proven
    /\ bak \in proven \cup {None}

Asking ==
    /\ request.do = "commit" \/ script.do = "commit" => bin \in proven
    /\ request.do = "swap" =>
          proc.pc = "wait" /\ request.version = proc.offer /\ script = NoRequest /\ result = "none"
    /\ script.do = "swap" =>
          proc.pc = "wait" /\ script.version = proc.offer /\ request = NoRequest /\ result = "none"
    /\ request.do = "swap" \/ script.do = "swap" => bin \in proven

Guard == Guarded /\ (~spoilt => Trusted /\ Asking)

UpdateInv == Basics /\ Ordered /\ Unproven /\ Undone /\ Guard

-----------------------------------------------------------------------------
(* A version, or none, is a number. *)
LEMMA VersionIsNumber ==
    ASSUME UpdateAssumption, NEW v \in Version \cup {None}
    PROVE  v \in Nat
  <1>1. CASE v \in Version
    BY <1>1 DEF UpdateAssumption
  <1>2. CASE v = 0
    BY <1>2
  <1> QED BY <1>1, <1>2 DEF None

-----------------------------------------------------------------------------
(* Every action keeps it.                                                  *)

LEMMA ReleaseKeeps ==
    ASSUME UpdateAssumption, UpdateInv, Release
    PROVE  UpdateInv'
  <1> USE UpdateAssumption DEF UpdateAssumption, Release, files, None, Torn, NoMarker, NoRequest, Down,
           Updating, Alive, Undoing, MarkerSpent, Awaited, Pc, Timer, Do
  <1>1. Basics'
    BY DEF UpdateInv, Basics, TypeOK
  <1>2. Ordered'
    <2>1. served' \in Nat /\ served \in Nat /\ served' > served
      BY DEF UpdateInv, Basics, TypeOK
    <2>2. Image \in Nat /\ bin \in Nat /\ (stage \in Version => stage \in Nat)
      BY DEF UpdateInv, Basics, TypeOK
    <2>4. proc.offer \in Nat
      <3>1. proc.offer \in Version \cup {0}
        BY DEF UpdateInv, Basics, TypeOK
      <3> QED BY <3>1, VersionIsNumber
    <2>3. Image <= served' /\ bin <= served' /\ (stage \in Version /\ stage <= served => stage <= served')
          /\ (proc.offer <= served => proc.offer <= served')
      BY <2>1, <2>2, <2>4 DEF UpdateInv, Ordered
    <2> QED BY <2>3 DEF UpdateInv, Ordered
  <1>3. Unproven'
    BY DEF UpdateInv, Basics, TypeOK, Ordered, Unproven
  <1>4. Undone'
    BY DEF UpdateInv, Basics, TypeOK, Ordered, Unproven, Undone
  <1>5. Guard'
    BY DEF UpdateInv, Basics, TypeOK, Ordered, Guard, Guarded, Trusted, Asking
  <1> QED BY <1>1, <1>2, <1>3, <1>4, <1>5 DEF UpdateInv

LEMMA LaunchKeeps ==
    ASSUME UpdateAssumption, UpdateInv, Launch
    PROVE  UpdateInv'
  <1> USE UpdateAssumption DEF UpdateAssumption, Launch, files, None, Torn, NoMarker, NoRequest, Down,
           Updating, Alive, Undoing, MarkerSpent, Awaited, Pc, Timer, Do
  <1>1. Basics'
    <2>1. proc' = [pc |-> "start", ver |-> bin, offer |-> 0, attempted |-> {}, missed |-> {},
                   timer |-> "off"]
      OBVIOUS
    <2> QED BY <2>1 DEF UpdateInv, Basics, TypeOK
  <1>2. Ordered'
    BY DEF UpdateInv, Basics, TypeOK, Ordered
  <1>3. Unproven'
    BY DEF UpdateInv, Basics, TypeOK, Ordered, Unproven
  <1>4. Undone'
    BY DEF UpdateInv, Basics, TypeOK, Ordered, Unproven, Undone
  <1>5. Guard'
    BY DEF UpdateInv, Basics, TypeOK, Ordered, Guard, Guarded, Trusted, Asking
  <1> QED BY <1>1, <1>2, <1>3, <1>4, <1>5 DEF UpdateInv

LEMMA ReconcileKeeps ==
    ASSUME UpdateAssumption, UpdateInv, Reconcile
    PROVE  UpdateInv'
  <1> USE UpdateAssumption DEF UpdateAssumption, Reconcile, Decision, files, None, Torn, NoMarker, NoRequest, Down,
           Updating, Alive, Undoing, MarkerSpent, Awaited, Pc, Timer, Do
  <1>1. Basics'
    <2>1. marker.boots \in Nat /\ MaxUnstableBoots \in Nat
      BY DEF UpdateInv, Basics, TypeOK
    <2>2. marker' \in [target : Version \cup {0}, boots : 0..MaxUnstableBoots, committed : BOOLEAN]
      BY <2>1 DEF UpdateInv, Basics, TypeOK
    <2>3. proc' \in [pc : Pc, ver : Version \cup {0}, offer : Version \cup {0},
                     attempted : SUBSET Version, missed : SUBSET Version, timer : Timer]
          /\ proc'.pc = "up" /\ proc'.ver = proc.ver
      BY DEF UpdateInv, Basics, TypeOK
    <2> QED BY <2>2, <2>3 DEF UpdateInv, Basics, TypeOK
  <1>2. Ordered'
    BY DEF UpdateInv, Basics, TypeOK, Ordered
  <1>3. Unproven'
    BY DEF UpdateInv, Basics, TypeOK, Ordered, Unproven
  <1>4. Undone'
    BY DEF UpdateInv, Basics, TypeOK, Ordered, Unproven, Undone
  <1>5. Guard'
    BY DEF UpdateInv, Basics, TypeOK, Ordered, Guard, Guarded, Trusted, Asking
  <1> QED BY <1>1, <1>2, <1>3, <1>4, <1>5 DEF UpdateInv

LEMMA RollBackKeeps ==
    ASSUME UpdateAssumption, UpdateInv, RollBack
    PROVE  UpdateInv'
  <1> USE UpdateAssumption DEF UpdateAssumption, RollBack, Decision, Ask, Phased, files, None, Torn, NoMarker, NoRequest, Down,
           Updating, Alive, Undoing, MarkerSpent, Awaited, Pc, Timer, Do
  <1>1. Basics'
    <2>1. proc' \in [pc : Pc, ver : Version \cup {0}, offer : Version \cup {0},
                     attempted : SUBSET Version, missed : SUBSET Version, timer : Timer]
          /\ proc'.pc \in {"up", "down", "undo"} /\ proc'.ver = proc.ver /\ proc'.timer = proc.timer
      BY DEF UpdateInv, Basics, TypeOK
    <2>2. NoMarker \in [target : Version \cup {0}, boots : 0..MaxUnstableBoots, committed : BOOLEAN]
      OBVIOUS
    <2>3. CASE direct
      <3>1. bin' \in Version /\ bak' = 0 /\ marker' = NoMarker /\ proc'.pc \in {"up", "down"}
        BY <2>3 DEF UpdateInv, Basics, TypeOK
      <3>2. UNCHANGED <<served, bad, direct, stage, request, result, script, proven, spoilt, left>>
        BY <2>3
      <3>3. TypeOK'
        BY <2>1, <2>2, <3>1, <3>2 DEF UpdateInv, Basics, TypeOK
      <3>4. proc'.timer = "off" /\ proc'.ver # 0
        BY <2>1 DEF UpdateInv, Basics
      <3> HIDE DEF RollBack
      <3> QED BY <3>3, <3>4, <2>1, <2>2, <2>3, <3>1, <3>2 DEF UpdateInv, Basics
    <2>4. CASE ~direct
      BY <2>1, <2>4 DEF UpdateInv, Basics, TypeOK
    <2> QED BY <2>3, <2>4
  <1>2. Ordered'
    BY DEF UpdateInv, Basics, TypeOK, Ordered, Unproven, Undone
  <1>3. Unproven'
    BY DEF UpdateInv, Basics, TypeOK, Ordered, Unproven
  <1>4. Undone'
    BY DEF UpdateInv, Basics, TypeOK, Ordered, Unproven, Undone
  <1>5. Guard'
    BY DEF UpdateInv, Basics, TypeOK, Ordered, Guard, Guarded, Trusted, Asking
  <1> QED BY <1>1, <1>2, <1>3, <1>4, <1>5 DEF UpdateInv

LEMMA UndoAnsweredKeeps ==
    ASSUME UpdateAssumption, UpdateInv, UndoAnswered
    PROVE  UpdateInv'
  <1> USE UpdateAssumption DEF UpdateAssumption, UndoAnswered, Phased, files, None, Torn, NoMarker, NoRequest, Down,
           Updating, Alive, Undoing, MarkerSpent, Awaited, Pc, Timer, Do
  <1>1. Basics'
    BY DEF UpdateInv, Basics, TypeOK
  <1>2. Ordered'
    BY DEF UpdateInv, Basics, TypeOK, Ordered
  <1>3. Unproven'
    BY DEF UpdateInv, Basics, TypeOK, Ordered, Unproven
  <1>4. Undone'
    BY DEF UpdateInv, Basics, TypeOK, Ordered, Unproven, Undone
  <1>5. Guard'
    BY DEF UpdateInv, Basics, TypeOK, Ordered, Guard, Guarded, Trusted, Asking
  <1> QED BY <1>1, <1>2, <1>3, <1>4, <1>5 DEF UpdateInv

LEMMA OfferedKeeps ==
    ASSUME UpdateAssumption, UpdateInv, Offered
    PROVE  UpdateInv'
  <1> USE UpdateAssumption DEF UpdateAssumption, Offered, Newer, files, None, Torn, NoMarker, NoRequest, Down,
           Updating, Alive, Undoing, MarkerSpent, Awaited, Pc, Timer, Do
  <1>1. Basics'
    <2>1. proc' \in [pc : Pc, ver : Version \cup {0}, offer : Version \cup {0},
                     attempted : SUBSET Version, missed : SUBSET Version, timer : Timer]
      <3>1. /\ served \in Version
            /\ proc \in [pc : Pc, ver : Version \cup {0}, offer : Version \cup {0},
                         attempted : SUBSET Version, missed : SUBSET Version, timer : Timer]
        BY DEF UpdateInv, Basics, TypeOK
      <3>2. "fetch" \in Pc /\ proc.attempted \cup {served} \in SUBSET Version
        BY <3>1
      <3> HIDE DEF Pc, Timer
      <3> QED BY <3>1, <3>2
    <2> QED BY <2>1 DEF UpdateInv, Basics, TypeOK
  <1>2. Ordered'
    BY DEF UpdateInv, Basics, TypeOK, Ordered
  <1>3. Unproven'
    BY DEF UpdateInv, Basics, TypeOK, Ordered, Unproven
  <1>4. Undone'
    BY DEF UpdateInv, Basics, TypeOK, Ordered, Unproven, Undone
  <1>5. Guard'
    <2>1. ~spoilt' => ~spoilt /\ proc.timer = "off" /\ proc.ver \in proven
      OBVIOUS
    <2>2. proc'.pc = "fetch" /\ proc'.ver = proc.ver /\ proc'.timer = proc.timer
      BY DEF UpdateInv, Basics, TypeOK
    <2>3. CASE spoilt'
      BY <2>3 DEF Guard, Guarded
    <2>4. CASE ~spoilt'
      BY <2>1, <2>2, <2>4 DEF UpdateInv, Basics, TypeOK, Ordered, Guard, Guarded, Trusted, Asking
    <2> QED BY <2>3, <2>4
  <1> QED BY <1>1, <1>2, <1>3, <1>4, <1>5 DEF UpdateInv

LEMMA FetchedKeeps ==
    ASSUME UpdateAssumption, UpdateInv, Fetched
    PROVE  UpdateInv'
  <1> USE UpdateAssumption DEF UpdateAssumption, Fetched, Install, Ask, Phased, files, None, Torn, NoMarker, NoRequest, Down,
           Updating, Alive, Undoing, MarkerSpent, Awaited, Pc, Timer, Do
  <1>1. Basics'
    BY DEF UpdateInv, Basics, TypeOK
  <1>2. Ordered'
    BY DEF UpdateInv, Basics, TypeOK, Ordered
  <1>3. Unproven'
    BY DEF UpdateInv, Basics, TypeOK, Ordered, Unproven
  <1>4. Undone'
    BY DEF UpdateInv, Basics, TypeOK, Ordered, Unproven, Undone
  <1>5. Guard'
    <2>1. ~spoilt' => ~spoilt /\ script = NoRequest
      OBVIOUS
    <2>2. CASE spoilt'
      BY <2>2 DEF Guard, Guarded
    <2>3. CASE ~spoilt'
      <3>1. CASE served # proc.offer
        BY <2>1, <2>3, <3>1 DEF UpdateInv, Basics, TypeOK, Ordered, Guard, Guarded, Trusted, Asking
      <3>2. CASE served = proc.offer /\ direct
        BY <2>1, <2>3, <3>2 DEF UpdateInv, Basics, TypeOK, Ordered, Guard, Guarded, Trusted, Asking
      <3>3. CASE served = proc.offer /\ ~direct
        BY <2>1, <2>3, <3>3 DEF UpdateInv, Basics, TypeOK, Ordered, Guard, Guarded, Trusted, Asking
      <3> QED BY <3>1, <3>2, <3>3
    <2> QED BY <2>2, <2>3
  <1> QED BY <1>1, <1>2, <1>3, <1>4, <1>5 DEF UpdateInv

LEMMA FetchFailsKeeps ==
    ASSUME UpdateAssumption, UpdateInv, FetchFails
    PROVE  UpdateInv'
  <1> USE UpdateAssumption DEF UpdateAssumption, FetchFails, Trouble, files, None, Torn, NoMarker, NoRequest, Down,
           Updating, Alive, Undoing, MarkerSpent, Awaited, Pc, Timer, Do
  <1>1. Basics'
    <2>1. proc' \in [pc : Pc, ver : Version \cup {0}, offer : Version \cup {0},
                     attempted : SUBSET Version, missed : SUBSET Version, timer : Timer]
      BY ZenonT(40) DEF UpdateInv, Basics, TypeOK
    <2> QED BY <2>1 DEF UpdateInv, Basics, TypeOK
  <1>2. Ordered'
    BY DEF UpdateInv, Basics, TypeOK, Ordered
  <1>3. Unproven'
    BY DEF UpdateInv, Basics, TypeOK, Ordered, Unproven
  <1>4. Undone'
    BY DEF UpdateInv, Basics, TypeOK, Ordered, Unproven, Undone
  <1>5. Guard'
    BY DEF UpdateInv, Basics, TypeOK, Ordered, Guard, Guarded, Trusted, Asking
  <1> QED BY <1>1, <1>2, <1>3, <1>4, <1>5 DEF UpdateInv

LEMMA SwapAnsweredKeeps ==
    ASSUME UpdateAssumption, UpdateInv, SwapAnswered
    PROVE  UpdateInv'
  <1> USE UpdateAssumption DEF UpdateAssumption, SwapAnswered, Phased, files, None, Torn, NoMarker, NoRequest, Down,
           Updating, Alive, Undoing, MarkerSpent, Awaited, Pc, Timer, Do
  <1>1. Basics'
    BY DEF UpdateInv, Basics, TypeOK
  <1>2. Ordered'
    BY DEF UpdateInv, Basics, TypeOK, Ordered
  <1>3. Unproven'
    BY DEF UpdateInv, Basics, TypeOK, Ordered, Unproven
  <1>4. Undone'
    BY DEF UpdateInv, Basics, TypeOK, Ordered, Unproven, Undone
  <1>5. Guard'
    BY DEF UpdateInv, Basics, TypeOK, Ordered, Guard, Guarded, Trusted, Asking
  <1> QED BY <1>1, <1>2, <1>3, <1>4, <1>5 DEF UpdateInv

LEMMA MarkKeeps ==
    ASSUME UpdateAssumption, UpdateInv, Mark
    PROVE  UpdateInv'
  <1> USE UpdateAssumption DEF UpdateAssumption, Mark, Phased, files, None, Torn, NoMarker, NoRequest, Down,
           Updating, Alive, Undoing, MarkerSpent, Awaited, Pc, Timer, Do
  <1>1. Basics'
    BY DEF UpdateInv, Basics, TypeOK
  <1>2. Ordered'
    BY DEF UpdateInv, Basics, TypeOK, Ordered
  <1>3. Unproven'
    BY DEF UpdateInv, Basics, TypeOK, Ordered, Unproven
  <1>4. Undone'
    BY DEF UpdateInv, Basics, TypeOK, Ordered, Unproven, Undone
  <1>5. Guard'
    BY DEF UpdateInv, Basics, TypeOK, Ordered, Guard, Guarded, Trusted, Asking
  <1> QED BY <1>1, <1>2, <1>3, <1>4, <1>5 DEF UpdateInv

LEMMA ExitKeeps ==
    ASSUME UpdateAssumption, UpdateInv, Exit
    PROVE  UpdateInv'
  <1> USE UpdateAssumption DEF UpdateAssumption, Exit, files, None, Torn, NoMarker, NoRequest, Down,
           Updating, Alive, Undoing, MarkerSpent, Awaited, Pc, Timer, Do
  <1>1. Basics'
    BY DEF UpdateInv, Basics, TypeOK
  <1>2. Ordered'
    BY DEF UpdateInv, Basics, TypeOK, Ordered
  <1>3. Unproven'
    BY DEF UpdateInv, Basics, TypeOK, Ordered, Unproven
  <1>4. Undone'
    BY DEF UpdateInv, Basics, TypeOK, Ordered, Unproven, Undone
  <1>5. Guard'
    BY DEF UpdateInv, Basics, TypeOK, Ordered, Guard, Guarded, Trusted, Asking
  <1> QED BY <1>1, <1>2, <1>3, <1>4, <1>5 DEF UpdateInv

LEMMA StableKeeps ==
    ASSUME UpdateAssumption, UpdateInv, Stable
    PROVE  UpdateInv'
  <1> USE UpdateAssumption DEF UpdateAssumption, Stable, Timed, files, None, Torn, NoMarker, NoRequest, Down,
           Updating, Alive, Undoing, MarkerSpent, Awaited, Pc, Timer, Do
  <1>1. Basics'
    BY DEF UpdateInv, Basics, TypeOK
  <1>2. Ordered'
    BY DEF UpdateInv, Basics, TypeOK, Ordered, Unproven, Undone
  <1>3. Unproven'
    BY DEF UpdateInv, Basics, TypeOK, Ordered, Unproven
  <1>4. Undone'
    BY DEF UpdateInv, Basics, TypeOK, Ordered, Unproven, Undone
  <1>5. Guard'
    BY DEF UpdateInv, Basics, TypeOK, Ordered, Guard, Guarded, Trusted, Asking
  <1> QED BY <1>1, <1>2, <1>3, <1>4, <1>5 DEF UpdateInv

LEMMA ClearMarkerKeeps ==
    ASSUME UpdateAssumption, UpdateInv, ClearMarker
    PROVE  UpdateInv'
  <1> USE UpdateAssumption DEF UpdateAssumption, ClearMarker, Timed, files, None, Torn, NoMarker, NoRequest, Down,
           Updating, Alive, Undoing, MarkerSpent, Awaited, Pc, Timer, Do
  <1>1. Basics'
    BY DEF UpdateInv, Basics, TypeOK
  <1>2. Ordered'
    BY DEF UpdateInv, Basics, TypeOK, Ordered
  <1>3. Unproven'
    BY DEF UpdateInv, Basics, TypeOK, Ordered, Unproven
  <1>4. Undone'
    BY DEF UpdateInv, Basics, TypeOK, Ordered, Unproven, Undone
  <1>5. Guard'
    BY DEF UpdateInv, Basics, TypeOK, Ordered, Guard, Guarded, Trusted, Asking
  <1> QED BY <1>1, <1>2, <1>3, <1>4, <1>5 DEF UpdateInv

LEMMA DropBackupKeeps ==
    ASSUME UpdateAssumption, UpdateInv, DropBackup
    PROVE  UpdateInv'
  <1> USE UpdateAssumption DEF UpdateAssumption, DropBackup, Timed, Ask, files, None, Torn, NoMarker, NoRequest, Down,
           Updating, Alive, Undoing, MarkerSpent, Awaited, Pc, Timer, Do
  <1>1. Basics'
    BY DEF UpdateInv, Basics, TypeOK
  <1>2. Ordered'
    BY DEF UpdateInv, Basics, TypeOK, Ordered
  <1>3. Unproven'
    BY DEF UpdateInv, Basics, TypeOK, Ordered, Unproven
  <1>4. Undone'
    BY DEF UpdateInv, Basics, TypeOK, Ordered, Unproven, Undone
  <1>5. Guard'
    BY DEF UpdateInv, Basics, TypeOK, Ordered, Guard, Guarded, Trusted, Asking
  <1> QED BY <1>1, <1>2, <1>3, <1>4, <1>5 DEF UpdateInv

LEMMA DropAnsweredKeeps ==
    ASSUME UpdateAssumption, UpdateInv, DropAnswered
    PROVE  UpdateInv'
  <1> USE UpdateAssumption DEF UpdateAssumption, DropAnswered, Timed, files, None, Torn, NoMarker, NoRequest, Down,
           Updating, Alive, Undoing, MarkerSpent, Awaited, Pc, Timer, Do
  <1>1. Basics'
    BY DEF UpdateInv, Basics, TypeOK
  <1>2. Ordered'
    BY DEF UpdateInv, Basics, TypeOK, Ordered
  <1>3. Unproven'
    BY DEF UpdateInv, Basics, TypeOK, Ordered, Unproven
  <1>4. Undone'
    BY DEF UpdateInv, Basics, TypeOK, Ordered, Unproven, Undone
  <1>5. Guard'
    BY DEF UpdateInv, Basics, TypeOK, Ordered, Guard, Guarded, Trusted, Asking
  <1> QED BY <1>1, <1>2, <1>3, <1>4, <1>5 DEF UpdateInv

LEMMA TakeRequestKeeps ==
    ASSUME UpdateAssumption, UpdateInv, TakeRequest
    PROVE  UpdateInv'
  <1> USE UpdateAssumption DEF UpdateAssumption, TakeRequest, files, None, Torn, NoMarker, NoRequest, Down,
           Updating, Alive, Undoing, MarkerSpent, Awaited, Pc, Timer, Do
  <1>1. Basics'
    BY DEF UpdateInv, Basics, TypeOK
  <1>2. Ordered'
    BY DEF UpdateInv, Basics, TypeOK, Ordered
  <1>3. Unproven'
    BY DEF UpdateInv, Basics, TypeOK, Ordered, Unproven
  <1>4. Undone'
    BY DEF UpdateInv, Basics, TypeOK, Ordered, Unproven, Undone
  <1>5. Guard'
    BY DEF UpdateInv, Basics, TypeOK, Ordered, Guard, Guarded, Trusted, Asking
  <1> QED BY <1>1, <1>2, <1>3, <1>4, <1>5 DEF UpdateInv

LEMMA RunScriptKeeps ==
    ASSUME UpdateAssumption, UpdateInv, RunScript
    PROVE  UpdateInv'
  <1> USE UpdateAssumption DEF UpdateAssumption, RunScript, Install, Refuse, Matches, files, None, Torn, NoMarker, NoRequest, Down,
           Updating, Alive, Undoing, MarkerSpent, Awaited, Pc, Timer, Do
  <1>1. Basics'
    BY DEF UpdateInv, Basics, TypeOK
  <1>2. Ordered'
    BY DEF UpdateInv, Basics, TypeOK, Ordered, Unproven, Undone
  <1>3. Unproven'
    BY DEF UpdateInv, Basics, TypeOK, Ordered, Unproven
  <1>4. Undone'
    <2>1. CASE script.do = "commit"
      BY <2>1 DEF UpdateInv, Basics, TypeOK, Ordered, Unproven, Undone
    <2>2. CASE script.do = "rollback"
      BY <2>2 DEF UpdateInv, Basics, TypeOK, Ordered, Unproven, Undone
    <2>3. CASE script.do = "swap"
      <3>1. stage = script.version => bin <= stage /\ stage \notin proven /\ stage \in Nat /\ bin \in Nat
        BY <2>3 DEF UpdateInv, Basics, TypeOK, Ordered, Unproven
      <3>2. stage' = 0 /\ result' \in {"ok", "failed"} /\ script' = NoRequest
            /\ UNCHANGED <<marker, proc, proven>>
            /\ request'.do \in {request.do, "none"}
        BY <2>3
      <3>3. CASE stage = script.version
        <4>1. bak' = bin /\ bin' = stage /\ bin \in Nat /\ stage \in Nat /\ bin <= stage
              /\ stage \notin proven
          BY <2>3, <3>1, <3>3
        <4>2. (proc.pc = "start" /\ ~MarkerSpent) \/ proc.timer = "armed" =>
                  proc.ver <= bin /\ proc.ver <= bin'
          <5>1. proc.ver \in Nat
            <6>1. proc.ver \in Version \cup {0}
              BY DEF UpdateInv, Basics, TypeOK
            <6> QED BY <6>1, VersionIsNumber
          <5> QED BY <4>1, <5>1 DEF UpdateInv, Undone
        <4> HIDE DEF RunScript
        <4> QED BY <2>3, <3>2, <4>1, <4>2 DEF UpdateInv, Undone
      <3>4. CASE stage # script.version
        <4>1. UNCHANGED <<bin, bak>>
          BY <2>3, <3>4
        <4> HIDE DEF RunScript
        <4> QED BY <2>3, <3>2, <4>1 DEF UpdateInv, Undone
      <3> QED BY <3>3, <3>4
    <2> QED BY <2>1, <2>2, <2>3
  <1>5. Guard'
    BY DEF UpdateInv, Basics, TypeOK, Ordered, Guard, Guarded, Trusted, Asking
  <1> QED BY <1>1, <1>2, <1>3, <1>4, <1>5 DEF UpdateInv

LEMMA SwapTimedOutKeeps ==
    ASSUME UpdateAssumption, UpdateInv, SwapTimedOut
    PROVE  UpdateInv'
  <1> USE UpdateAssumption DEF UpdateAssumption, SwapTimedOut, TimesOut, Trouble, Phased, files, None, Torn, NoMarker, NoRequest, Down,
           Updating, Alive, Undoing, MarkerSpent, Awaited, Pc, Timer, Do
  <1>1. Basics'
    BY DEF UpdateInv, Basics, TypeOK
  <1>2. Ordered'
    BY DEF UpdateInv, Basics, TypeOK, Ordered
  <1>3. Unproven'
    BY DEF UpdateInv, Basics, TypeOK, Ordered, Unproven
  <1>4. Undone'
    BY DEF UpdateInv, Basics, TypeOK, Ordered, Unproven, Undone
  <1>5. Guard'
    BY DEF UpdateInv, Basics, TypeOK, Ordered, Guard, Guarded, Trusted, Asking
  <1> QED BY <1>1, <1>2, <1>3, <1>4, <1>5 DEF UpdateInv

LEMMA UndoTimedOutKeeps ==
    ASSUME UpdateAssumption, UpdateInv, UndoTimedOut
    PROVE  UpdateInv'
  <1> USE UpdateAssumption DEF UpdateAssumption, UndoTimedOut, TimesOut, Trouble, Phased, files, None, Torn, NoMarker, NoRequest, Down,
           Updating, Alive, Undoing, MarkerSpent, Awaited, Pc, Timer, Do
  <1>1. Basics'
    BY DEF UpdateInv, Basics, TypeOK
  <1>2. Ordered'
    BY DEF UpdateInv, Basics, TypeOK, Ordered
  <1>3. Unproven'
    BY DEF UpdateInv, Basics, TypeOK, Ordered, Unproven
  <1>4. Undone'
    BY DEF UpdateInv, Basics, TypeOK, Ordered, Unproven, Undone
  <1>5. Guard'
    BY DEF UpdateInv, Basics, TypeOK, Ordered, Guard, Guarded, Trusted, Asking
  <1> QED BY <1>1, <1>2, <1>3, <1>4, <1>5 DEF UpdateInv

LEMMA DropTimedOutKeeps ==
    ASSUME UpdateAssumption, UpdateInv, DropTimedOut
    PROVE  UpdateInv'
  <1> USE UpdateAssumption DEF UpdateAssumption, DropTimedOut, TimesOut, Trouble, Timed, files, None, Torn, NoMarker, NoRequest, Down,
           Updating, Alive, Undoing, MarkerSpent, Awaited, Pc, Timer, Do
  <1>1. Basics'
    BY DEF UpdateInv, Basics, TypeOK
  <1>2. Ordered'
    BY DEF UpdateInv, Basics, TypeOK, Ordered
  <1>3. Unproven'
    BY DEF UpdateInv, Basics, TypeOK, Ordered, Unproven
  <1>4. Undone'
    BY DEF UpdateInv, Basics, TypeOK, Ordered, Unproven, Undone
  <1>5. Guard'
    BY DEF UpdateInv, Basics, TypeOK, Ordered, Guard, Guarded, Trusted, Asking
  <1> QED BY <1>1, <1>2, <1>3, <1>4, <1>5 DEF UpdateInv

LEMMA DieKeeps ==
    ASSUME UpdateAssumption, UpdateInv, Die
    PROVE  UpdateInv'
  <1> USE UpdateAssumption DEF UpdateAssumption, Die, files, None, Torn, NoMarker, NoRequest, Down,
           Updating, Alive, Undoing, MarkerSpent, Awaited, Pc, Timer, Do
  <1>1. Basics'
    BY DEF UpdateInv, Basics, TypeOK
  <1>2. Ordered'
    BY DEF UpdateInv, Basics, TypeOK, Ordered
  <1>3. Unproven'
    BY DEF UpdateInv, Basics, TypeOK, Ordered, Unproven
  <1>4. Undone'
    BY DEF UpdateInv, Basics, TypeOK, Ordered, Unproven, Undone
  <1>5. Guard'
    <2>1. proc.ver \notin proven
      BY DEF UpdateInv, Basics
    <2>2. ~spoilt => ~Updating
      BY <2>1 DEF UpdateInv, Guard, Trusted
    <2>3. CASE spoilt
      BY <2>3 DEF Guard, Guarded
    <2>4. CASE ~spoilt
      BY <2>2, <2>4 DEF UpdateInv, Basics, TypeOK, Ordered, Guard, Guarded, Trusted, Asking
    <2> QED BY <2>3, <2>4
  <1> QED BY <1>1, <1>2, <1>3, <1>4, <1>5 DEF UpdateInv

LEMMA KillKeeps ==
    ASSUME UpdateAssumption, UpdateInv, Kill
    PROVE  UpdateInv'
  <1> USE UpdateAssumption DEF UpdateAssumption, Kill, Trouble, files, None, Torn, NoMarker, NoRequest, Down,
           Updating, Alive, Undoing, MarkerSpent, Awaited, Pc, Timer, Do
  <1>1. Basics'
    BY DEF UpdateInv, Basics, TypeOK
  <1>2. Ordered'
    BY DEF UpdateInv, Basics, TypeOK, Ordered
  <1>3. Unproven'
    BY DEF UpdateInv, Basics, TypeOK, Ordered, Unproven
  <1>4. Undone'
    BY DEF UpdateInv, Basics, TypeOK, Ordered, Unproven, Undone
  <1>5. Guard'
    <2>1. ~spoilt' => ~spoilt /\ proc.pc \notin {"wait", "mark"}
      OBVIOUS
    <2>2. CASE spoilt'
      BY <2>2 DEF Guard, Guarded
    <2>3. CASE ~spoilt'
      BY <2>1, <2>3 DEF UpdateInv, Basics, TypeOK, Ordered, Guard, Guarded, Trusted, Asking
    <2> QED BY <2>2, <2>3
  <1> QED BY <1>1, <1>2, <1>3, <1>4, <1>5 DEF UpdateInv

LEMMA PowerCutKeeps ==
    ASSUME UpdateAssumption, UpdateInv, PowerCut
    PROVE  UpdateInv'
  <1> USE UpdateAssumption DEF UpdateAssumption, PowerCut, Trouble, files, None, Torn, NoMarker, NoRequest, Down,
           Updating, Alive, Undoing, MarkerSpent, Awaited, Pc, Timer, Do
  <1>1. Basics'
    <2>1. proc' \in [pc : Pc, ver : Version \cup {0}, offer : Version \cup {0},
                     attempted : SUBSET Version, missed : SUBSET Version, timer : Timer]
      OBVIOUS
    <2>2. left' \in 0..MaxTroubles
      BY DEF UpdateInv, Basics, TypeOK
    <2>3. NoRequest \in [do : Do, version : Version \cup {0}]
      OBVIOUS
    <2>4. NoMarker \in [target : Version \cup {0}, boots : 0..MaxUnstableBoots, committed : BOOLEAN]
      OBVIOUS
    <2>5. spoilt' \in BOOLEAN
      BY DEF UpdateInv, Basics, TypeOK
    <2>6. bin' \in Version /\ bak' \in Version \cup {0} /\ stage' \in Version \cup {0, 99}
          /\ proven' \subseteq Version
      <3>1. CASE bin' = Image /\ bak' = None /\ marker' = NoMarker /\ stage' = None
                 /\ proven' = {Image} /\ spoilt' = FALSE
        BY <3>1
      <3>2. CASE UNCHANGED <<bin, bak, marker, proven>> /\ stage' = IF direct THEN stage ELSE None
        BY <3>2 DEF UpdateInv, Basics, TypeOK
      <3> QED BY <3>1, <3>2
    <2>7. marker' \in [target : Version \cup {0}, boots : 0..MaxUnstableBoots, committed : BOOLEAN]
      BY <2>4 DEF UpdateInv, Basics, TypeOK
    <2>8. proven' \cap bad' = {}
      BY DEF UpdateInv, Basics
    <2> QED BY <2>1, <2>2, <2>3, <2>5, <2>6, <2>7, <2>8 DEF UpdateInv, Basics, TypeOK
  <1>2. Ordered'
    <2>1. CASE bin' = Image /\ bak' = None /\ marker' = NoMarker /\ stage' = None
               /\ proven' = {Image} /\ spoilt' = FALSE
      BY <2>1 DEF UpdateInv, Basics, TypeOK, Ordered
    <2>2. CASE UNCHANGED <<bin, bak, marker, proven>> /\ stage' = (IF direct THEN stage ELSE None)
               /\ spoilt' = (spoilt \/ proc.pc \in {"wait", "mark"})
      BY <2>2 DEF UpdateInv, Basics, TypeOK, Ordered
    <2> QED BY <2>1, <2>2
  <1>3. Unproven'
    BY DEF UpdateInv, Basics, TypeOK, Ordered, Unproven
  <1>4. Undone'
    BY DEF UpdateInv, Basics, TypeOK, Ordered, Unproven, Undone
  <1>5. Guard'
    <2>1. CASE bin' = Image /\ bak' = None /\ marker' = NoMarker /\ stage' = None
               /\ proven' = {Image} /\ spoilt' = FALSE
      BY <2>1 DEF UpdateInv, Basics, TypeOK, Ordered, Guard, Guarded, Trusted, Asking
    <2>2. CASE UNCHANGED <<bin, bak, marker, proven>> /\ stage' = (IF direct THEN stage ELSE None)
               /\ spoilt' = (spoilt \/ proc.pc \in {"wait", "mark"})
      <3>1. ~spoilt' => ~spoilt /\ proc.pc \notin {"wait", "mark"}
        BY <2>2
      <3>2. CASE spoilt'
        BY <3>2 DEF Guard, Guarded
      <3>3. CASE ~spoilt'
        BY <2>2, <3>1, <3>3 DEF UpdateInv, Basics, TypeOK, Ordered, Guard, Guarded, Trusted, Asking
      <3> QED BY <3>2, <3>3
    <2> QED BY <2>1, <2>2
  <1> QED BY <1>1, <1>2, <1>3, <1>4, <1>5 DEF UpdateInv

LEMMA InitUpdateInv == ASSUME UpdateAssumption, Init PROVE UpdateInv
  <1> USE UpdateAssumption DEF UpdateAssumption, Init, None, Torn, NoMarker, NoRequest, Down,
           Updating, Alive, Undoing, MarkerSpent, Awaited, Pc, Timer, Do
  <1>1. Basics
    <2>1. proc \in [pc : Pc, ver : Version \cup {0}, offer : Version \cup {0},
                    attempted : SUBSET Version, missed : SUBSET Version, timer : Timer]
      OBVIOUS
    <2>2. NoRequest \in [do : Do, version : Version \cup {0}]
      OBVIOUS
    <2>3. marker \in [target : Version \cup {0}, boots : 0..MaxUnstableBoots, committed : BOOLEAN]
      OBVIOUS
    <2> QED BY <2>1, <2>2, <2>3 DEF Basics, TypeOK
  <1>2. Ordered
    BY DEF Ordered
  <1>3. Unproven /\ Undone
    BY DEF Unproven, Undone
  <1>4. Guard
    BY DEF Guard, Guarded, Trusted, Asking
  <1> QED BY <1>1, <1>2, <1>3, <1>4 DEF UpdateInv

LEMMA NextUpdateInv == ASSUME UpdateAssumption, UpdateInv, [Next]_vars PROVE UpdateInv'
  <1>1. CASE Release
    BY <1>1, ReleaseKeeps
  <1>2. CASE Starts
    BY <1>2, LaunchKeeps, ReconcileKeeps, RollBackKeeps, UndoAnsweredKeeps DEF Starts
  <1>3. CASE Updates
    BY <1>3, OfferedKeeps, FetchedKeeps, SwapAnsweredKeeps, MarkKeeps, ExitKeeps DEF Updates
  <1>4. CASE Commits
    BY <1>4, StableKeeps, ClearMarkerKeeps, DropBackupKeeps, DropAnsweredKeeps DEF Commits
  <1>5. CASE Scripts
    BY <1>5, TakeRequestKeeps, RunScriptKeeps DEF Scripts
  <1>6. CASE GivesUp
    BY <1>6, SwapTimedOutKeeps, UndoTimedOutKeeps, DropTimedOutKeeps DEF GivesUp
  <1>7. CASE Die
    BY <1>7, DieKeeps
  <1>8. CASE Fails
    BY <1>8, FetchFailsKeeps, KillKeeps, PowerCutKeeps DEF Fails
  <1>9. CASE UNCHANGED vars
    BY <1>9 DEF vars, files, UpdateInv, Basics, TypeOK, Ordered, Unproven, Undone, Guard, Guarded,
                Trusted, Asking, Updating, Alive, Undoing, MarkerSpent, Awaited
  <1> QED BY <1>1, <1>2, <1>3, <1>4, <1>5, <1>6, <1>7, <1>8, <1>9 DEF Next

(* The invariant behind the two theorems below: what is newer than what,   *)
(* which builds have stayed up, and what a process between two awaits, the *)
(* files and the script may count on.                                      *)
THEOREM UpdateInvariant == Spec => []UpdateInv
  <1>1. UpdateAssumption /\ Init => UpdateInv
    BY InitUpdateInv
  <1>2. UpdateAssumption /\ UpdateInv /\ [Next]_vars => UpdateInv'
    BY NextUpdateInv
  <1>3. UpdateAssumption
    BY UpdateAssumption
  <1> QED BY <1>1, <1>2, <1>3, PTL DEF Spec

(* update.ts: a build that has not stayed up has its marker and a backup   *)
(* that has, as long as nothing voided the guard; and boot counts stay in  *)
(* their budget.                                                           *)
THEOREM UpdatesAreGuarded == Spec => []UpdateGuarded
  <1>1. UpdateInv => UpdateGuarded
    BY DEF UpdateInv, Basics, Guard, UpdateGuarded
  <1>2. UpdateAssumption
    BY UpdateAssumption
  <1> QED BY <1>1, <1>2, UpdateInvariant, PTL

-----------------------------------------------------------------------------
(* A build that stayed up. *)

LEMMA StepNoRetreat ==
    ASSUME UpdateAssumption, UpdateInv, [Next]_vars, bin' < bin, bin \in proven
    PROVE  bin' = Image /\ marker' = NoMarker /\ proc' = Down
  <1>0. bin \in Nat /\ served \in Nat /\ (stage \in Version => stage \in Nat) /\ ~(bin < bin)
    BY UpdateAssumption DEF UpdateInv, Basics, TypeOK, UpdateAssumption
  <1>1. CASE RollBack
    <2>1. proc.pc = "start" /\ marker.target = proc.ver /\ Awaited
      BY <1>1 DEF RollBack, Decision, UpdateInv, Basics, Alive, Awaited
    <2>2. bin \notin proven \/ bak = None
      BY <2>1 DEF UpdateInv, Unproven, Undone
    <2> QED BY <1>0, <1>1, <2>2 DEF RollBack
  <1>2. CASE Fetched
    <2>1. bin' \in {bin, served}
      BY <1>2 DEF Fetched, Install
    <2> QED BY <1>0, <2>1 DEF UpdateInv, Ordered
  <1>3. CASE RunScript
    <2>1. CASE script.do = "commit"
      BY <1>0, <1>3, <2>1 DEF RunScript
    <2>2. CASE script.do = "rollback"
      <3>1. bak = None
        BY <2>2 DEF UpdateInv, Undone, Undoing
      <3> QED BY <1>0, <1>3, <2>2, <3>1 DEF RunScript, Refuse
    <2>3. CASE script.do = "swap"
      <3>1. script.version \in Version
        BY <2>3 DEF UpdateInv, Basics, TypeOK
      <3>2. bin' = bin \/ (stage \in Version /\ bin' = stage)
        BY <1>3, <2>3, <3>1 DEF RunScript, Refuse, Matches, Install
      <3> QED BY <1>0, <3>2 DEF UpdateInv, Ordered
    <2> QED BY <1>3, <2>1, <2>2, <2>3 DEF RunScript
  <1>4. CASE PowerCut
    BY <1>0, <1>4 DEF PowerCut
  <1>5. CASE bin' = bin
    BY <1>0, <1>5
  <1>6. RollBack \/ Fetched \/ RunScript \/ PowerCut \/ bin' = bin
    BY DEF Next, vars, files, Release, Starts, Updates, Commits, Scripts, GivesUp, Die, Fails,
           Launch, Reconcile, UndoAnswered, Offered, SwapAnswered, Mark, Exit, Stable, ClearMarker,
           DropBackup, DropAnswered, TakeRequest, SwapTimedOut, UndoTimedOut, DropTimedOut,
           FetchFails, Kill
  <1> QED BY <1>1, <1>2, <1>3, <1>4, <1>5, <1>6

(* A build that has stayed up is never rolled back, however late a script  *)
(* answers and whatever dies; a power cut of a live image starts over.     *)
THEOREM StableBuildStays == Spec => NoRetreat
  <1>1. UpdateAssumption /\ UpdateInv /\ [Next]_vars =>
           [bin' < bin /\ bin \in proven => bin' = Image /\ marker' = NoMarker /\ proc' = Down]_vars
    BY StepNoRetreat
  <1>2. UpdateAssumption
    BY UpdateAssumption
  <1> QED BY <1>1, <1>2, UpdateInvariant, PTL DEF Spec, NoRetreat

-----------------------------------------------------------------------------
(* The image depot.  What is left of a thread, by what is in it.           *)

Steps(q) == {q[i] : i \in 1 .. Len(q)}
Plan(t)  == Steps(todo[t])

Step ==
    [do : {"adopt", "prune", "read", "reconcile", "bootstrap", "wait", "close", "free", "save"}]
      \cup [do : {"mark"}, kind : Depot!Kind]
      \cup [do : {"copy", "relink"}, build : Depot!Build, file : Depot!File]
      \cup [do : {"publish"}, build : Depot!Build]
      \cup [do : {"rm"}, builds : SUBSET Depot!Build]

Writing     == {"kernel", "unpack", "pack", "stamp"}
ScriptState == [step : Writing \cup {"idle", "success", "failure"}, kind : Depot!Kind,
                build : Nat, base : 0 .. MaxBuilds, ours : BOOLEAN]

Planned == todo \in [Depot!Thread -> Seq(Step)]

DepotTyped ==
    /\ Depot!TypeOK
    /\ Planned
    /\ shared \subseteq Depot!Build \X Depot!Shareable
    /\ builder \in ScriptState
    /\ DOMAIN bounds = {"builds", "asks", "troubles"} /\ bounds.builds \in 0 .. MaxBuilds
    /\ made \in [Depot!Build -> [Depot!File -> 0 .. MaxBuilds]]
    /\ modules \in [Depot!Build -> 0 .. MaxBuilds]

(* A script makes a build that has not been made before.                   *)
Fresh ==
    /\ \A b \in Depot!Build : b > MaxBuilds - bounds.builds => made[b] = Depot!Empty
    /\ builder.step \in Writing =>
          builder.build \in 1 .. MaxBuilds - bounds.builds /\ made[builder.build] = Depot!Empty
    /\ builder.step = "kernel" => builder.kind = "full"
    /\ builder.step = "unpack" => builder.kind = "refresh"
    /\ builder.step = "pack" /\ builder.kind = "refresh" => builder.base \in Depot!Build

(* A file at the root is that of build b, or is missing.                   *)
Of(b, f) == root[f] \in {Depot!None, made[b][f]}

(* Only the desk rolls back, and from then on the root is that build's, as  *)
(* far as it has been laid out.                                            *)
Desk ==
    /\ \A t \in Depot!Thread \ {"desk"} : \A a \in Plan(t) : a.do \notin {"relink", "publish"}
    /\ \/ \A a \in Plan("desk") : a.do \notin {"relink", "publish"}
       \/ \E b \in Depot!Build :
             LET q == Depot!Rollback(b) IN
             \/ todo["desk"] = q
             \/ todo["desk"] = Tail(q) /\ (~crossed => Of(b, "rootfs"))
             \/ todo["desk"] = Tail(Tail(q)) /\ (~crossed => Of(b, "rootfs") /\ Of(b, "kernel"))

(* What a script has put at the root goes together, unless it started from  *)
(* something odd.                                                          *)
Baked ==
    /\ builder.step = "pack" =>
         IF builder.kind = "full" THEN root["kernel"] = builder.build
         ELSE builder.build \notin odd =>
                made[builder.base] # Depot!Empty /\ root["kernel"] = modules[builder.base]
    /\ builder.step = "stamp" =>
         /\ root["rootfs"] = builder.build
         /\ builder.build \notin odd => root["kernel"] = modules[builder.build]

(* What is being filed is the published build, and lies at the root.       *)
Filed ==
    /\ \A t \in Depot!Thread : \A a \in Plan(t) : a.do = "copy" => a.build = published
    /\ Depot!Filing => Of(published, "rootfs") /\ Of(published, "kernel")

DepotInv ==
    /\ DepotTyped /\ Fresh /\ Desk
    /\ Depot!Crossing => crossed
    /\ ~crossed => Depot!HistoryTrue /\ Baked /\ Filed

-----------------------------------------------------------------------------
(* Plans *)

LEMMA StepsTail ==
    ASSUME NEW S, NEW q \in Seq(S), q # <<>>
    PROVE  /\ Tail(q) \in Seq(S) /\ Head(q) \in S
           /\ Steps(q) = {Head(q)} \cup Steps(Tail(q))
  <1>1. Len(q) \in Nat /\ Len(q) # 0 /\ Head(q) = q[1] /\ q[1] \in S
    OBVIOUS
  <1>2. /\ Tail(q) \in Seq(S) /\ Len(Tail(q)) = Len(q) - 1
        /\ \A i \in 1 .. Len(q) - 1 : Tail(q)[i] = q[i + 1]
    OBVIOUS
  <1>3. ASSUME NEW i \in 1 .. Len(q)
        PROVE  q[i] = Head(q) \/ q[i] \in Steps(Tail(q))
    <2>1. CASE i # 1
      <3>1. i - 1 \in 1 .. Len(q) - 1 /\ Tail(q)[i - 1] = q[i]
        BY <1>1, <1>2, <2>1
      <3> QED BY <1>2, <3>1 DEF Steps
    <2> QED BY <1>1, <2>1
  <1>4. ASSUME NEW i \in 1 .. Len(q) - 1
        PROVE  Tail(q)[i] \in Steps(q)
    <2>1. i + 1 \in 1 .. Len(q)
      BY <1>1
    <2> QED BY <1>2, <2>1 DEF Steps
  <1>5. Head(q) \in Steps(q)
    <2>1. 1 \in 1 .. Len(q)
      BY <1>1
    <2> QED BY <1>1, <2>1 DEF Steps
  <1>6. Steps(q) \subseteq {Head(q)} \cup Steps(Tail(q))
    BY <1>3 DEF Steps
  <1>7. Steps(Tail(q)) \subseteq Steps(q)
    BY <1>2, <1>4 DEF Steps
  <1> QED BY <1>1, <1>2, <1>5, <1>6, <1>7

LEMMA StepsConcat ==
    ASSUME NEW S, NEW q \in Seq(S), NEW r \in Seq(S)
    PROVE  q \o r \in Seq(S) /\ Steps(q \o r) = Steps(q) \cup Steps(r)
  <1>1. Len(q) \in Nat /\ Len(r) \in Nat
    OBVIOUS
  <1>2. /\ q \o r \in Seq(S) /\ Len(q \o r) = Len(q) + Len(r)
        /\ \A i \in 1 .. Len(q) + Len(r) :
              (q \o r)[i] = IF i <= Len(q) THEN q[i] ELSE r[i - Len(q)]
    OBVIOUS
  <1>3. ASSUME NEW i \in 1 .. Len(q) + Len(r)
        PROVE  (q \o r)[i] \in Steps(q) \cup Steps(r)
    <2>1. CASE i <= Len(q)
      <3>1. i \in 1 .. Len(q)
        BY <1>1, <2>1
      <3> QED BY <1>2, <2>1, <3>1 DEF Steps
    <2>2. CASE ~(i <= Len(q))
      <3>1. i - Len(q) \in 1 .. Len(r)
        BY <1>1, <2>2
      <3> QED BY <1>2, <2>2, <3>1 DEF Steps
    <2> QED BY <2>1, <2>2
  <1>4. ASSUME NEW i \in 1 .. Len(q)
        PROVE  q[i] \in Steps(q \o r)
    <2>1. i \in 1 .. Len(q) + Len(r) /\ i <= Len(q)
      BY <1>1
    <2> QED BY <1>2, <2>1 DEF Steps
  <1>5. ASSUME NEW i \in 1 .. Len(r)
        PROVE  r[i] \in Steps(q \o r)
    <2>1. i + Len(q) \in 1 .. Len(q) + Len(r) /\ ~(i + Len(q) <= Len(q)) /\ i + Len(q) - Len(q) = i
      BY <1>1
    <2> QED BY <1>2, <2>1 DEF Steps
  <1>6. Steps(q \o r) \subseteq Steps(q) \cup Steps(r)
    BY <1>2, <1>3 DEF Steps
  <1>7. Steps(q) \subseteq Steps(q \o r) /\ Steps(r) \subseteq Steps(q \o r)
    BY <1>4, <1>5 DEF Steps
  <1> QED BY <1>2, <1>6, <1>7

LEMMA StepsJoin ==
    \A q, r \in Seq(Step) : q \o r \in Seq(Step) /\ Steps(q \o r) = Steps(q) \cup Steps(r)
  BY StepsConcat

LEMMA StepsOf ==
    /\ Steps(<<>>) = {}
    /\ \A a : Steps(<<a>>) = {a}
    /\ \A a, b : Steps(<<a, b>>) = {a, b}
  <1>1. Steps(<<>>) = {}
    BY DEF Steps
  <1>2. ASSUME NEW a PROVE Steps(<<a>>) = {a}
    BY DEF Steps
  <1>3. ASSUME NEW a, NEW b PROVE Steps(<<a, b>>) = {a, b}
    <2>1. Len(<<a, b>>) = 2 /\ 1 .. 2 = {1, 2} /\ <<a, b>>[1] = a /\ <<a, b>>[2] = b
      OBVIOUS
    <2> QED BY <2>1 DEF Steps
  <1> QED BY <1>1, <1>2, <1>3

(* A thread goes on: its head is replaced by what it pushes.               *)
LEMMA GoesOn ==
    ASSUME Planned, NEW t \in Depot!Thread, todo[t] # <<>>, NEW s \in Seq(Step), Depot!Continue(t, s)
    PROVE  /\ Planned'
           /\ \A u \in Depot!Thread \ {t} : todo'[u] = todo[u] /\ Plan(u)' = Plan(u)
           /\ todo'[t] = s \o Tail(todo[t])
           /\ Plan(t)' = Steps(s) \cup Steps(Tail(todo[t]))
           /\ Plan(t) = {Head(todo[t])} \cup Steps(Tail(todo[t]))
           /\ Head(todo[t]) \in Step
  <1>1. todo[t] \in Seq(Step)
    BY DEF Planned
  <1>2. /\ Tail(todo[t]) \in Seq(Step) /\ Head(todo[t]) \in Step
        /\ Plan(t) = {Head(todo[t])} \cup Steps(Tail(todo[t]))
    BY <1>1, StepsTail DEF Plan
  <1>3. s \o Tail(todo[t]) \in Seq(Step)
        /\ Steps(s \o Tail(todo[t])) = Steps(s) \cup Steps(Tail(todo[t]))
    BY <1>2, StepsJoin, Zenon
  <1>4. /\ todo' \in [Depot!Thread -> Seq(Step)]
        /\ todo'[t] = s \o Tail(todo[t])
        /\ \A u \in Depot!Thread \ {t} : todo'[u] = todo[u]
    BY <1>3 DEF Depot!Continue, Planned
  <1> QED BY <1>2, <1>3, <1>4 DEF Planned, Plan

(* A rollback, and the filing, read off what is left of the threads.       *)
Told ==
    /\ Depot!Relinking <=> \E a \in Plan("desk") : a.do = "publish"
    /\ Depot!Filing <=>
          \/ published # Depot!None /\ published \notin Depot!Kept
          \/ \E t \in Depot!Thread : \E a \in Plan(t) :
                a.do = "copy" \/ (a.do = "rm" /\ published \in a.builds)

LEMMA CrossingIs == Planned => Told
  <1> SUFFICES ASSUME Planned PROVE Told
    OBVIOUS
  <1>1. ASSUME NEW t \in Depot!Thread
        PROVE  DOMAIN todo[t] = 1 .. Len(todo[t])
    BY DEF Planned
  <1>2. "desk" \in Depot!Thread
    BY DEF Depot!Thread
  <1>3. Depot!Relinking <=> \E a \in Plan("desk") : a.do = "publish"
    BY <1>1, <1>2 DEF Depot!Relinking, Depot!Ahead, Plan, Steps
  <1>4. ASSUME NEW t \in Depot!Thread
        PROVE  /\ Depot!Ahead(t, "copy") # {} <=> \E a \in Plan(t) : a.do = "copy"
               /\ (\E i \in Depot!Ahead(t, "rm") : published \in todo[t][i].builds)
                     <=> \E a \in Plan(t) : a.do = "rm" /\ published \in a.builds
    BY <1>1 DEF Depot!Ahead, Plan, Steps
  <1> QED BY <1>3, <1>4 DEF Depot!Filing, Told

LEMMA CrossingNext == Planned' => Told'
  <1>1. Planned => Told
    BY CrossingIs
  <1> QED BY <1>1, PTL

-----------------------------------------------------------------------------
(* The plans that are begun                                                *)

Moving == {"copy", "relink", "publish", "rm"}

LEMMA DoSteps ==
    /\ \A w \in {"adopt", "prune", "read", "reconcile", "bootstrap", "wait", "close", "free", "save"} :
          Depot!Do(w) \in Step /\ Depot!Do(w).do = w
    /\ \A k \in Depot!Kind : [do |-> "mark", kind |-> k] \in Step
    /\ \A w \in {"copy", "relink"}, b \in Depot!Build, f \in Depot!File :
          /\ Depot!OnFile(w, b, f) \in Step /\ Depot!OnFile(w, b, f).do = w
          /\ Depot!OnFile(w, b, f).build = b /\ Depot!OnFile(w, b, f).file = f
    /\ \A b \in Depot!Build :
          /\ Depot!OnBuild("publish", b) \in Step /\ Depot!OnBuild("publish", b).do = "publish"
          /\ Depot!OnBuild("publish", b).build = b
    /\ \A D \in SUBSET Depot!Build : [do |-> "rm", builds |-> D] \in Step
  BY DEF Step, Depot!Do, Depot!OnFile, Depot!OnBuild

LEMMA StepsFour ==
    ASSUME NEW S, NEW a \in S, NEW b \in S, NEW c \in S, NEW d \in S
    PROVE  <<a, b, c, d>> \in Seq(S) /\ Steps(<<a, b, c, d>>) = {a, b, c, d}
  <1>1. /\ Len(<<a, b, c, d>>) = 4 /\ 1 .. 4 = {1, 2, 3, 4}
        /\ <<a, b, c, d>>[1] = a /\ <<a, b, c, d>>[2] = b
        /\ <<a, b, c, d>>[3] = c /\ <<a, b, c, d>>[4] = d
    OBVIOUS
  <1> QED BY <1>1 DEF Steps

LEMMA PlainPlans ==
    /\ Depot!Startup \in Seq(Step) /\ \A a \in Steps(Depot!Startup) : a.do \notin Moving
    /\ \A k \in Depot!Kind :
          Depot!Rebuild(k) \in Seq(Step) /\ \A a \in Steps(Depot!Rebuild(k)) : a.do \notin Moving
  <1>1. Depot!Retaining \in Seq(Step) /\ \A a \in Steps(Depot!Retaining) : a.do \notin Moving
    <2>1. Depot!Do("adopt") \in Step /\ Depot!Do("prune") \in Step
          /\ Depot!Do("adopt").do = "adopt" /\ Depot!Do("prune").do = "prune"
      BY DoSteps
    <2>2. Steps(Depot!Retaining) = {Depot!Do("adopt"), Depot!Do("prune")}
      BY StepsOf DEF Depot!Retaining
    <2> QED BY <2>1, <2>2 DEF Moving, Depot!Retaining
  <1>2. Depot!Startup \in Seq(Step) /\ \A a \in Steps(Depot!Startup) : a.do \notin Moving
    <2> DEFINE r == Depot!Do("read") c == Depot!Do("reconcile") f == Depot!Do("bootstrap")
    <2>1. r \in Step /\ c \in Step /\ f \in Step /\ r.do = "read" /\ c.do = "reconcile" /\ f.do = "bootstrap"
      BY DoSteps
    <2>2. <<r, c, f>> \in Seq(Step) /\ Steps(<<r, c, f>>) = {r, c, f}
      <3>1. /\ Len(<<r, c, f>>) = 3 /\ 1 .. 3 = {1, 2, 3}
            /\ <<r, c, f>>[1] = r /\ <<r, c, f>>[2] = c /\ <<r, c, f>>[3] = f
        OBVIOUS
      <3> QED BY <2>1, <3>1 DEF Steps
    <2> HIDE DEF r, c, f
    <2>3. Depot!Startup = Depot!Retaining \o <<r, c, f>>
      BY DEF Depot!Startup, r, c, f
    <2>4. /\ Depot!Startup \in Seq(Step)
          /\ Steps(Depot!Startup) = Steps(Depot!Retaining) \cup {r, c, f}
      <3> DEFINE s == <<r, c, f>>
      <3>1. s \in Seq(Step) /\ Steps(s) = {r, c, f} /\ Depot!Startup = Depot!Retaining \o s
        BY <2>2, <2>3
      <3> HIDE DEF s
      <3>2. Depot!Retaining \o s \in Seq(Step)
            /\ Steps(Depot!Retaining \o s) = Steps(Depot!Retaining) \cup Steps(s)
        BY <1>1, <3>1, StepsJoin, Zenon
      <3> QED BY <3>1, <3>2, Zenon
    <2> QED BY <1>1, <2>1, <2>4 DEF Moving
  <1>3. ASSUME NEW k \in Depot!Kind
        PROVE  Depot!Rebuild(k) \in Seq(Step) /\ \A a \in Steps(Depot!Rebuild(k)) : a.do \notin Moving
    <2> DEFINE r == Depot!Do("read") m == [do |-> "mark", kind |-> k]
               w == Depot!Do("wait") c == Depot!Do("close") f == Depot!Do("free")
    <2>1. /\ r \in Step /\ m \in Step /\ w \in Step /\ c \in Step /\ f \in Step
          /\ r.do = "read" /\ m.do = "mark" /\ w.do = "wait" /\ c.do = "close" /\ f.do = "free"
      BY DoSteps
    <2> HIDE DEF r, m, w, c, f
    <2>2. <<r, m, w, c>> \in Seq(Step) /\ Steps(<<r, m, w, c>>) = {r, m, w, c}
      BY <2>1, StepsFour
    <2>3. <<f>> \in Seq(Step) /\ Steps(<<f>>) = {f}
      BY <2>1, StepsOf
    <2>4. Depot!Rebuild(k) = <<r, m, w, c>> \o Depot!Retaining \o <<f>>
      BY DEF Depot!Rebuild, r, m, w, c, f
    <2> DEFINE s == <<r, m, w, c>> e == <<f>> h == s \o Depot!Retaining
    <2>5. /\ s \in Seq(Step) /\ Steps(s) = {r, m, w, c} /\ e \in Seq(Step) /\ Steps(e) = {f}
          /\ Depot!Rebuild(k) = h \o e
      BY <2>2, <2>3, <2>4
    <2> HIDE DEF s, e
    <2>6. h \in Seq(Step) /\ Steps(h) = Steps(s) \cup Steps(Depot!Retaining)
      BY <1>1, <2>5, StepsJoin, Zenon
    <2> HIDE DEF h
    <2>7. h \o e \in Seq(Step) /\ Steps(h \o e) = Steps(h) \cup Steps(e)
      BY <2>5, <2>6, StepsJoin, Zenon
    <2>8. Steps(Depot!Rebuild(k)) = ({r, m, w, c} \cup Steps(Depot!Retaining)) \cup {f}
      BY <2>5, <2>6, <2>7, Zenon
    <2>9. Depot!Rebuild(k) \in Seq(Step)
      BY <2>5, <2>7, Zenon
    <2> QED BY <1>1, <2>1, <2>8, <2>9 DEF Moving
  <1> QED BY <1>2, <1>3

LEMMA EachFilePlan ==
    ASSUME NEW w \in {"copy", "relink"}, NEW b \in Depot!Build
    PROVE  /\ Depot!EachFile(w, b) = <<Depot!OnFile(w, b, "rootfs"), Depot!OnFile(w, b, "kernel")>>
           /\ Depot!EachFile(w, b) \in Seq(Step)
           /\ Steps(Depot!EachFile(w, b)) = {Depot!OnFile(w, b, "rootfs"), Depot!OnFile(w, b, "kernel")}
  <1>1. Depot!OnFile(w, b, "rootfs") \in Step /\ Depot!OnFile(w, b, "kernel") \in Step
    BY DoSteps DEF Depot!File
  <1>2. Depot!EachFile(w, b) = <<Depot!OnFile(w, b, "rootfs"), Depot!OnFile(w, b, "kernel")>>
    BY DEF Depot!EachFile
  <1> QED BY <1>1, <1>2, StepsOf

(* A rollback lays out both files, publishes the build, and prunes.        *)
LEMMA RollbackPlan ==
    ASSUME NEW b \in Depot!Build
    PROVE  LET x == Depot!OnFile("relink", b, "rootfs")
               y == Depot!OnFile("relink", b, "kernel")
               z == Depot!OnBuild("publish", b)
               p == Depot!Do("prune")
           IN  /\ Depot!Rollback(b) = <<x, y, z, p>> /\ Depot!Rollback(b) \in Seq(Step)
               /\ Tail(Depot!Rollback(b)) = <<y, z, p>>
               /\ Tail(Tail(Depot!Rollback(b))) = <<z, p>>
  <1> DEFINE x == Depot!OnFile("relink", b, "rootfs")
             y == Depot!OnFile("relink", b, "kernel")
             z == Depot!OnBuild("publish", b)
             p == Depot!Do("prune")
  <1>1. x \in Step /\ y \in Step /\ z \in Step /\ p \in Step
    BY DoSteps DEF Depot!File
  <1>2. Depot!Rollback(b) = <<x, y>> \o <<z, p>>
    BY EachFilePlan DEF Depot!Rollback
  <1> HIDE DEF x, y, z, p
  <1>3. <<x, y>> \o <<z, p>> = <<x, y, z, p>>
    <2> DEFINE h == <<x, y>> e == <<z, p>> q == <<x, y, z, p>>
    <2>1. /\ Len(h) = 2 /\ Len(e) = 2 /\ h[1] = x /\ h[2] = y /\ e[1] = z /\ e[2] = p
          /\ Len(q) = 4 /\ q[1] = x /\ q[2] = y /\ q[3] = z /\ q[4] = p
      OBVIOUS
    <2>2. h \in Seq(Step) /\ e \in Seq(Step) /\ q \in Seq(Step)
      BY <1>1
    <2> HIDE DEF h, e, q
    <2>3. /\ h \o e \in Seq(Step) /\ Len(h \o e) = 4
          /\ (h \o e)[1] = h[1] /\ (h \o e)[2] = h[2]
          /\ (h \o e)[3] = e[1] /\ (h \o e)[4] = e[2]
      <3>1. /\ h \o e \in Seq(Step) /\ Len(h \o e) = Len(h) + Len(e)
            /\ \A i \in 1 .. Len(h) + Len(e) :
                  (h \o e)[i] = IF i <= Len(h) THEN h[i] ELSE e[i - Len(h)]
        BY <2>2
      <3>2. Len(h) + Len(e) = 4
        BY <2>1
      <3>3. \A i \in 1 .. 4 : (h \o e)[i] = IF i <= 2 THEN h[i] ELSE e[i - 2]
        BY <2>1, <3>1, <3>2
      <3> QED BY <3>1, <3>2, <3>3
    <2>4. \A i \in 1 .. 4 : (h \o e)[i] = q[i]
      BY <2>1, <2>3
    <2>5. h \o e = q
      BY <2>1, <2>2, <2>3, <2>4
    <2> QED BY <2>5 DEF h, e, q
  <1>4. Tail(<<x, y, z, p>>) = <<y, z, p>> /\ Tail(<<y, z, p>>) = <<z, p>>
    OBVIOUS
  <1>5. <<x, y, z, p>> \in Seq(Step)
    BY <1>1, StepsFour
  <1> QED BY <1>2, <1>3, <1>4, <1>5 DEF x, y, z, p

-----------------------------------------------------------------------------
(* Steps that change neither the root nor what was published               *)

LEMMA DeskFree ==
    ASSUME Planned, Desk, todo["desk"] # <<>>, Head(todo["desk"]).do \notin {"relink", "publish"}
    PROVE  \A a \in Plan("desk") : a.do \notin {"relink", "publish"}
  <1> SUFFICES ASSUME NEW b \in Depot!Build,
                      LET q == Depot!Rollback(b)
                      IN  todo["desk"] = q \/ todo["desk"] = Tail(q) \/ todo["desk"] = Tail(Tail(q))
               PROVE  FALSE
    BY DEF Desk
  <1> DEFINE x == Depot!OnFile("relink", b, "rootfs")
             y == Depot!OnFile("relink", b, "kernel")
             z == Depot!OnBuild("publish", b)
             p == Depot!Do("prune")
  <1>1. todo["desk"] = <<x, y, z, p>> \/ todo["desk"] = <<y, z, p>> \/ todo["desk"] = <<z, p>>
    BY RollbackPlan
  <1>2. x.do = "relink" /\ y.do = "relink" /\ z.do = "publish"
    BY DoSteps DEF Depot!File
  <1> HIDE DEF x, y, z, p
  <1>3. Head(<<x, y, z, p>>) = x /\ Head(<<y, z, p>>) = y /\ Head(<<z, p>>) = z
    OBVIOUS
  <1> QED BY <1>1, <1>2, <1>3

(* What a thread may come to have before it.                               *)
Mild(t, a) ==
    \/ a \in Plan(t)
    \/ a.do \notin {"copy", "rm"}
    \/ a.do = "copy" /\ a.build = published /\ Depot!Filing
    \/ a.do = "rm" /\ published \notin a.builds

LEMMA QuietKeeps ==
    ASSUME DepotInv, Depot!Watch, DepotTyped', Fresh', Desk', ~crossed => Baked',
           UNCHANGED <<root, published, dirs, made, modules>>, odd \subseteq odd',
           \A t \in Depot!Thread : \A a \in Plan(t)' : Mild(t, a)
    PROVE  DepotInv'
  <1>1. Planned /\ Planned'
    BY DEF DepotInv, DepotTyped
  <1>2. Depot!Crossing' => crossed'
    BY DEF Depot!Watch
  <1>3. ~crossed' => ~crossed
    BY DEF Depot!Watch
  <1>4. Depot!Filing' => Depot!Filing
    <2>1. Depot!Filing <=>
                \/ published # Depot!None /\ published \notin Depot!Kept
                \/ \E t \in Depot!Thread : \E a \in Plan(t) :
                      a.do = "copy" \/ (a.do = "rm" /\ published \in a.builds)
      BY <1>1, CrossingIs DEF Told
    <2>2. Depot!Filing' <=>
                \/ published' # Depot!None /\ published' \notin Depot!Kept'
                \/ \E t \in Depot!Thread : \E a \in Plan(t)' :
                      a.do = "copy" \/ (a.do = "rm" /\ published' \in a.builds)
      BY <1>1, CrossingNext DEF Told
    <2>3. published' = published /\ Depot!Kept' = Depot!Kept
      BY DEF Depot!Kept
    <2> QED BY <2>1, <2>2, <2>3 DEF Mild
  <1>5. ASSUME ~crossed' PROVE Filed'
    <2>1. Filed
      BY <1>3, <1>5 DEF DepotInv
    <2>2. ASSUME NEW t \in Depot!Thread, NEW a \in Plan(t)', a.do = "copy"
          PROVE  a.build = published'
      BY <2>1, <2>2 DEF Mild, Filed
    <2>3. Depot!Filing' => Of(published, "rootfs")' /\ Of(published, "kernel")'
      BY <1>4, <2>1 DEF Filed, Of
    <2> QED BY <2>2, <2>3 DEF Filed
  <1>6. ASSUME ~crossed' PROVE Depot!HistoryTrue'
    <2>1. ~crossed /\ Depot!HistoryTrue
      BY <1>3, <1>6 DEF DepotInv
    <2> QED BY <2>1 DEF Depot!HistoryTrue
  <1> QED BY <1>2, <1>3, <1>5, <1>6 DEF DepotInv

(* The types, where a step leaves the disk alone.                          *)
LEMMA TypesStay ==
    ASSUME DepotTyped, UNCHANGED <<root, published, dirs, shared, made, modules>>, Planned',
           row' \in Depot!Row, saw' \in [Depot!Thread -> Depot!Row],
           up' \in BOOLEAN, running' \in BOOLEAN, firsts' \in Nat, builder' \in ScriptState,
           DOMAIN bounds' = {"builds", "asks", "troubles"}, bounds'.builds \in 0 .. MaxBuilds
    PROVE  DepotTyped'
  <1>1. Depot!TypeOK'
    BY DEF DepotTyped, Depot!TypeOK
  <1> QED BY <1>1 DEF DepotTyped

LEMMA TypesAre ==
    ASSUME DepotTyped
    PROVE  /\ row \in Depot!Row /\ saw \in [Depot!Thread -> Depot!Row]
           /\ up \in BOOLEAN /\ running \in BOOLEAN /\ firsts \in Nat
           /\ builder \in ScriptState /\ Planned
           /\ DOMAIN bounds = {"builds", "asks", "troubles"} /\ bounds.builds \in 0 .. MaxBuilds
           /\ published \in 0 .. MaxBuilds
  BY DEF DepotTyped, Depot!TypeOK

(* What the script is in the middle of.                                    *)
SameBake ==
    builder'.step \in Writing =>
        /\ builder'.step = builder.step /\ builder'.kind = builder.kind
        /\ builder'.build = builder.build /\ builder'.base = builder.base

LEMMA BakeStays ==
    ASSUME DepotTyped, SameBake, UNCHANGED <<root, made, modules, odd>>,
           bounds'.builds = bounds.builds
    PROVE  (Fresh => Fresh') /\ (Baked => Baked')
  <1>1. Fresh => Fresh'
    BY DEF Fresh, SameBake, Writing
  <1>2. Baked => Baked'
    BY DEF Baked, SameBake, Writing
  <1> QED BY <1>1, <1>2

(* A thread goes on to something that is not a rollback.                    *)
LEMMA DeskStays ==
    ASSUME Planned, Planned', Desk, UNCHANGED <<root, made>>, crossed => crossed',
           \A t \in Depot!Thread \ {"desk"} : \A a \in Plan(t)' :
               a \in Plan(t) \/ a.do \notin {"relink", "publish"},
           \/ todo'["desk"] = todo["desk"]
           \/ \A a \in Plan("desk")' : a.do \notin {"relink", "publish"}
    PROVE  Desk'
  <1>1. \A t \in Depot!Thread \ {"desk"} : \A a \in Plan(t)' : a.do \notin {"relink", "publish"}
    BY DEF Desk
  <1>2. CASE todo'["desk"] = todo["desk"]
    <2>1. Plan("desk")' = Plan("desk")
      BY <1>2 DEF Plan
    <2>2. CASE \A a \in Plan("desk") : a.do \notin {"relink", "publish"}
      BY <1>1, <2>1, <2>2 DEF Desk
    <2>3. ASSUME NEW b \in Depot!Build,
                 LET q == Depot!Rollback(b) IN
                 \/ todo["desk"] = q
                 \/ todo["desk"] = Tail(q) /\ (~crossed => Of(b, "rootfs"))
                 \/ todo["desk"] = Tail(Tail(q)) /\ (~crossed => Of(b, "rootfs") /\ Of(b, "kernel"))
          PROVE  Desk'
      <3>1. \A f : Of(b, f)' <=> Of(b, f)
        BY DEF Of
      <3> QED BY <1>1, <1>2, <2>3, <3>1 DEF Desk
    <2> QED BY <2>2, <2>3 DEF Desk
  <1>3. CASE \A a \in Plan("desk")' : a.do \notin {"relink", "publish"}
    BY <1>1, <1>3 DEF Desk
  <1> QED BY <1>2, <1>3

(* A thread takes a step that is none of the disk's.                        *)
LEMMA ThreadKeeps ==
    ASSUME DepotInv, Depot!Watch, NEW t \in Depot!Thread, todo[t] # <<>>,
           Head(todo[t]).do \notin {"relink", "publish"},
           NEW s \in Seq(Step), Depot!Continue(t, s),
           \A a \in Steps(s) : a.do \notin {"relink", "publish"} /\ Mild(t, a),
           DepotTyped', Fresh', ~crossed => Baked',
           UNCHANGED <<root, published, dirs, made, modules, odd>>
    PROVE  DepotInv'
  <1>1. Planned /\ Planned' /\ Desk
    BY DEF DepotInv, DepotTyped
  <1>2. /\ \A u \in Depot!Thread \ {t} : todo'[u] = todo[u] /\ Plan(u)' = Plan(u)
        /\ Plan(t)' = Steps(s) \cup Steps(Tail(todo[t]))
        /\ Plan(t) = {Head(todo[t])} \cup Steps(Tail(todo[t]))
    BY <1>1, GoesOn
  <1>3. crossed => crossed'
    BY DEF Depot!Watch
  <1>4. \A u \in Depot!Thread : \A a \in Plan(u)' : Mild(u, a)
    BY <1>2 DEF Mild
  <1>5. \/ todo'["desk"] = todo["desk"]
        \/ \A a \in Plan("desk")' : a.do \notin {"relink", "publish"}
    <2>1. CASE t = "desk"
      BY <1>1, <1>2, <2>1, DeskFree
    <2>2. CASE t # "desk"
      BY <1>2, <2>2 DEF Depot!Thread
    <2> QED BY <2>1, <2>2
  <1>6. \A u \in Depot!Thread \ {"desk"} : \A a \in Plan(u)' :
            a \in Plan(u) \/ a.do \notin {"relink", "publish"}
    BY <1>2
  <1>7. Desk'
    BY <1>1, <1>3, <1>5, <1>6, DeskStays
  <1> QED BY <1>4, <1>7, QuietKeeps

LEMMA AtHas ==
    ASSUME Planned, NEW t \in Depot!Thread, NEW w, Depot!At(t, w)
    PROVE  /\ todo[t] # <<>> /\ Head(todo[t]) \in Step /\ Head(todo[t]).do = w
           /\ Plan(t) = {Head(todo[t])} \cup Steps(Tail(todo[t]))
  <1>1. todo[t] \in Seq(Step) /\ todo[t] # <<>> /\ Head(todo[t]).do = w
    BY DEF Planned, Depot!At
  <1>2. Head(todo[t]) \in Step /\ Plan(t) = {Head(todo[t])} \cup Steps(Tail(todo[t]))
    BY <1>1, StepsTail DEF Plan
  <1> QED BY <1>1, <1>2

LEMMA PlainKeeps ==
    ASSUME DepotInv, Depot!Watch, NEW t \in Depot!Thread, NEW w, Depot!At(t, w),
           w \notin {"relink", "publish"},
           NEW s \in Seq(Step), Depot!Continue(t, s),
           \A a \in Steps(s) : a.do \notin {"relink", "publish"} /\ Mild(t, a),
           UNCHANGED <<root, published, dirs, shared, made, modules, odd, bounds>>,
           row' \in Depot!Row, saw' \in [Depot!Thread -> Depot!Row],
           up' \in BOOLEAN, running' \in BOOLEAN, firsts' \in Nat,
           builder' \in ScriptState, SameBake
    PROVE  DepotInv'
  <1>1. DepotTyped /\ Planned /\ Fresh /\ (~crossed => Baked)
    BY DEF DepotInv, DepotTyped
  <1>2. todo[t] # <<>> /\ Head(todo[t]).do = w
    BY <1>1, AtHas
  <1>3. Planned'
    BY <1>1, <1>2, GoesOn
  <1>4. DepotTyped'
    BY <1>1, <1>3, TypesAre, TypesStay
  <1>5. Fresh' /\ (~crossed => Baked')
    BY <1>1, BakeStays
  <1> QED BY <1>2, <1>4, <1>5, ThreadKeeps

(* The same where nothing of the script changes, and the thread ends a step. *)
LEMMA EndsStep ==
    ASSUME DepotInv, Depot!Watch, NEW t \in Depot!Thread, NEW w, Depot!At(t, w),
           w \notin {"relink", "publish"}, Depot!Continue(t, <<>>),
           UNCHANGED <<root, published, dirs, shared, made, modules, odd, bounds>>,
           row' \in Depot!Row, saw' \in [Depot!Thread -> Depot!Row],
           up' \in BOOLEAN, running' \in BOOLEAN, firsts' \in Nat,
           builder' \in ScriptState, SameBake
    PROVE  DepotInv'
  <1>1. <<>> \in Seq(Step) /\ Steps(<<>>) = {}
    BY StepsOf
  <1> HIDE DEF Mild
  <1> QED BY <1>1, PlainKeeps

LEMMA SameScript == UNCHANGED builder => SameBake
  BY DEF SameBake

LEMMA StepAdopt ==
    ASSUME DepotInv, Depot!Watch, NEW t \in Depot!Thread, Depot!Adopt(t)
    PROVE  DepotInv'
  <1> USE DEF Depot!disk, Depot!history
  <1>1. DepotTyped
    BY DEF DepotInv
  <1>2. /\ Depot!At(t, "adopt") /\ SameBake
        /\ UNCHANGED <<root, published, dirs, shared, made, modules, odd, bounds>>
        /\ row' \in Depot!Row /\ saw' \in [Depot!Thread -> Depot!Row]
        /\ up' \in BOOLEAN /\ running' \in BOOLEAN /\ firsts' \in Nat
        /\ builder' \in ScriptState
    BY <1>1, TypesAre, SameScript DEF Depot!Adopt
  <1>3. CASE published = Depot!None \/ published \in Depot!Kept
    <2>1. Depot!Continue(t, <<>>)
      BY <1>3 DEF Depot!Adopt
    <2> QED BY <1>2, <2>1, EndsStep
  <1>4. CASE ~(published = Depot!None \/ published \in Depot!Kept)
    <2> DEFINE s == Depot!EachFile("copy", published)
    <2>1. Depot!Continue(t, s) /\ Depot!Filing
      BY <1>4 DEF Depot!Adopt, Depot!Filing
    <2>2. published \in Depot!Build
      BY <1>1, <1>4, TypesAre DEF Depot!Build, Depot!None
    <2>3. /\ s \in Seq(Step)
          /\ Steps(s) = {Depot!OnFile("copy", published, "rootfs"), Depot!OnFile("copy", published, "kernel")}
      BY <2>2, EachFilePlan
    <2>4. \A f \in Depot!File :
             /\ Depot!OnFile("copy", published, f).do = "copy"
             /\ Depot!OnFile("copy", published, f).build = published
      BY <2>2, DoSteps
    <2>5. \A a \in Steps(s) : a.do = "copy" /\ a.build = published
      BY <2>3, <2>4 DEF Depot!File
    <2> HIDE DEF s
    <2>6. \A a \in Steps(s) : a.do \notin {"relink", "publish"} /\ Mild(t, a)
      BY <2>1, <2>5 DEF Mild
    <2> QED BY <1>2, <2>1, <2>3, <2>6, PlainKeeps
  <1> QED BY <1>3, <1>4

LEMMA StepPrune ==
    ASSUME DepotInv, Depot!Watch, NEW t \in Depot!Thread, Depot!Prune(t)
    PROVE  DepotInv'
  <1> USE DEF Depot!disk, Depot!history
  <1>1. DepotTyped
    BY DEF DepotInv
  <1>2. /\ Depot!At(t, "prune") /\ SameBake
        /\ UNCHANGED <<root, published, dirs, shared, made, modules, odd, bounds>>
        /\ row' \in Depot!Row /\ saw' \in [Depot!Thread -> Depot!Row]
        /\ up' \in BOOLEAN /\ running' \in BOOLEAN /\ firsts' \in Nat
        /\ builder' \in ScriptState
    BY <1>1, TypesAre, SameScript DEF Depot!Prune
  <1>3. CASE Depot!Doomed = {}
    <2>1. Depot!Continue(t, <<>>)
      BY <1>3 DEF Depot!Prune
    <2> QED BY <1>2, <2>1, EndsStep
  <1>4. CASE Depot!Doomed # {}
    <2> DEFINE r == [do |-> "rm", builds |-> Depot!Doomed] s == <<r>>
    <2>1. Depot!Continue(t, s)
      BY <1>4 DEF Depot!Prune
    <2>2. Depot!Doomed \in SUBSET Depot!Build /\ published \notin Depot!Doomed
      BY DEF Depot!Doomed, Depot!Kept
    <2>3. r \in Step
      BY <2>2, DoSteps
    <2>4. r.do = "rm" /\ published \notin r.builds
      BY <2>2
    <2> HIDE DEF r
    <2>5. s \in Seq(Step) /\ Steps(s) = {r}
      BY <2>3, StepsOf
    <2> HIDE DEF s
    <2>6. \A a \in Steps(s) : a.do \notin {"relink", "publish"} /\ Mild(t, a)
      BY <2>4, <2>5 DEF Mild
    <2> QED BY <1>2, <2>1, <2>5, <2>6, PlainKeeps
  <1> QED BY <1>3, <1>4

(* The row: what is written is what was read, but for a field.             *)
LEMMA Rows ==
    /\ Depot!NoRow \in Depot!Row
    /\ \A r \in Depot!Row :
          /\ \A s \in {"none", "running", "success", "failure"} : [r EXCEPT !.status = s] \in Depot!Row
          /\ \A c \in BOOLEAN : [r EXCEPT !.claimed = c] \in Depot!Row /\ [r EXCEPT !.full = c] \in Depot!Row
  BY DEF Depot!NoRow, Depot!Row

LEMMA Reads ==
    ASSUME DepotTyped, NEW t \in Depot!Thread, NEW r \in Depot!Row, saw' = [saw EXCEPT ![t] = r]
    PROVE  saw' \in [Depot!Thread -> Depot!Row]
  <1>1. saw \in [Depot!Thread -> Depot!Row]
    BY TypesAre
  <1> QED BY <1>1

LEMMA StepRead ==
    ASSUME DepotInv, Depot!Watch, NEW t \in Depot!Thread, Depot!Read(t) \/ Depot!Wait(t) \/ Depot!Free(t)
    PROVE  DepotInv'
  <1> USE DEF Depot!disk, Depot!history
  <1>1. DepotTyped
    BY DEF DepotInv
  <1>2. PICK w \in {"read", "wait", "free"} : Depot!At(t, w)
    BY DEF Depot!Read, Depot!Wait, Depot!Free
  <1>3. /\ Depot!Continue(t, <<>>) /\ UNCHANGED <<row, up, builder, firsts>>
        /\ UNCHANGED <<root, published, dirs, shared, made, modules, odd, bounds>>
        /\ saw' = saw \/ saw' = [saw EXCEPT ![t] = row]
        /\ running' = running \/ running' = FALSE
    BY DEF Depot!Read, Depot!Wait, Depot!Free
  <1>4. saw' \in [Depot!Thread -> Depot!Row]
    BY <1>1, <1>3, TypesAre, Reads
  <1>5. /\ row' \in Depot!Row /\ up' \in BOOLEAN /\ running' \in BOOLEAN /\ firsts' \in Nat
        /\ builder' \in ScriptState /\ SameBake
    BY <1>1, <1>3, TypesAre, SameScript
  <1> QED BY <1>2, <1>3, <1>4, <1>5, EndsStep

LEMMA StepSave ==
    ASSUME DepotInv, Depot!Watch, NEW t \in Depot!Thread, Depot!Save(t) \/ Depot!Reconcile(t)
    PROVE  DepotInv'
  <1> USE DEF Depot!disk, Depot!history
  <1>1. DepotTyped /\ saw[t] \in Depot!Row /\ row \in Depot!Row
    BY TypesAre DEF DepotInv
  <1>2. PICK w \in {"save", "reconcile"} : Depot!At(t, w)
    BY DEF Depot!Save, Depot!Reconcile
  <1>3. /\ Depot!Continue(t, <<>>) /\ UNCHANGED <<up, builder, firsts, running>>
        /\ UNCHANGED <<root, published, dirs, shared, made, modules, odd, bounds>>
    BY DEF Depot!Save, Depot!Reconcile
  <1>4. row' \in Depot!Row /\ saw' \in [Depot!Thread -> Depot!Row]
    <2>1. CASE Depot!Save(t)
      <3>1. PICK on \in BOOLEAN : Depot!Write(t, [saw[t] EXCEPT !.full = on])
        BY <2>1 DEF Depot!Save
      <3>2. row' = [saw[t] EXCEPT !.full = on] /\ saw' = [saw EXCEPT ![t] = Depot!NoRow]
        BY <3>1 DEF Depot!Write
      <3>3. row' \in Depot!Row
        BY <1>1, <3>2, Rows, Zenon
      <3> QED BY <1>1, <3>2, <3>3, Rows, Reads
    <2>2. CASE Depot!Reconcile(t)
      <3>1. row' = row \/ row' = [saw[t] EXCEPT !.status = "failure"]
        BY <2>2 DEF Depot!Reconcile
      <3>2. row' \in Depot!Row
        BY <1>1, <3>1, Rows
      <3>3. saw' = [saw EXCEPT ![t] = row']
        BY <2>2 DEF Depot!Reconcile
      <3> QED BY <1>1, <3>2, <3>3, Reads
    <2> QED BY <2>1, <2>2
  <1>5. /\ up' \in BOOLEAN /\ running' \in BOOLEAN /\ firsts' \in Nat
        /\ builder' \in ScriptState /\ SameBake
    BY <1>1, <1>3, TypesAre, SameScript
  <1> QED BY <1>2, <1>3, <1>4, <1>5, EndsStep

LEMMA NoScriptTyped == Depot!NoScript \in ScriptState /\ Depot!NoScript.step = "idle"
  BY BuildsAssumption DEF Depot!NoScript, ScriptState, Depot!None, Depot!Kind

LEMMA StepClose ==
    ASSUME DepotInv, Depot!Watch, NEW t \in Depot!Thread, Depot!Close(t)
    PROVE  DepotInv'
  <1> USE DEF Depot!disk, Depot!history
  <1>1. DepotTyped /\ saw[t] \in Depot!Row
    BY TypesAre DEF DepotInv
  <1>2. /\ Depot!At(t, "close") /\ Depot!Continue(t, <<>>) /\ UNCHANGED <<up, firsts, running>>
        /\ UNCHANGED <<root, published, dirs, shared, made, modules, odd, bounds>>
        /\ builder' = Depot!NoScript
    BY DEF Depot!Close
  <1>3. PICK s \in {"success", "failure"} : Depot!Write(t, [saw[t] EXCEPT !.status = s])
    BY DEF Depot!Close
  <1>4. row' = [saw[t] EXCEPT !.status = s] /\ saw' = [saw EXCEPT ![t] = Depot!NoRow]
    BY <1>3 DEF Depot!Write
  <1>5. row' \in Depot!Row
    <2>1. s \in {"none", "running", "success", "failure"}
      OBVIOUS
    <2> QED BY <1>1, <1>4, <2>1, Rows, Zenon
  <1>6. saw' \in [Depot!Thread -> Depot!Row]
    BY <1>1, <1>4, Rows, Reads
  <1>7. builder' \in ScriptState /\ SameBake
    BY <1>2, NoScriptTyped DEF SameBake, Writing
  <1>8. up' \in BOOLEAN /\ running' \in BOOLEAN /\ firsts' \in Nat
    BY <1>1, <1>2, TypesAre
  <1> QED BY <1>2, <1>5, <1>6, <1>7, <1>8, EndsStep

(* A script begins, with a build of its own.                               *)
LEMMA BeginKeeps ==
    ASSUME DepotInv, NEW k \in Depot!Kind, NEW o \in BOOLEAN, Depot!Begin(k, o),
           UNCHANGED <<root, made, modules>>,
           DOMAIN bounds' = {"builds", "asks", "troubles"},
           bounds'.builds = IF bounds.builds = 0 THEN 0 ELSE bounds.builds - 1
    PROVE  /\ builder' \in ScriptState /\ Fresh' /\ (~crossed => Baked')
           /\ bounds'.builds \in 0 .. MaxBuilds
  <1>1. DepotTyped /\ Fresh /\ bounds.builds \in 0 .. MaxBuilds /\ MaxBuilds \in Nat
    BY BuildsAssumption DEF DepotInv, DepotTyped
  <1> DEFINE w == IF bounds.builds = 0 THEN "failure" ELSE IF k = "full" THEN "kernel" ELSE "unpack"
             r == [step |-> w, kind |-> k, build |-> MaxBuilds - bounds.builds + 1,
                   base |-> Depot!None, ours |-> o]
  <1>2. builder' = r
    BY DEF Depot!Begin
  <1>3. /\ r.step = w /\ r.kind = k /\ r.build = MaxBuilds - bounds.builds + 1
    OBVIOUS
  <1>4. r \in ScriptState
    <2>1. w \in Writing \cup {"idle", "success", "failure"}
      BY DEF Writing
    <2>2. MaxBuilds - bounds.builds + 1 \in Nat /\ Depot!None \in 0 .. MaxBuilds
      BY <1>1 DEF Depot!None
    <2> HIDE DEF w
    <2> QED BY <2>1, <2>2 DEF ScriptState
  <1>5. w \notin {"pack", "stamp"} /\ (w = "kernel" => k = "full") /\ (w = "unpack" => k = "refresh")
        /\ (w \in Writing => bounds.builds # 0)
    BY DEF Depot!Kind, Writing
  <1> HIDE DEF r, w
  <1>6. ASSUME w \in Writing
        PROVE  /\ r.build \in 1 .. MaxBuilds - bounds'.builds
               /\ made[r.build] = Depot!Empty
    <2>1. /\ r.build \in 1 .. MaxBuilds - bounds'.builds /\ r.build \in 1 .. MaxBuilds
          /\ r.build > MaxBuilds - bounds.builds
      BY <1>1, <1>3, <1>5, <1>6
    <2>2. r.build \in Depot!Build
      BY <2>1 DEF Depot!Build
    <2> QED BY <1>1, <2>1, <2>2 DEF Fresh
  <1>7. Fresh'
    <2>1. ASSUME NEW b \in Depot!Build, b > MaxBuilds - bounds'.builds
          PROVE  made[b] = Depot!Empty
      <3>1. b > MaxBuilds - bounds.builds
        BY <1>1, <2>1 DEF Depot!Build
      <3> QED BY <1>1, <3>1 DEF Fresh
    <2> QED BY <1>2, <1>3, <1>5, <1>6, <2>1 DEF Fresh
  <1>8. Baked'
    BY <1>2, <1>3, <1>5 DEF Baked
  <1> QED BY <1>1, <1>2, <1>4, <1>7, <1>8

LEMMA StepMark ==
    ASSUME DepotInv, Depot!Watch, NEW t \in Depot!Thread, Depot!Mark(t)
    PROVE  DepotInv'
  <1> USE DEF Depot!disk, Depot!history
  <1>1. DepotTyped /\ saw[t] \in Depot!Row /\ Planned
    BY TypesAre DEF DepotInv
  <1> DEFINE k == Head(todo[t]).kind
  <1>2. /\ Depot!At(t, "mark") /\ Depot!Continue(t, <<>>) /\ UNCHANGED <<up, firsts, running>>
        /\ UNCHANGED <<root, published, dirs, shared, made, modules, odd>>
        /\ Depot!Begin(k, TRUE) /\ Depot!Write(t, [saw[t] EXCEPT !.status = "running"])
    BY DEF Depot!Mark
  <1>3. bounds' = [bounds EXCEPT !.builds = IF @ = 0 THEN 0 ELSE @ - 1]
    BY DEF Depot!Mark
  <1>4. todo[t] # <<>> /\ Head(todo[t]) \in Step /\ Head(todo[t]).do = "mark"
    BY <1>1, <1>2, AtHas
  <1>5. k \in Depot!Kind
    BY <1>4 DEF Step
  <1>6. DOMAIN bounds = {"builds", "asks", "troubles"}
    BY <1>1, TypesAre
  <1>7. /\ DOMAIN bounds' = {"builds", "asks", "troubles"}
        /\ bounds'.builds = IF bounds.builds = 0 THEN 0 ELSE bounds.builds - 1
    BY <1>3, <1>6
  <1> HIDE DEF k
  <1>8. builder' \in ScriptState /\ Fresh' /\ (~crossed => Baked') /\ bounds'.builds \in 0 .. MaxBuilds
    BY <1>2, <1>5, <1>7, BeginKeeps
  <1>9. row' \in Depot!Row /\ saw' \in [Depot!Thread -> Depot!Row]
    <2>1. row' = [saw[t] EXCEPT !.status = "running"] /\ saw' = [saw EXCEPT ![t] = Depot!NoRow]
      BY <1>2 DEF Depot!Write
    <2>2. "running" \in {"none", "running", "success", "failure"}
      OBVIOUS
    <2>3. row' \in Depot!Row
      BY <1>1, <2>1, <2>2, Rows, Zenon
    <2> QED BY <1>1, <2>1, <2>3, Rows, Reads
  <1>10. <<>> \in Seq(Step) /\ Steps(<<>>) = {}
    BY StepsOf
  <1>11. Planned'
    BY <1>1, <1>2, <1>4, <1>10, GoesOn
  <1>12. DepotTyped'
    BY <1>1, <1>2, <1>7, <1>8, <1>9, <1>11, TypesAre, TypesStay
  <1> QED BY <1>2, <1>4, <1>8, <1>10, <1>12, ThreadKeeps

LEMMA StepExternal ==
    ASSUME DepotInv, Depot!Watch, NEW k \in Depot!Kind, Depot!External(k)
    PROVE  DepotInv'
  <1> USE DEF Depot!disk, Depot!history
  <1>1. DepotTyped /\ Planned /\ Desk
    BY TypesAre DEF DepotInv
  <1>2. /\ UNCHANGED <<up, firsts, running, row, saw, todo>>
        /\ UNCHANGED <<root, published, dirs, shared, made, modules, odd>>
        /\ Depot!Begin(k, FALSE) /\ bounds.builds > 0
        /\ bounds' = [bounds EXCEPT !.asks = @ - 1, !.builds = @ - 1]
    BY DEF Depot!External
  <1>3. DOMAIN bounds = {"builds", "asks", "troubles"} /\ bounds.builds \in Nat
    BY <1>1, TypesAre, BuildsAssumption
  <1>4. /\ DOMAIN bounds' = {"builds", "asks", "troubles"}
        /\ bounds'.builds = bounds.builds - 1
    BY <1>2, <1>3
  <1>5. bounds'.builds = IF bounds.builds = 0 THEN 0 ELSE bounds.builds - 1
    BY <1>2, <1>3, <1>4
  <1>6. builder' \in ScriptState /\ Fresh' /\ (~crossed => Baked') /\ bounds'.builds \in 0 .. MaxBuilds
    BY <1>2, <1>4, <1>5, BeginKeeps
  <1>7. Planned' /\ \A u \in Depot!Thread : Plan(u)' = Plan(u)
    BY <1>1, <1>2 DEF Planned, Plan
  <1>8. DepotTyped'
    BY <1>1, <1>2, <1>4, <1>6, <1>7, TypesAre, TypesStay
  <1>9. Desk'
    <2>1. crossed => crossed'
      BY DEF Depot!Watch
    <2> QED BY <1>1, <1>2, <1>7, <2>1, DeskStays
  <1>10. \A u \in Depot!Thread : \A a \in Plan(u)' : Mild(u, a)
    BY <1>7 DEF Mild
  <1> QED BY <1>2, <1>6, <1>8, <1>9, <1>10, QuietKeeps

-----------------------------------------------------------------------------
(* Threads that are begun                                                  *)

LEMMA Begins ==
    ASSUME Planned, NEW u \in Depot!Thread, NEW q \in Seq(Step), todo' = [todo EXCEPT ![u] = q]
    PROVE  /\ Planned' /\ todo'[u] = q /\ Plan(u)' = Steps(q)
           /\ \A v \in Depot!Thread \ {u} : todo'[v] = todo[v] /\ Plan(v)' = Plan(v)
  <1>1. /\ todo' \in [Depot!Thread -> Seq(Step)] /\ todo'[u] = q
        /\ \A v \in Depot!Thread \ {u} : todo'[v] = todo[v]
    BY DEF Planned
  <1> QED BY <1>1 DEF Planned, Plan

LEMMA BeginsPlain ==
    ASSUME DepotInv, Depot!Watch, NEW u \in Depot!Thread \ {"desk"}, NEW q \in Seq(Step),
           todo' = [todo EXCEPT ![u] = q], \A a \in Steps(q) : a.do \notin Moving,
           UNCHANGED <<root, published, dirs, shared, made, modules, odd, row, saw, builder, firsts>>,
           up' \in BOOLEAN, running' \in BOOLEAN, DOMAIN bounds' = {"builds", "asks", "troubles"},
           bounds'.builds = bounds.builds
    PROVE  DepotInv'
  <1>1. DepotTyped /\ Planned /\ Desk /\ Fresh /\ (~crossed => Baked)
    BY TypesAre DEF DepotInv
  <1>2. /\ Planned' /\ todo'[u] = q /\ Plan(u)' = Steps(q)
        /\ \A v \in Depot!Thread \ {u} : todo'[v] = todo[v] /\ Plan(v)' = Plan(v)
    BY <1>1, Begins
  <1>3. DepotTyped'
    BY <1>1, <1>2, TypesAre, TypesStay
  <1>4. Fresh' /\ (~crossed => Baked')
    BY <1>1, SameScript, BakeStays
  <1>5. Desk'
    <2>1. crossed => crossed'
      BY DEF Depot!Watch
    <2>2. todo'["desk"] = todo["desk"]
      BY <1>2 DEF Depot!Thread
    <2>3. \A v \in Depot!Thread \ {"desk"} : \A a \in Plan(v)' :
             a \in Plan(v) \/ a.do \notin {"relink", "publish"}
      BY <1>2 DEF Moving
    <2> QED BY <1>1, <1>2, <2>1, <2>2, <2>3, DeskStays
  <1>6. \A v \in Depot!Thread : \A a \in Plan(v)' : Mild(v, a)
    BY <1>2 DEF Mild, Moving
  <1> QED BY <1>3, <1>4, <1>5, <1>6, QuietKeeps

LEMMA Threads == "desk" \in Depot!Thread /\ {"boot", "build", "card", "poll"} \subseteq Depot!Thread \ {"desk"}
  BY DEF Depot!Thread

LEMMA StepTrigger ==
    ASSUME DepotInv, Depot!Watch, NEW k \in Depot!Kind, Depot!Trigger(k)
    PROVE  DepotInv'
  <1> USE DEF Depot!disk, Depot!history
  <1>1. DepotTyped
    BY DEF DepotInv
  <1>2. /\ UNCHANGED <<root, published, dirs, shared, made, modules, odd, row, saw, builder, firsts, up>>
        /\ todo' = [todo EXCEPT !["build"] = Depot!Rebuild(k)]
        /\ running' = TRUE /\ bounds' = [bounds EXCEPT !.asks = @ - 1]
    BY DEF Depot!Trigger
  <1>3. DOMAIN bounds' = {"builds", "asks", "troubles"} /\ bounds'.builds = bounds.builds
    BY <1>1, <1>2, TypesAre
  <1>4. up' \in BOOLEAN /\ running' \in BOOLEAN
    BY <1>1, <1>2, TypesAre
  <1>5. Depot!Rebuild(k) \in Seq(Step) /\ \A a \in Steps(Depot!Rebuild(k)) : a.do \notin Moving
    BY PlainPlans
  <1> QED BY <1>2, <1>3, <1>4, <1>5, Threads, BeginsPlain

LEMMA StepSettings ==
    ASSUME DepotInv, Depot!Watch, Depot!UpdateSettings
    PROVE  DepotInv'
  <1> USE DEF Depot!disk, Depot!history
  <1>1. DepotTyped
    BY DEF DepotInv
  <1> DEFINE r == Depot!Do("read") s == Depot!Do("save") q == <<r, s>>
  <1>2. /\ UNCHANGED <<root, published, dirs, shared, made, modules, odd, row, saw, builder, firsts, up, running>>
        /\ todo' = [todo EXCEPT !["card"] = q]
        /\ bounds' = [bounds EXCEPT !.asks = @ - 1]
    BY DEF Depot!UpdateSettings, Depot!Asked
  <1>3. DOMAIN bounds' = {"builds", "asks", "troubles"} /\ bounds'.builds = bounds.builds
    BY <1>1, <1>2, TypesAre
  <1>4. up' \in BOOLEAN /\ running' \in BOOLEAN
    BY <1>1, <1>2, TypesAre
  <1>5. r \in Step /\ s \in Step /\ r.do = "read" /\ s.do = "save"
    BY DoSteps
  <1> HIDE DEF r, s
  <1>6. q \in Seq(Step) /\ Steps(q) = {r, s}
    BY <1>5, StepsOf
  <1> HIDE DEF q
  <1>7. \A a \in Steps(q) : a.do \notin Moving
    BY <1>5, <1>6 DEF Moving
  <1> QED BY <1>2, <1>3, <1>4, <1>6, <1>7, Threads, BeginsPlain

LEMMA StepPoll ==
    ASSUME DepotInv, Depot!Watch, Depot!Poll
    PROVE  DepotInv'
  <1> USE DEF Depot!disk, Depot!history
  <1>1. DepotTyped
    BY DEF DepotInv
  <1> DEFINE r == Depot!Do("adopt") q == <<r>>
  <1>2. /\ UNCHANGED <<root, published, dirs, shared, made, modules, odd, row, saw, builder, firsts, up, running, bounds>>
        /\ todo' = [todo EXCEPT !["poll"] = q]
    BY DEF Depot!Poll
  <1>3. DOMAIN bounds' = {"builds", "asks", "troubles"} /\ bounds'.builds = bounds.builds
    BY <1>1, <1>2, TypesAre
  <1>4. up' \in BOOLEAN /\ running' \in BOOLEAN
    BY <1>1, <1>2, TypesAre
  <1>5. r \in Step /\ r.do = "adopt"
    BY DoSteps
  <1> HIDE DEF r
  <1>6. q \in Seq(Step) /\ Steps(q) = {r}
    BY <1>5, StepsOf
  <1> HIDE DEF q
  <1>7. \A a \in Steps(q) : a.do \notin Moving
    BY <1>5, <1>6 DEF Moving
  <1> QED BY <1>2, <1>3, <1>4, <1>6, <1>7, Threads, BeginsPlain

LEMMA StepStart ==
    ASSUME DepotInv, Depot!Watch, Depot!Start
    PROVE  DepotInv'
  <1> USE DEF Depot!disk, Depot!history
  <1>1. DepotTyped
    BY DEF DepotInv
  <1>2. /\ UNCHANGED <<root, published, dirs, shared, made, modules, odd, row, saw, builder, firsts, running, bounds>>
        /\ todo' = [todo EXCEPT !["boot"] = Depot!Startup] /\ up' = TRUE
    BY DEF Depot!Start
  <1>3. DOMAIN bounds' = {"builds", "asks", "troubles"} /\ bounds'.builds = bounds.builds
    BY <1>1, <1>2, TypesAre
  <1>4. up' \in BOOLEAN /\ running' \in BOOLEAN
    BY <1>1, <1>2, TypesAre
  <1>5. Depot!Startup \in Seq(Step) /\ \A a \in Steps(Depot!Startup) : a.do \notin Moving
    BY PlainPlans
  <1> QED BY <1>2, <1>3, <1>4, <1>5, Threads, BeginsPlain

(* A rollback is asked for: everything it does is still before it.          *)
LEMMA StepActivate ==
    ASSUME DepotInv, Depot!Watch, NEW b \in Depot!Build, Depot!Activate(b)
    PROVE  DepotInv'
  <1> USE DEF Depot!disk, Depot!history
  <1>1. DepotTyped /\ Planned /\ Desk /\ Fresh /\ (~crossed => Baked)
    BY TypesAre DEF DepotInv
  <1> DEFINE q == Depot!Rollback(b)
  <1>2. /\ UNCHANGED <<root, published, dirs, shared, made, modules, odd, row, saw, builder, firsts, up, running>>
        /\ todo' = [todo EXCEPT !["desk"] = q]
        /\ bounds' = [bounds EXCEPT !.asks = @ - 1]
    BY DEF Depot!Activate, Depot!Asked
  <1>3. DOMAIN bounds' = {"builds", "asks", "troubles"} /\ bounds'.builds = bounds.builds
    BY <1>1, <1>2, TypesAre
  <1>4. q \in Seq(Step) /\ \A a \in Steps(q) : a.do \notin {"copy", "rm"}
    <2> DEFINE x == Depot!OnFile("relink", b, "rootfs")
               y == Depot!OnFile("relink", b, "kernel")
               z == Depot!OnBuild("publish", b)
               p == Depot!Do("prune")
    <2>1. q = <<x, y, z, p>> /\ q \in Seq(Step)
      BY RollbackPlan
    <2>2. x.do = "relink" /\ y.do = "relink" /\ z.do = "publish" /\ p.do = "prune"
          /\ x \in Step /\ y \in Step /\ z \in Step /\ p \in Step
      BY DoSteps DEF Depot!File
    <2> HIDE DEF x, y, z, p, q
    <2>3. Steps(q) = {x, y, z, p}
      BY <2>1, <2>2, StepsFour
    <2> QED BY <2>1, <2>2, <2>3
  <1>5. /\ Planned' /\ todo'["desk"] = q /\ Plan("desk")' = Steps(q)
        /\ \A v \in Depot!Thread \ {"desk"} : todo'[v] = todo[v] /\ Plan(v)' = Plan(v)
    BY <1>1, <1>2, <1>4, Threads, Begins
  <1>6. DepotTyped'
    BY <1>1, <1>2, <1>3, <1>5, TypesAre, TypesStay
  <1>7. Fresh' /\ (~crossed => Baked')
    BY <1>1, <1>2, <1>3, SameScript, BakeStays
  <1>8. Desk'
    BY <1>1, <1>5 DEF Desk
  <1>9. \A v \in Depot!Thread : \A a \in Plan(v)' : Mild(v, a)
    BY <1>4, <1>5 DEF Mild
  <1> HIDE DEF q
  <1> QED BY <1>2, <1>6, <1>7, <1>8, <1>9, QuietKeeps

LEMMA StepBootstrap ==
    ASSUME DepotInv, Depot!Watch, NEW t \in Depot!Thread, Depot!Bootstrap(t)
    PROVE  DepotInv'
  <1> USE DEF Depot!disk, Depot!history
  <1>1. DepotTyped /\ saw[t] \in Depot!Row /\ Planned /\ Desk /\ Fresh /\ (~crossed => Baked)
    BY TypesAre DEF DepotInv
  <1>2. /\ Depot!At(t, "bootstrap")
        /\ UNCHANGED <<root, published, dirs, shared, made, modules, odd, builder, up, bounds>>
    BY DEF Depot!Bootstrap
  <1>3. up' \in BOOLEAN /\ builder' \in ScriptState /\ SameBake
    BY <1>1, <1>2, TypesAre, SameScript
  <1>4. CASE Depot!Continue(t, <<>>) /\ Depot!Drop(t) /\ UNCHANGED <<running, firsts>>
    <2>1. saw' = [saw EXCEPT ![t] = Depot!NoRow] /\ row' = row
      BY <1>4 DEF Depot!Drop
    <2>2. saw' \in [Depot!Thread -> Depot!Row]
      BY <1>1, <2>1, Rows, Reads
    <2>3. row' \in Depot!Row /\ running' \in BOOLEAN /\ firsts' \in Nat
      BY <1>1, <1>4, <2>1, TypesAre
    <2> QED BY <1>2, <1>3, <1>4, <2>2, <2>3, EndsStep
  <1>5. CASE Depot!Write(t, [saw[t] EXCEPT !.claimed = TRUE]) /\ Depot!FirstBuild(t)
    <2>1. row' = [saw[t] EXCEPT !.claimed = TRUE] /\ saw' = [saw EXCEPT ![t] = Depot!NoRow]
      BY <1>5 DEF Depot!Write
    <2>2. row' \in Depot!Row
      <3>1. TRUE \in BOOLEAN
        OBVIOUS
      <3> QED BY <1>1, <2>1, <3>1, Rows, Zenon
    <2>3. saw' \in [Depot!Thread -> Depot!Row]
      BY <1>1, <2>1, Rows, Reads
    <2>4. running' \in BOOLEAN /\ firsts' \in Nat
      BY <1>1, <1>5, TypesAre DEF Depot!FirstBuild
    <2> DEFINE q == Depot!Rebuild("full")
    <2>5. todo' = [todo EXCEPT ![t] = Tail(@), !["build"] = q]
      BY <1>5 DEF Depot!FirstBuild
    <2>6. q \in Seq(Step) /\ \A a \in Steps(q) : a.do \notin Moving
      BY PlainPlans DEF Depot!Kind
    <2> HIDE DEF q
    <2>7. /\ todo[t] # <<>> /\ Head(todo[t]).do = "bootstrap"
          /\ Plan(t) = {Head(todo[t])} \cup Steps(Tail(todo[t]))
      BY <1>1, <1>2, AtHas
    <2>8. todo[t] \in Seq(Step) /\ Tail(todo[t]) \in Seq(Step)
      BY <1>1, <2>7, StepsTail DEF Planned
    <2>9. /\ todo' \in [Depot!Thread -> Seq(Step)] /\ todo'["build"] = q
          /\ \A u \in Depot!Thread \ {"build"} :
                todo'[u] = IF u = t THEN Tail(todo[t]) ELSE todo[u]
      BY <1>1, <2>5, <2>6, <2>8, Threads DEF Planned
    <2>10. /\ Planned' /\ Plan("build")' = Steps(q)
           /\ \A u \in Depot!Thread \ {"build"} : Plan(u)' \subseteq Plan(u)
      BY <2>7, <2>9 DEF Planned, Plan
    <2>11. DepotTyped'
      BY <1>1, <1>2, <1>3, <2>2, <2>3, <2>4, <2>10, TypesAre, TypesStay
    <2>12. Fresh' /\ (~crossed => Baked')
      BY <1>1, <1>2, <1>3, BakeStays
    <2>13. Desk'
      <3>1. crossed => crossed'
        BY DEF Depot!Watch
      <3>2. \A v \in Depot!Thread \ {"desk"} : \A a \in Plan(v)' :
               a \in Plan(v) \/ a.do \notin {"relink", "publish"}
        BY <2>6, <2>10 DEF Moving
      <3>3. "desk" \in Depot!Thread \ {"build"}
        BY DEF Depot!Thread
      <3>4. CASE t = "desk"
        <4>1. \A a \in Plan("desk") : a.do \notin {"relink", "publish"}
          BY <1>1, <2>7, <3>4, DeskFree
        <4> QED BY <1>1, <1>2, <2>10, <3>1, <3>2, <3>3, <4>1, DeskStays
      <3>5. CASE t # "desk"
        <4>1. todo'["desk"] = todo["desk"]
          BY <2>9, <3>3, <3>5
        <4> QED BY <1>1, <1>2, <2>10, <3>1, <3>2, <4>1, DeskStays
      <3> QED BY <3>4, <3>5
    <2>14. \A v \in Depot!Thread : \A a \in Plan(v)' : Mild(v, a)
      BY <2>6, <2>10 DEF Mild, Moving
    <2> QED BY <1>2, <2>11, <2>12, <2>13, <2>14, QuietKeeps
  <1> QED BY <1>4, <1>5 DEF Depot!Bootstrap

(* The server dies, and its threads with it; the script may live on.        *)
LEMMA StepCrash ==
    ASSUME DepotInv, Depot!Watch, Depot!Crash
    PROVE  DepotInv'
  <1> USE DEF Depot!disk, Depot!history
  <1>1. DepotTyped /\ Planned /\ Desk /\ Fresh /\ (~crossed => Baked)
    BY TypesAre DEF DepotInv
  <1>2. /\ UNCHANGED <<root, published, dirs, shared, made, modules, odd, row, firsts>>
        /\ todo' = [t \in Depot!Thread |-> <<>>] /\ saw' = [t \in Depot!Thread |-> Depot!NoRow]
        /\ up' = FALSE /\ running' = FALSE
        /\ bounds' = [bounds EXCEPT !.troubles = @ - 1]
        /\ builder' = Depot!NoScript \/ builder' = [builder EXCEPT !.ours = FALSE]
    BY DEF Depot!Crash
  <1>3. DOMAIN bounds' = {"builds", "asks", "troubles"} /\ bounds'.builds = bounds.builds
    BY <1>1, <1>2, TypesAre
  <1>4. builder' \in ScriptState /\ SameBake
    <2>1. CASE builder' = Depot!NoScript
      BY <2>1, NoScriptTyped DEF SameBake, Writing
    <2>2. CASE builder' = [builder EXCEPT !.ours = FALSE]
      <3>1. builder \in ScriptState
        BY <1>1, TypesAre
      <3> QED BY <2>2, <3>1 DEF SameBake, ScriptState
    <2> QED BY <1>2, <2>1, <2>2
  <1>5. saw' \in [Depot!Thread -> Depot!Row]
    BY <1>2, Rows
  <1>6. Planned' /\ \A u \in Depot!Thread : Plan(u)' = {}
    <2>1. <<>> \in Seq(Step)
      OBVIOUS
    <2> QED BY <1>2, <2>1, StepsOf DEF Planned, Plan
  <1>7. DepotTyped'
    BY <1>1, <1>2, <1>3, <1>4, <1>5, <1>6, TypesAre, TypesStay
  <1>8. Fresh' /\ (~crossed => Baked')
    BY <1>1, <1>2, <1>3, <1>4, BakeStays
  <1>9. Desk'
    BY <1>6, Threads DEF Desk
  <1>10. \A v \in Depot!Thread : \A a \in Plan(v)' : Mild(v, a)
    BY <1>6
  <1> QED BY <1>2, <1>7, <1>8, <1>9, <1>10, QuietKeeps

-----------------------------------------------------------------------------
(* The script                                                              *)

(* It goes on without touching the root.                                   *)
LEMMA ScriptQuiet ==
    ASSUME DepotInv, Depot!Watch,
           UNCHANGED <<root, published, dirs, shared, made, modules, row, saw, todo, up, running, bounds, firsts>>,
           odd \subseteq odd', builder' \in ScriptState, Fresh', ~crossed => Baked'
    PROVE  DepotInv'
  <1>1. DepotTyped /\ Planned /\ Desk
    BY TypesAre DEF DepotInv
  <1>2. Planned' /\ \A u \in Depot!Thread : Plan(u)' = Plan(u)
    BY <1>1 DEF Planned, Plan
  <1>3. DepotTyped'
    BY <1>1, <1>2, TypesAre, TypesStay
  <1>4. crossed => crossed'
    BY DEF Depot!Watch
  <1>5. Desk'
    BY <1>1, <1>2, <1>4, DeskStays
  <1>6. \A v \in Depot!Thread : \A a \in Plan(v)' : Mild(v, a)
    BY <1>2 DEF Mild
  <1> QED BY <1>3, <1>5, <1>6, QuietKeeps

(* It ends.                                                                *)
LEMMA OverIs ==
    ASSUME DepotTyped, NEW r \in {"success", "failure"}, Depot!Over(r)
    PROVE  builder' \in ScriptState /\ builder'.step \in {r, "idle"} /\ SameBake
  <1>1. builder \in ScriptState
    BY TypesAre
  <1>2. CASE builder' = Depot!NoScript
    BY <1>2, NoScriptTyped DEF SameBake, Writing
  <1>3. CASE builder' = [builder EXCEPT !.step = r]
    <2>1. builder' \in ScriptState /\ builder'.step = r
      BY <1>1, <1>3 DEF ScriptState
    <2> QED BY <2>1 DEF SameBake, Writing
  <1> QED BY <1>2, <1>3 DEF Depot!Over

LEMMA StepGiveUp ==
    ASSUME DepotInv, Depot!Watch, Depot!GiveUp
    PROVE  DepotInv'
  <1> USE DEF Depot!disk, Depot!history
  <1>1. DepotTyped /\ Fresh /\ (~crossed => Baked)
    BY DEF DepotInv
  <1>2. /\ UNCHANGED <<root, published, dirs, shared, made, modules, row, saw, todo, up, running, bounds, firsts, odd>>
    BY DEF Depot!GiveUp
  <1>3. PICK r \in {"success", "failure"} : Depot!Over(r)
    BY DEF Depot!GiveUp
  <1>4. builder' \in ScriptState /\ SameBake
    BY <1>1, <1>3, OverIs
  <1>5. Fresh' /\ (~crossed => Baked')
    BY <1>1, <1>2, <1>4, BakeStays
  <1> QED BY <1>2, <1>4, <1>5, ScriptQuiet

LEMMA StepUnpack ==
    ASSUME DepotInv, Depot!Watch, Depot!Unpack
    PROVE  DepotInv'
  <1> USE DEF Depot!disk, Depot!history
  <1>1. DepotTyped /\ Fresh /\ (~crossed => Baked) /\ builder \in ScriptState
    BY TypesAre DEF DepotInv
  <1>2. UNCHANGED <<root, published, dirs, shared, made, modules, row, saw, todo, up, running, bounds, firsts>>
    BY DEF Depot!Unpack
  <1>3. CASE root["rootfs"] = Depot!None
    <2>1. Depot!Over("failure") /\ UNCHANGED odd
      BY <1>3 DEF Depot!Unpack
    <2>2. builder' \in ScriptState /\ SameBake
      BY <1>1, <2>1, OverIs
    <2>3. Fresh' /\ (~crossed => Baked')
      BY <1>1, <1>2, <2>1, <2>2, BakeStays
    <2> QED BY <1>2, <2>1, <2>2, <2>3, ScriptQuiet
  <1>4. CASE root["rootfs"] # Depot!None
    <2>1. /\ builder.step = "unpack"
          /\ builder' = [builder EXCEPT !.step = "pack", !.base = root["rootfs"]]
          /\ odd' = IF Depot!Served /\ published \notin odd THEN odd ELSE odd \cup {builder.build}
      BY <1>4 DEF Depot!Unpack
    <2>2. root \in [Depot!File -> 0 .. MaxBuilds] /\ "rootfs" \in Depot!File /\ "kernel" \in Depot!File
      BY <1>1 DEF DepotTyped, Depot!TypeOK, Depot!File
    <2>3. root["rootfs"] \in 0 .. MaxBuilds /\ root["rootfs"] \in Depot!Build
      BY <1>4, <2>2, BuildsAssumption DEF Depot!Build, Depot!None
    <2>4. /\ builder' \in ScriptState /\ builder'.step = "pack" /\ builder'.base = root["rootfs"]
          /\ builder'.kind = builder.kind /\ builder'.build = builder.build
      BY <1>1, <2>1, <2>3 DEF ScriptState, Writing
    <2>5. builder.kind = "refresh"
      BY <1>1, <2>1 DEF Fresh
    <2>6. Fresh'
      BY <1>1, <1>2, <2>1, <2>3, <2>4, <2>5 DEF Fresh, Writing
    <2>7. ASSUME ~crossed PROVE Baked'
      <3> SUFFICES ASSUME builder.build \notin odd'
                   PROVE  made[root["rootfs"]] # Depot!Empty /\ root["kernel"] = modules[root["rootfs"]]
        BY <1>2, <2>4, <2>5 DEF Baked
      <3>1. Depot!Served /\ published \notin odd
        BY <2>1
      <3>2. published # Depot!None /\ root = made[published]
        BY <3>1 DEF Depot!Served
      <3>3. published \in Depot!Build
        BY <1>1, <3>2, TypesAre DEF Depot!Build, Depot!None
      <3>4. made[published] # Depot!Empty
        BY <1>4, <2>2, <3>2 DEF Depot!Empty
      <3>5. made[published]["rootfs"] = published /\ made[published]["kernel"] = modules[published]
        BY <2>7, <3>1, <3>3, <3>4 DEF DepotInv, Depot!HistoryTrue
      <3> QED BY <3>2, <3>4, <3>5
    <2>8. odd \subseteq odd'
      BY <2>1
    <2> QED BY <1>2, <2>4, <2>6, <2>7, <2>8, ScriptQuiet
  <1> QED BY <1>3, <1>4

-----------------------------------------------------------------------------
(* Steps that touch the disk                                               *)

LEMMA Files == "rootfs" \in Depot!File /\ "kernel" \in Depot!File
               /\ \A f \in Depot!File : f = "rootfs" \/ f = "kernel"
  BY DEF Depot!File

LEMMA DiskTypes ==
    ASSUME DepotTyped
    PROVE  /\ root \in [Depot!File -> 0 .. MaxBuilds] /\ published \in 0 .. MaxBuilds
           /\ dirs \in [Depot!Build -> [Depot!File -> 0 .. MaxBuilds]]
           /\ shared \subseteq Depot!Build \X Depot!Shareable
           /\ made \in [Depot!Build -> [Depot!File -> 0 .. MaxBuilds]]
           /\ modules \in [Depot!Build -> 0 .. MaxBuilds]
  BY DEF DepotTyped, Depot!TypeOK

(* The types, where a step touches only the disk.                          *)
LEMMA DiskTyped ==
    ASSUME DepotTyped, UNCHANGED <<row, saw, up, running, firsts, bounds>>,
           Planned', builder' \in ScriptState,
           root' \in [Depot!File -> 0 .. MaxBuilds], published' \in 0 .. MaxBuilds,
           dirs' \in [Depot!Build -> [Depot!File -> 0 .. MaxBuilds]],
           shared' \subseteq Depot!Build \X Depot!Shareable,
           made' \in [Depot!Build -> [Depot!File -> 0 .. MaxBuilds]],
           modules' \in [Depot!Build -> 0 .. MaxBuilds]
    PROVE  DepotTyped'
  <1>1. Depot!Shareable \subseteq Depot!File
    BY DEF Depot!Shareable, Depot!File
  <1>2. shared' \subseteq Depot!Build \X Depot!File
    BY <1>1
  <1>3. Depot!TypeOK'
    BY <1>2 DEF DepotTyped, Depot!TypeOK
  <1> QED BY <1>3 DEF DepotTyped

(* Filing, from its parts, before and after a step.                        *)
LEMMA FilingKept ==
    ASSUME Planned, Planned', published' = published,
           published # Depot!None /\ published \notin Depot!Kept' =>
               \/ published \notin Depot!Kept
               \/ \E t \in Depot!Thread : \E a \in Plan(t) : a.do = "rm" /\ published \in a.builds,
           \A t \in Depot!Thread : \A a \in Plan(t)' :
               \/ a \in Plan(t)
               \/ a.do \notin {"copy", "rm"}
               \/ a.do = "rm" /\ \E c \in Plan(t) : c.do = "rm" /\ a.builds \subseteq c.builds
    PROVE  Depot!Filing' => Depot!Filing
  <1>1. Depot!Filing <=>
                \/ published # Depot!None /\ published \notin Depot!Kept
                \/ \E t \in Depot!Thread : \E a \in Plan(t) :
                      a.do = "copy" \/ (a.do = "rm" /\ published \in a.builds)
    BY CrossingIs DEF Told
  <1>2. Depot!Filing' <=>
                \/ published' # Depot!None /\ published' \notin Depot!Kept'
                \/ \E t \in Depot!Thread : \E a \in Plan(t)' :
                      a.do = "copy" \/ (a.do = "rm" /\ published' \in a.builds)
    BY CrossingNext DEF Told
  <1>3. ASSUME NEW t \in Depot!Thread, NEW a \in Plan(t)',
               a.do = "copy" \/ (a.do = "rm" /\ published \in a.builds)
        PROVE  \E c \in Plan(t) : c.do = "copy" \/ (c.do = "rm" /\ published \in c.builds)
    BY <1>3
  <1> QED BY <1>1, <1>2, <1>3

LEMMA StepCopy ==
    ASSUME DepotInv, Depot!Watch, NEW t \in Depot!Thread, Depot!Copy(t)
    PROVE  DepotInv'
  <1> USE DEF Depot!disk, Depot!history
  <1>1. DepotTyped /\ Planned /\ Desk /\ Fresh /\ (~crossed => Baked)
    BY TypesAre DEF DepotInv
  <1> DEFINE b == Head(todo[t]).build f == Head(todo[t]).file
  <1>2. /\ Depot!At(t, "copy") /\ Depot!Continue(t, <<>>)
        /\ UNCHANGED <<root, published, builder, row, saw, up, running, bounds, made, modules, firsts, odd>>
    BY DEF Depot!Copy
  <1>3. /\ todo[t] # <<>> /\ Head(todo[t]) \in Step /\ Head(todo[t]).do = "copy"
        /\ Plan(t) = {Head(todo[t])} \cup Steps(Tail(todo[t]))
    BY <1>1, <1>2, AtHas
  <1>4. b \in Depot!Build /\ f \in Depot!File
    BY <1>3 DEF Step
  <1>5. <<>> \in Seq(Step) /\ Steps(<<>>) = {}
    BY StepsOf
  <1>6. /\ Planned' /\ \A u \in Depot!Thread \ {t} : todo'[u] = todo[u] /\ Plan(u)' = Plan(u)
        /\ Plan(t)' \subseteq Plan(t)
    BY <1>1, <1>2, <1>3, <1>5, GoesOn
  <1>7. \/ dirs' = dirs
        \/ root[f] # Depot!None /\ dirs' = [dirs EXCEPT ![b] = [@ EXCEPT ![f] = root[f]]]
    BY DEF Depot!Copy
  <1>8. shared' \subseteq Depot!Build \X Depot!Shareable
    <2>1. shared \subseteq Depot!Build \X Depot!Shareable
      BY <1>1, DiskTypes
    <2>2. \/ shared' = shared
          \/ f \in Depot!Shareable /\ shared' = shared \cup {<<b, f>>}
          \/ shared' = shared \ {<<b, f>>}
      BY DEF Depot!Copy
    <2> QED BY <1>4, <2>1, <2>2
  <1> HIDE DEF b, f
  <1>9. root[f] \in 0 .. MaxBuilds /\ dirs \in [Depot!Build -> [Depot!File -> 0 .. MaxBuilds]]
    BY <1>1, <1>4, DiskTypes
  <1>10. dirs' \in [Depot!Build -> [Depot!File -> 0 .. MaxBuilds]]
    BY <1>4, <1>7, <1>9
  <1>11. DepotTyped'
    BY <1>1, <1>2, <1>6, <1>8, <1>10, TypesAre, DiskTypes, DiskTyped
  <1>12. Fresh' /\ (~crossed => Baked')
    BY <1>1, <1>2, SameScript, BakeStays
  <1>13. crossed => crossed'
    BY DEF Depot!Watch
  <1>14. Desk'
    <2>1. \/ todo'["desk"] = todo["desk"]
          \/ \A a \in Plan("desk")' : a.do \notin {"relink", "publish"}
      BY <1>1, <1>3, <1>6, DeskFree, Threads
    <2> QED BY <1>1, <1>2, <1>6, <1>13, <2>1, DeskStays
  <1>15. Depot!Filing
    BY <1>1, <1>3, CrossingIs DEF Told
  <1>16. ASSUME ~crossed' PROVE Depot!HistoryTrue' /\ Filed'
    <2>1. ~crossed /\ Depot!HistoryTrue /\ Filed
      BY <1>13, <1>16 DEF DepotInv
    <2> HIDE DEF Step
    <2>2. b = published
      BY <1>3, <2>1 DEF Filed, b
    <2>3. root[f] \in {Depot!None, made[b][f]}
      BY <1>4, <1>15, <2>1, <2>2, Files DEF Filed, Of
    <2>4. \A c \in Depot!Build, g \in Depot!File : dirs'[c][g] \in {Depot!None, made[c][g]}
      <3> SUFFICES ASSUME NEW c \in Depot!Build, NEW g \in Depot!File
                   PROVE  dirs'[c][g] \in {Depot!None, made[c][g]}
        OBVIOUS
      <3>1. dirs[c][g] \in {Depot!None, made[c][g]}
        BY <2>1 DEF Depot!HistoryTrue
      <3>2. dirs'[c][g] = dirs[c][g] \/ (c = b /\ g = f /\ dirs'[c][g] = root[f])
        BY <1>4, <1>7, <1>9
      <3> QED BY <2>3, <3>1, <3>2
    <2>5. Depot!HistoryTrue'
      BY <1>2, <2>1, <2>4 DEF Depot!HistoryTrue
    <2>6. Filed'
      BY <1>2, <1>6, <1>15, <2>1 DEF Filed, Of
    <2> QED BY <2>5, <2>6
  <1> QED BY <1>11, <1>12, <1>13, <1>14, <1>16 DEF DepotInv, Depot!Watch

LEMMA StepRm ==
    ASSUME DepotInv, Depot!Watch, NEW t \in Depot!Thread, Depot!Rm(t)
    PROVE  DepotInv'
  <1> USE DEF Depot!disk, Depot!history
  <1>1. DepotTyped /\ Planned /\ Desk /\ Fresh /\ (~crossed => Baked)
    BY TypesAre DEF DepotInv
  <1> DEFINE D == Head(todo[t]).builds
  <1>2. /\ Depot!At(t, "rm")
        /\ UNCHANGED <<root, published, builder, row, saw, up, running, bounds, made, modules, firsts, odd>>
    BY DEF Depot!Rm
  <1>3. /\ todo[t] # <<>> /\ Head(todo[t]) \in Step /\ Head(todo[t]).do = "rm"
        /\ Plan(t) = {Head(todo[t])} \cup Steps(Tail(todo[t]))
    BY <1>1, <1>2, AtHas
  <1>4. D \subseteq Depot!Build
    BY <1>3 DEF Step
  <1>5. PICK b \in D :
           /\ dirs' = [dirs EXCEPT ![b] = Depot!Empty]
           /\ shared' = {x \in shared : x[1] # b}
           /\ Depot!Continue(t, IF D = {b} THEN <<>> ELSE <<[do |-> "rm", builds |-> D \ {b}]>>)
    BY DEF Depot!Rm
  <1> DEFINE r == [do |-> "rm", builds |-> D \ {b}]
             s == IF D = {b} THEN <<>> ELSE <<r>>
  <1>6. r \in Step /\ r.do = "rm" /\ r.builds \subseteq D
    <2>1. D \ {b} \in SUBSET Depot!Build
      BY <1>4
    <2>2. r \in Step
      BY <2>1, DoSteps
    <2> QED BY <2>2
  <1> HIDE DEF r
  <1>7. s \in Seq(Step) /\ \A a \in Steps(s) : a = r
    <2>1. CASE D = {b}
      BY <2>1, StepsOf
    <2>2. CASE D # {b}
      BY <1>6, <2>2, StepsOf
    <2> QED BY <2>1, <2>2
  <1>8. Depot!Continue(t, s)
    BY <1>5 DEF r
  <1> HIDE DEF s
  <1>9. /\ Planned' /\ \A u \in Depot!Thread \ {t} : todo'[u] = todo[u] /\ Plan(u)' = Plan(u)
        /\ \A a \in Plan(t)' : a \in Plan(t) \/ a = r
    BY <1>1, <1>3, <1>7, <1>8, GoesOn
  <1>10. D \subseteq Depot!Build /\ b \in Depot!Build /\ Head(todo[t]) \in Plan(t) /\ Head(todo[t]).builds = D
    BY <1>3, <1>4
  <1> HIDE DEF D
  <1>11. dirs \in [Depot!Build -> [Depot!File -> 0 .. MaxBuilds]]
         /\ Depot!Empty \in [Depot!File -> 0 .. MaxBuilds]
    BY <1>1, DiskTypes, BuildsAssumption DEF Depot!Empty, Depot!None
  <1>12. dirs' \in [Depot!Build -> [Depot!File -> 0 .. MaxBuilds]]
    BY <1>5, <1>10, <1>11
  <1>13. shared' \subseteq Depot!Build \X Depot!Shareable
    BY <1>1, <1>5, DiskTypes
  <1>14. DepotTyped'
    BY <1>1, <1>2, <1>9, <1>12, <1>13, TypesAre, DiskTypes, DiskTyped
  <1>15. Fresh' /\ (~crossed => Baked')
    BY <1>1, <1>2, SameScript, BakeStays
  <1>16. crossed => crossed'
    BY DEF Depot!Watch
  <1>17. Desk'
    <2>1. \/ todo'["desk"] = todo["desk"]
          \/ \A a \in Plan("desk")' : a.do \notin {"relink", "publish"}
      BY <1>1, <1>3, <1>6, <1>9, DeskFree, Threads
    <2>2. \A u \in Depot!Thread \ {"desk"} : \A a \in Plan(u)' :
             a \in Plan(u) \/ a.do \notin {"relink", "publish"}
      BY <1>6, <1>9
    <2> QED BY <1>1, <1>2, <1>9, <1>16, <2>1, <2>2, DeskStays
  <1>18. Depot!Filing' => Depot!Filing
    <2>1. published \notin Depot!Kept' => published \notin Depot!Kept \/ published = b
      BY <1>5, <1>10, <1>11 DEF Depot!Kept
    <2>2. published \notin Depot!Kept' =>
             \/ published \notin Depot!Kept
             \/ \E u \in Depot!Thread : \E a \in Plan(u) : a.do = "rm" /\ published \in a.builds
      BY <1>3, <1>5, <1>10, <2>1
    <2>3. \A u \in Depot!Thread : \A a \in Plan(u)' :
             a \in Plan(u) \/ (a.do = "rm" /\ \E c \in Plan(u) : c.do = "rm" /\ a.builds \subseteq c.builds)
      BY <1>3, <1>6, <1>9, <1>10
    <2> QED BY <1>1, <1>2, <1>9, <2>2, <2>3, FilingKept
  <1>19. ASSUME ~crossed' PROVE Depot!HistoryTrue' /\ Filed'
    <2>1. ~crossed /\ Depot!HistoryTrue /\ Filed
      BY <1>16, <1>19 DEF DepotInv
    <2>2. \A c \in Depot!Build, g \in Depot!File : dirs'[c][g] \in {Depot!None, made[c][g]}
      <3> SUFFICES ASSUME NEW c \in Depot!Build, NEW g \in Depot!File
                   PROVE  dirs'[c][g] \in {Depot!None, made[c][g]}
        OBVIOUS
      <3>1. dirs[c][g] \in {Depot!None, made[c][g]}
        BY <2>1 DEF Depot!HistoryTrue
      <3>2. dirs'[c] = dirs[c] \/ dirs'[c] = Depot!Empty
        BY <1>5, <1>10, <1>11
      <3> QED BY <3>1, <3>2 DEF Depot!Empty
    <2>3. Depot!HistoryTrue'
      BY <1>2, <2>1, <2>2 DEF Depot!HistoryTrue
    <2>4. \A u \in Depot!Thread : \A a \in Plan(u)' : a.do = "copy" => a.build = published
      BY <1>6, <1>9, <2>1 DEF Filed
    <2>5. Filed'
      BY <1>2, <1>18, <2>1, <2>4 DEF Filed, Of
    <2> QED BY <2>3, <2>5
  <1> QED BY <1>14, <1>15, <1>16, <1>17, <1>19 DEF DepotInv, Depot!Watch

(* A rollback in its course: which step it is at, and what is laid out.     *)
LEMMA RollbackAt ==
    ASSUME Planned, Desk, NEW t \in Depot!Thread, todo[t] # <<>>,
           Head(todo[t]).do \in {"relink", "publish"}, Head(todo[t]) \in Plan(t)
    PROVE  /\ t = "desk"
           /\ \E b \in Depot!Build :
                 LET x == Depot!OnFile("relink", b, "rootfs")
                     y == Depot!OnFile("relink", b, "kernel")
                     z == Depot!OnBuild("publish", b)
                     p == Depot!Do("prune")
                     h == Head(todo[t])
                 IN  \/ h = x /\ Tail(todo[t]) = <<y, z, p>>
                     \/ h = y /\ Tail(todo[t]) = <<z, p>> /\ (~crossed => Of(b, "rootfs"))
                     \/ h = z /\ Tail(todo[t]) = <<p>> /\ (~crossed => Of(b, "rootfs") /\ Of(b, "kernel"))
  <1>1. t = "desk"
    BY DEF Desk
  <1>2. PICK b \in Depot!Build :
             LET q == Depot!Rollback(b) IN
             \/ todo["desk"] = q
             \/ todo["desk"] = Tail(q) /\ (~crossed => Of(b, "rootfs"))
             \/ todo["desk"] = Tail(Tail(q)) /\ (~crossed => Of(b, "rootfs") /\ Of(b, "kernel"))
    BY <1>1 DEF Desk
  <1> DEFINE x == Depot!OnFile("relink", b, "rootfs")
             y == Depot!OnFile("relink", b, "kernel")
             z == Depot!OnBuild("publish", b)
             p == Depot!Do("prune")
  <1>3. \/ todo["desk"] = <<x, y, z, p>>
        \/ todo["desk"] = <<y, z, p>> /\ (~crossed => Of(b, "rootfs"))
        \/ todo["desk"] = <<z, p>> /\ (~crossed => Of(b, "rootfs") /\ Of(b, "kernel"))
    BY <1>2, RollbackPlan
  <1> HIDE DEF x, y, z, p
  <1>4. /\ Head(<<x, y, z, p>>) = x /\ Head(<<y, z, p>>) = y /\ Head(<<z, p>>) = z
        /\ Tail(<<x, y, z, p>>) = <<y, z, p>> /\ Tail(<<y, z, p>>) = <<z, p>> /\ Tail(<<z, p>>) = <<p>>
    OBVIOUS
  <1>5. \/ Head(todo[t]) = x /\ Tail(todo[t]) = <<y, z, p>>
        \/ Head(todo[t]) = y /\ Tail(todo[t]) = <<z, p>> /\ (~crossed => Of(b, "rootfs"))
        \/ Head(todo[t]) = z /\ Tail(todo[t]) = <<p>> /\ (~crossed => Of(b, "rootfs") /\ Of(b, "kernel"))
    BY <1>1, <1>3, <1>4
  <1> QED BY <1>1, <1>5 DEF x, y, z, p

(* What follows when a rollback or a script is in its course: filing, or    *)
(* another of them, would be a crossing.                                    *)
LEMMA Alone ==
    ASSUME Planned, ~crossed, Depot!Crossing => crossed
    PROVE  /\ (\E a \in Plan("desk") : a.do = "publish") \/ builder.step \in {"pack", "stamp"} =>
                 ~Depot!Filing /\ \A t \in Depot!Thread : \A a \in Plan(t) : a.do # "copy"
           /\ ~((\E a \in Plan("desk") : a.do = "publish") /\ builder.step \in {"pack", "stamp"})
  <1>1. Told
    BY CrossingIs
  <1> QED BY <1>1 DEF Told, Depot!Crossing, Depot!Midway

LEMMA AloneNext ==
    ASSUME Planned', ~crossed', Depot!Crossing' => crossed'
    PROVE  /\ (\E a \in Plan("desk")' : a.do = "publish") \/ builder'.step \in {"pack", "stamp"} =>
                 ~Depot!Filing' /\ \A t \in Depot!Thread : \A a \in Plan(t)' : a.do # "copy"
           /\ ~((\E a \in Plan("desk")' : a.do = "publish") /\ builder'.step \in {"pack", "stamp"})
  <1>1. Told'
    BY CrossingNext
  <1> QED BY <1>1 DEF Told, Depot!Crossing, Depot!Midway

LEMMA StepRelink ==
    ASSUME DepotInv, Depot!Watch, NEW t \in Depot!Thread, Depot!Relink(t)
    PROVE  DepotInv'
  <1> USE DEF Depot!disk, Depot!history
  <1>1. DepotTyped /\ Planned /\ Desk /\ Fresh /\ (~crossed => Baked)
    BY TypesAre DEF DepotInv
  <1>2. /\ Depot!At(t, "relink") /\ Depot!Continue(t, <<>>)
        /\ UNCHANGED <<published, dirs, builder, row, saw, up, running, bounds, made, modules, firsts, odd>>
    BY DEF Depot!Relink
  <1>3. /\ todo[t] # <<>> /\ Head(todo[t]) \in Step /\ Head(todo[t]).do = "relink"
        /\ Plan(t) = {Head(todo[t])} \cup Steps(Tail(todo[t]))
    BY <1>1, <1>2, AtHas
  <1>4. t = "desk"
    BY <1>1, <1>3, RollbackAt
  <1>5. PICK b \in Depot!Build :
           \/ /\ Head(todo[t]) = Depot!OnFile("relink", b, "rootfs")
              /\ Tail(todo[t]) = <<Depot!OnFile("relink", b, "kernel"), Depot!OnBuild("publish", b), Depot!Do("prune")>>
           \/ /\ Head(todo[t]) = Depot!OnFile("relink", b, "kernel")
              /\ Tail(todo[t]) = <<Depot!OnBuild("publish", b), Depot!Do("prune")>>
              /\ ~crossed => Of(b, "rootfs")
    <2>1. PICK b \in Depot!Build :
                 LET x == Depot!OnFile("relink", b, "rootfs")
                     y == Depot!OnFile("relink", b, "kernel")
                     z == Depot!OnBuild("publish", b)
                     p == Depot!Do("prune")
                     h == Head(todo[t])
                 IN  \/ h = x /\ Tail(todo[t]) = <<y, z, p>>
                     \/ h = y /\ Tail(todo[t]) = <<z, p>> /\ (~crossed => Of(b, "rootfs"))
                     \/ h = z /\ Tail(todo[t]) = <<p>> /\ (~crossed => Of(b, "rootfs") /\ Of(b, "kernel"))
      BY <1>1, <1>3, RollbackAt
    <2>2. Depot!OnBuild("publish", b).do = "publish"
      BY DoSteps
    <2> QED BY <1>3, <2>1, <2>2
  <1> DEFINE x == Depot!OnFile("relink", b, "rootfs")
             y == Depot!OnFile("relink", b, "kernel")
             z == Depot!OnBuild("publish", b)
             p == Depot!Do("prune")
  <1>6. /\ x \in Step /\ y \in Step /\ z \in Step /\ p \in Step
        /\ x.build = b /\ x.file = "rootfs" /\ y.build = b /\ y.file = "kernel" /\ z.do = "publish"
    BY DoSteps, Files
  <1>7. Head(todo[t]).build = b
    BY <1>5, <1>6
  <1> HIDE DEF x, y, z, p
  <1>8. PICK f \in Depot!File :
            /\ f = Head(todo[t]).file
            /\ (Head(todo[t]) = x => f = "rootfs") /\ (Head(todo[t]) = y => f = "kernel")
    BY <1>5, <1>6, Files DEF x, y
  <1>9. /\ root' = [root EXCEPT ![f] = dirs[b][f]]
        /\ \A q \in shared' : q \in shared \/ (q = <<b, f>> /\ f \in Depot!Shareable)
    BY <1>7, <1>8 DEF Depot!Relink
  <1>10. <<>> \in Seq(Step) /\ Steps(<<>>) = {}
    BY StepsOf
  <1>11. /\ Planned' /\ \A u \in Depot!Thread \ {t} : todo'[u] = todo[u] /\ Plan(u)' = Plan(u)
         /\ todo'[t] = <<>> \o Tail(todo[t]) /\ Plan(t)' = Steps(Tail(todo[t]))
    BY <1>1, <1>2, <1>3, <1>10, GoesOn
  <1>12. todo'[t] = Tail(todo[t]) /\ Plan(t)' \subseteq Plan(t)
    <2>1. Tail(todo[t]) \in Seq(Step)
      BY <1>1, <1>3, StepsTail DEF Planned
    <2>2. <<>> \o Tail(todo[t]) = Tail(todo[t])
      BY <2>1
    <2> QED BY <1>3, <1>11, <2>2
  <1>13. /\ root \in [Depot!File -> 0 .. MaxBuilds] /\ dirs[b][f] \in 0 .. MaxBuilds
         /\ shared \subseteq Depot!Build \X Depot!Shareable
    BY <1>1, <1>8, DiskTypes
  <1>14. root' \in [Depot!File -> 0 .. MaxBuilds] /\ root'[f] = dirs[b][f]
         /\ \A g \in Depot!File \ {f} : root'[g] = root[g]
    BY <1>9, <1>8, <1>13
  <1>15. shared' \subseteq Depot!Build \X Depot!Shareable
    BY <1>9, <1>13
  <1>16. DepotTyped'
    BY <1>1, <1>2, <1>11, <1>14, <1>15, TypesAre, DiskTypes, DiskTyped
  <1>17. Fresh'
    BY <1>1, <1>2 DEF Fresh
  <1>18. (crossed => crossed') /\ (Depot!Crossing' => crossed')
    BY DEF Depot!Watch
  <1>19. ~crossed' => Of(b, f)'
    <2>1. ~crossed' => dirs[b][f] \in {Depot!None, made[b][f]}
      BY <1>8, <1>18 DEF DepotInv, Depot!HistoryTrue
    <2> QED BY <1>2, <1>14, <2>1 DEF Of
  <1>20. \E a \in Plan("desk")' : a.do = "publish"
    <2>1. CASE Tail(todo[t]) = <<y, z, p>>
      <3>1. Len(<<y, z, p>>) = 3 /\ 2 \in 1 .. 3 /\ <<y, z, p>>[2] = z
        OBVIOUS
      <3>2. z \in Steps(<<y, z, p>>)
        BY <3>1 DEF Steps
      <3> QED BY <1>4, <1>6, <1>11, <2>1, <3>2
    <2>2. CASE Tail(todo[t]) = <<z, p>>
      <3>1. Steps(<<z, p>>) = {z, p}
        BY StepsOf
      <3> QED BY <1>4, <1>6, <1>11, <2>2, <3>1
    <2> QED BY <1>5, <2>1, <2>2 DEF x, y, z, p
  <1>21. Desk'
    <2>1. \A u \in Depot!Thread \ {"desk"} : \A a \in Plan(u)' : a.do \notin {"relink", "publish"}
      BY <1>1, <1>4, <1>11 DEF Desk
    <2>2. /\ Tail(Depot!Rollback(b)) = <<y, z, p>> /\ Tail(Tail(Depot!Rollback(b))) = <<z, p>>
      BY RollbackPlan DEF x, y, z, p
    <2>3. CASE Head(todo[t]) = x /\ Tail(todo[t]) = <<y, z, p>>
      <3>1. todo'["desk"] = Tail(Depot!Rollback(b)) /\ (~crossed' => Of(b, "rootfs")')
        BY <1>4, <1>12, <1>8, <1>19, <2>2, <2>3
      <3> QED BY <2>1, <3>1 DEF Desk
    <2>4. CASE Head(todo[t]) = y /\ Tail(todo[t]) = <<z, p>> /\ (~crossed => Of(b, "rootfs"))
      <3>1. ~crossed' => Of(b, "rootfs")'
        BY <1>2, <1>8, <1>14, <1>18, <2>4, Files DEF Of
      <3>2. /\ todo'["desk"] = Tail(Tail(Depot!Rollback(b)))
            /\ ~crossed' => Of(b, "rootfs")' /\ Of(b, "kernel")'
        BY <1>4, <1>12, <1>8, <1>19, <2>2, <2>4, <3>1
      <3> QED BY <2>1, <3>2 DEF Desk
    <2> QED BY <1>5, <2>3, <2>4 DEF x, y, z, p
  <1>22. ASSUME ~crossed' PROVE Depot!HistoryTrue' /\ Baked' /\ Filed'
    <2>1. ~crossed /\ Depot!HistoryTrue
      BY <1>18, <1>22 DEF DepotInv
    <2>2. Depot!HistoryTrue'
      BY <1>2, <2>1 DEF Depot!HistoryTrue
    <2>3. /\ ~Depot!Filing' /\ \A u \in Depot!Thread : \A a \in Plan(u)' : a.do # "copy"
          /\ builder'.step \notin {"pack", "stamp"}
      BY <1>11, <1>18, <1>20, <1>22, AloneNext
    <2> QED BY <2>2, <2>3 DEF Baked, Filed
  <1> QED BY <1>16, <1>17, <1>18, <1>21, <1>22 DEF DepotInv

LEMMA StepPublish ==
    ASSUME DepotInv, Depot!Watch, NEW t \in Depot!Thread, Depot!Publish(t)
    PROVE  DepotInv'
  <1> USE DEF Depot!disk, Depot!history
  <1>1. DepotTyped /\ Planned /\ Desk /\ Fresh /\ (~crossed => Baked)
    BY TypesAre DEF DepotInv
  <1>2. /\ Depot!At(t, "publish") /\ Depot!Continue(t, <<>>) /\ published' = Head(todo[t]).build
        /\ UNCHANGED <<root, dirs, shared, builder, row, saw, up, running, bounds, made, modules, firsts, odd>>
    BY DEF Depot!Publish
  <1>3. /\ todo[t] # <<>> /\ Head(todo[t]) \in Step /\ Head(todo[t]).do = "publish"
        /\ Plan(t) = {Head(todo[t])} \cup Steps(Tail(todo[t]))
    BY <1>1, <1>2, AtHas
  <1>4. t = "desk"
    BY <1>1, <1>3, RollbackAt
  <1> DEFINE p == Depot!Do("prune")
  <1>5. PICK b \in Depot!Build :
           /\ Head(todo[t]) = Depot!OnBuild("publish", b) /\ Tail(todo[t]) = <<p>>
           /\ ~crossed => Of(b, "rootfs") /\ Of(b, "kernel")
    <2>1. PICK b \in Depot!Build :
                 LET x == Depot!OnFile("relink", b, "rootfs")
                     y == Depot!OnFile("relink", b, "kernel")
                     z == Depot!OnBuild("publish", b)
                     q == Depot!Do("prune")
                     h == Head(todo[t])
                 IN  \/ h = x /\ Tail(todo[t]) = <<y, z, q>>
                     \/ h = y /\ Tail(todo[t]) = <<z, q>> /\ (~crossed => Of(b, "rootfs"))
                     \/ h = z /\ Tail(todo[t]) = <<q>> /\ (~crossed => Of(b, "rootfs") /\ Of(b, "kernel"))
      BY <1>1, <1>3, RollbackAt
    <2>2. Depot!OnFile("relink", b, "rootfs").do = "relink" /\ Depot!OnFile("relink", b, "kernel").do = "relink"
      BY DoSteps, Files
    <2> QED BY <1>3, <2>1, <2>2
  <1>6. published' = b /\ b \in 0 .. MaxBuilds
    <2>1. Depot!OnBuild("publish", b).build = b
      BY DoSteps
    <2> QED BY <1>2, <1>5, <2>1 DEF Depot!Build
  <1>7. <<>> \in Seq(Step) /\ Steps(<<>>) = {}
    BY StepsOf
  <1>8. /\ Planned' /\ \A u \in Depot!Thread \ {t} : todo'[u] = todo[u] /\ Plan(u)' = Plan(u)
        /\ Plan(t)' = Steps(Tail(todo[t]))
    BY <1>1, <1>2, <1>3, <1>7, GoesOn
  <1>9. Plan("desk")' = {p} /\ p.do = "prune"
    <2>1. Plan("desk")' = Steps(<<p>>)
      BY <1>4, <1>5, <1>8, Zenon
    <2>2. Steps(<<p>>) = {p}
      BY StepsOf, Zenon
    <2>3. p.do = "prune"
      BY DoSteps
    <2> QED BY <2>1, <2>2, <2>3, Zenon
  <1> HIDE DEF p
  <1>10. DepotTyped'
    BY <1>1, <1>2, <1>6, <1>8, TypesAre, DiskTypes, DiskTyped
  <1>11. Fresh'
    BY <1>1, <1>2 DEF Fresh
  <1>12. (crossed => crossed') /\ (Depot!Crossing' => crossed')
    BY DEF Depot!Watch
  <1>13. Desk'
    BY <1>1, <1>4, <1>8, <1>9 DEF Desk
  <1>14. ASSUME ~crossed' PROVE Depot!HistoryTrue' /\ Baked' /\ Filed'
    <2>1. ~crossed /\ Depot!HistoryTrue /\ (Depot!Crossing => crossed)
      BY <1>12, <1>14 DEF DepotInv
    <2>2. Depot!HistoryTrue'
      BY <1>2, <2>1 DEF Depot!HistoryTrue
    <2>3. \E a \in Plan("desk") : a.do = "publish"
      BY <1>3, <1>4
    <2>4. /\ \A u \in Depot!Thread : \A a \in Plan(u) : a.do # "copy"
          /\ builder.step \notin {"pack", "stamp"}
      BY <1>1, <2>1, <2>3, Alone
    <2>5. \A u \in Depot!Thread : \A a \in Plan(u)' : a.do # "copy"
      BY <1>4, <1>8, <1>9, <2>4
    <2>6. Of(b, "rootfs")' /\ Of(b, "kernel")'
      BY <1>2, <1>5, <2>1 DEF Of
    <2>7. Of(published, "rootfs")' /\ Of(published, "kernel")'
      BY <1>6, <2>6 DEF Of
    <2> QED BY <1>2, <2>2, <2>4, <2>5, <2>7 DEF Baked, Filed
  <1> QED BY <1>10, <1>11, <1>12, <1>13, <1>14 DEF DepotInv

(* A script that is past its first write: nothing is rolled back or filed.  *)
LEMMA ScriptDisk ==
    ASSUME DepotInv, Depot!Watch, UNCHANGED todo, builder.step \in {"pack", "stamp"} \/ builder'.step \in {"pack", "stamp"}
    PROVE  /\ Planned' /\ Desk' /\ (Depot!Crossing' => crossed') /\ (crossed => crossed')
           /\ builder.step \in {"pack", "stamp"} /\ ~crossed =>
                 \A t \in Depot!Thread : \A a \in Plan(t)' : a.do # "copy"
           /\ builder'.step \in {"pack", "stamp"} /\ ~crossed' =>
                 ~Depot!Filing' /\ \A t \in Depot!Thread : \A a \in Plan(t)' : a.do # "copy"
  <1>1. /\ Planned /\ Desk /\ (Depot!Crossing => crossed)
        /\ (Depot!Crossing' => crossed') /\ (crossed => crossed')
    BY DEF DepotInv, DepotTyped, Depot!Watch
  <1>2. Planned' /\ \A t \in Depot!Thread : Plan(t)' = Plan(t)
    BY <1>1 DEF Planned, Plan
  <1>3. builder.step \in {"pack", "stamp"} /\ ~crossed =>
            \A t \in Depot!Thread : \A a \in Plan(t) : a.do # "copy"
    BY <1>1, Alone
  <1>4. builder'.step \in {"pack", "stamp"} /\ ~crossed' =>
            ~Depot!Filing' /\ \A t \in Depot!Thread : \A a \in Plan(t)' : a.do # "copy"
    BY <1>1, <1>2, AloneNext
  <1>5. (\E a \in Plan("desk") : a.do = "publish") => crossed'
    <2>1. builder.step \in {"pack", "stamp"} /\ (\E a \in Plan("desk") : a.do = "publish") => crossed
      BY <1>1, Alone
    <2>2. builder'.step \in {"pack", "stamp"} /\ (\E a \in Plan("desk")' : a.do = "publish") => crossed'
      BY <1>1, <1>2, AloneNext
    <2> QED BY <1>1, <1>2, <2>1, <2>2, Threads
  <1>6. Desk'
    <2>1. \A t \in Depot!Thread \ {"desk"} : \A a \in Plan(t)' : a.do \notin {"relink", "publish"}
      BY <1>1, <1>2 DEF Desk
    <2>2. CASE \A a \in Plan("desk") : a.do \notin {"relink", "publish"}
      BY <1>2, <2>1, <2>2, Threads DEF Desk
    <2>3. ASSUME NEW b \in Depot!Build,
                 LET q == Depot!Rollback(b)
                 IN  todo["desk"] = q \/ todo["desk"] = Tail(q) \/ todo["desk"] = Tail(Tail(q))
          PROVE  Desk'
      <3> DEFINE x == Depot!OnFile("relink", b, "rootfs")
                 y == Depot!OnFile("relink", b, "kernel")
                 z == Depot!OnBuild("publish", b)
                 p == Depot!Do("prune")
      <3>1. todo["desk"] = <<x, y, z, p>> \/ todo["desk"] = <<y, z, p>> \/ todo["desk"] = <<z, p>>
        BY <2>3, RollbackPlan
      <3>2. z.do = "publish"
        BY DoSteps
      <3> HIDE DEF x, y, z, p
      <3>3. /\ Len(<<x, y, z, p>>) = 4 /\ 3 \in 1 .. 4 /\ <<x, y, z, p>>[3] = z
            /\ Len(<<y, z, p>>) = 3 /\ 2 \in 1 .. 3 /\ <<y, z, p>>[2] = z
            /\ Len(<<z, p>>) = 2 /\ 1 \in 1 .. 2 /\ <<z, p>>[1] = z
        OBVIOUS
      <3>4. z \in Plan("desk")
        BY <3>1, <3>3 DEF Plan, Steps
      <3>5. crossed'
        BY <1>5, <3>2, <3>4
      <3> QED BY <2>1, <2>3, <3>5 DEF Desk
    <2> QED BY <1>1, <2>2, <2>3 DEF Desk
  <1> QED BY <1>1, <1>2, <1>3, <1>4, <1>6

LEMMA StepWriteKernel ==
    ASSUME DepotInv, Depot!Watch, Depot!WriteKernel
    PROVE  DepotInv'
  <1> USE DEF Depot!disk, Depot!history
  <1>1. DepotTyped /\ Fresh /\ builder \in ScriptState
    BY TypesAre DEF DepotInv
  <1>2. /\ builder.step = "kernel" /\ builder' = [builder EXCEPT !.step = "pack"]
        /\ root' = [root EXCEPT !["kernel"] = builder.build]
        /\ UNCHANGED <<published, shared, row, saw, todo, up, running, bounds, made, modules, firsts, odd>>
    BY DEF Depot!WriteKernel
  <1>3. dirs' = dirs
    <2>1. dirs' = [b \in Depot!Build |-> IF <<b, "kernel">> \in shared
                                THEN [dirs[b] EXCEPT !["kernel"] = builder.build] ELSE dirs[b]]
      BY DEF Depot!WriteKernel
    <2>2. \A b \in Depot!Build : <<b, "kernel">> \notin shared
      BY <1>1, DiskTypes DEF Depot!Shareable
    <2>3. dirs \in [Depot!Build -> [Depot!File -> 0 .. MaxBuilds]]
      BY <1>1, DiskTypes
    <2> QED BY <2>1, <2>2, <2>3
  <1>4. /\ builder.kind = "full" /\ builder.build \in 1 .. MaxBuilds - bounds.builds
        /\ made[builder.build] = Depot!Empty
    BY <1>1, <1>2 DEF Fresh, Writing
  <1>5. /\ builder' \in ScriptState /\ builder'.step = "pack"
        /\ builder'.kind = "full" /\ builder'.build = builder.build
    BY <1>1, <1>2, <1>4 DEF ScriptState, Writing
  <1>6. builder.build \in 0 .. MaxBuilds
    BY <1>1, <1>4, TypesAre, BuildsAssumption
  <1>7. root' \in [Depot!File -> 0 .. MaxBuilds] /\ root'["kernel"] = builder.build
    BY <1>1, <1>2, <1>6, DiskTypes, Files
  <1>8. /\ Planned' /\ Desk' /\ (Depot!Crossing' => crossed') /\ (crossed => crossed')
        /\ ~crossed' => ~Depot!Filing' /\ \A t \in Depot!Thread : \A a \in Plan(t)' : a.do # "copy"
    BY <1>2, <1>5, ScriptDisk
  <1>9. DepotTyped'
    BY <1>1, <1>2, <1>3, <1>5, <1>7, <1>8, DiskTypes, DiskTyped
  <1>10. Fresh'
    BY <1>1, <1>2, <1>4, <1>5 DEF Fresh
  <1>11. ASSUME ~crossed' PROVE Depot!HistoryTrue' /\ Baked' /\ Filed'
    <2>1. Depot!HistoryTrue /\ ~crossed
      BY <1>8, <1>11 DEF DepotInv
    <2>2. Depot!HistoryTrue'
      BY <1>2, <1>3, <2>1 DEF Depot!HistoryTrue
    <2>3. Baked'
      BY <1>5, <1>7 DEF Baked
    <2>4. Filed'
      BY <1>8, <1>11 DEF Filed
    <2> QED BY <2>2, <2>3, <2>4
  <1> QED BY <1>8, <1>9, <1>10, <1>11 DEF DepotInv

LEMMA StepRemove ==
    ASSUME DepotInv, Depot!Watch, Depot!Remove
    PROVE  DepotInv'
  <1> USE DEF Depot!disk, Depot!history
  <1>1. DepotTyped /\ Fresh /\ (~crossed => Baked) /\ builder \in ScriptState
    BY TypesAre DEF DepotInv
  <1>2. /\ builder.step = "pack" /\ builder.kind = "full"
        /\ root' = [root EXCEPT !["rootfs"] = Depot!None] /\ shared' \subseteq shared
        /\ UNCHANGED <<published, dirs, builder, row, saw, todo, up, running, bounds, made, modules, firsts, odd>>
    BY DEF Depot!Remove
  <1>3. root' \in [Depot!File -> 0 .. MaxBuilds] /\ root'["kernel"] = root["kernel"]
    <2>1. Depot!None \in 0 .. MaxBuilds
      BY BuildsAssumption DEF Depot!None
    <2> QED BY <1>1, <1>2, <2>1, DiskTypes, Files
  <1>4. /\ Planned' /\ Desk' /\ (Depot!Crossing' => crossed') /\ (crossed => crossed')
        /\ ~crossed' => ~Depot!Filing' /\ \A t \in Depot!Thread : \A a \in Plan(t)' : a.do # "copy"
    BY <1>2, ScriptDisk
  <1>5. DepotTyped'
    BY <1>1, <1>2, <1>3, <1>4, DiskTypes, DiskTyped
  <1>6. Fresh'
    BY <1>1, <1>2 DEF Fresh
  <1>7. ASSUME ~crossed' PROVE Depot!HistoryTrue' /\ Baked' /\ Filed'
    <2>1. Depot!HistoryTrue /\ ~crossed
      BY <1>4, <1>7 DEF DepotInv
    <2>2. Depot!HistoryTrue'
      BY <1>2, <2>1 DEF Depot!HistoryTrue
    <2>3. Baked'
      BY <1>1, <1>2, <1>3, <2>1 DEF Baked
    <2>4. Filed'
      BY <1>4, <1>7 DEF Filed
    <2> QED BY <2>2, <2>3, <2>4
  <1> QED BY <1>4, <1>5, <1>6, <1>7 DEF DepotInv

LEMMA StepPack ==
    ASSUME DepotInv, Depot!Watch, Depot!Pack
    PROVE  DepotInv'
  <1> USE DEF Depot!disk, Depot!history
  <1>1. DepotTyped /\ Fresh /\ (~crossed => Baked) /\ builder \in ScriptState
    BY TypesAre DEF DepotInv
  <1>2. /\ builder.step = "pack" /\ builder' = [builder EXCEPT !.step = "stamp"]
        /\ root' = [root EXCEPT !["rootfs"] = builder.build] /\ shared' \subseteq shared
        /\ modules' = [modules EXCEPT ![builder.build] =
                      IF builder.kind = "full" THEN builder.build ELSE modules[builder.base]]
        /\ UNCHANGED <<published, dirs, row, saw, todo, up, running, bounds, made, firsts, odd>>
    BY DEF Depot!Pack
  <1>3. /\ builder' \in ScriptState /\ builder'.step = "stamp" /\ builder'.build = builder.build
        /\ builder'.kind = builder.kind
    BY <1>1, <1>2 DEF ScriptState, Writing
  <1>4. /\ builder.build \in 1 .. MaxBuilds - bounds.builds /\ made[builder.build] = Depot!Empty
        /\ builder.kind = "refresh" => builder.base \in Depot!Build
    BY <1>1, <1>2 DEF Fresh, Writing
  <1>5. builder.build \in 0 .. MaxBuilds /\ builder.build \in Depot!Build
    BY <1>1, <1>4, TypesAre, BuildsAssumption DEF Depot!Build
  <1>6. builder.kind = "full" \/ builder.kind = "refresh"
    BY <1>1 DEF ScriptState, Depot!Kind
  <1>7. root' \in [Depot!File -> 0 .. MaxBuilds] /\ root'["kernel"] = root["kernel"]
        /\ root'["rootfs"] = builder.build
    BY <1>1, <1>2, <1>5, DiskTypes, Files
  <1>8. modules \in [Depot!Build -> 0 .. MaxBuilds]
    BY <1>1, DiskTypes
  <1> DEFINE m == IF builder.kind = "full" THEN builder.build ELSE modules[builder.base]
  <1>9. m \in 0 .. MaxBuilds
    BY <1>4, <1>5, <1>6, <1>8
  <1>10. /\ modules' \in [Depot!Build -> 0 .. MaxBuilds] /\ modules'[builder.build] = m
         /\ \A b \in Depot!Build : b # builder.build => modules'[b] = modules[b]
    BY <1>2, <1>5, <1>8, <1>9
  <1>11. /\ Planned' /\ Desk' /\ (Depot!Crossing' => crossed') /\ (crossed => crossed')
         /\ ~crossed' => ~Depot!Filing' /\ \A t \in Depot!Thread : \A a \in Plan(t)' : a.do # "copy"
    BY <1>2, <1>3, ScriptDisk
  <1>12. shared' \subseteq Depot!Build \X Depot!Shareable
    BY <1>1, <1>2, DiskTypes
  <1>13. DepotTyped'
    BY <1>1, <1>2, <1>3, <1>7, <1>10, <1>11, <1>12, DiskTypes, DiskTyped
  <1>14. Fresh'
    BY <1>1, <1>2, <1>3, <1>4 DEF Fresh
  <1>15. ASSUME ~crossed' PROVE Depot!HistoryTrue' /\ Baked' /\ Filed'
    <2>1. Depot!HistoryTrue /\ ~crossed
      BY <1>11, <1>15 DEF DepotInv
    <2>2. \A b \in Depot!Build : made[b] # Depot!Empty => modules'[b] = modules[b]
      BY <1>4, <1>10
    <2>3. Depot!HistoryTrue'
      BY <1>2, <2>1, <2>2 DEF Depot!HistoryTrue
    <2>4. builder.build \notin odd => root["kernel"] = m
      BY <1>1, <1>2, <1>6, <2>1 DEF Baked
    <2>5. Baked'
      BY <1>2, <1>3, <1>7, <1>10, <2>4 DEF Baked
    <2>6. Filed'
      BY <1>11, <1>15 DEF Filed
    <2> QED BY <2>3, <2>5, <2>6
  <1> QED BY <1>11, <1>13, <1>14, <1>15 DEF DepotInv

LEMMA StepStamp ==
    ASSUME DepotInv, Depot!Watch, Depot!Stamp
    PROVE  DepotInv'
  <1> USE DEF Depot!disk, Depot!history
  <1>1. DepotTyped /\ Fresh /\ (~crossed => Baked) /\ builder \in ScriptState
    BY TypesAre DEF DepotInv
  <1>2. /\ builder.step = "stamp" /\ published' = builder.build /\ Depot!Over("success")
        /\ made' = [made EXCEPT ![builder.build] = root]
        /\ UNCHANGED <<root, dirs, shared, row, saw, todo, up, running, bounds, modules, firsts, odd>>
    BY DEF Depot!Stamp
  <1>3. /\ builder' \in ScriptState /\ builder'.step \notin Writing
    BY <1>1, <1>2, OverIs DEF Writing
  <1>4. /\ builder.build \in 1 .. MaxBuilds - bounds.builds /\ made[builder.build] = Depot!Empty
    BY <1>1, <1>2 DEF Fresh, Writing
  <1>5. builder.build \in 0 .. MaxBuilds /\ builder.build \in Depot!Build
    BY <1>1, <1>4, TypesAre, BuildsAssumption DEF Depot!Build
  <1>6. /\ root \in [Depot!File -> 0 .. MaxBuilds]
        /\ made \in [Depot!Build -> [Depot!File -> 0 .. MaxBuilds]]
        /\ bounds.builds \in 0 .. MaxBuilds
    BY <1>1, DiskTypes, TypesAre
  <1>7. /\ made' \in [Depot!Build -> [Depot!File -> 0 .. MaxBuilds]] /\ made'[builder.build] = root
        /\ \A b \in Depot!Build : b # builder.build => made'[b] = made[b]
    BY <1>2, <1>5, <1>6
  <1>8. /\ Planned' /\ Desk' /\ (Depot!Crossing' => crossed') /\ (crossed => crossed')
        /\ ~crossed => \A t \in Depot!Thread : \A a \in Plan(t)' : a.do # "copy"
    BY <1>2, ScriptDisk
  <1>9. DepotTyped'
    BY <1>1, <1>2, <1>3, <1>5, <1>7, <1>8, DiskTypes, DiskTyped
  <1>10. Fresh'
    <2>1. \A b \in Depot!Build : b > MaxBuilds - bounds.builds => b # builder.build
      BY <1>4, <1>6, BuildsAssumption DEF Depot!Build
    <2>2. \A b \in Depot!Build : b > MaxBuilds - bounds.builds => made'[b] = Depot!Empty
      BY <1>1, <1>7, <2>1 DEF Fresh
    <2> QED BY <1>2, <1>3, <2>2 DEF Fresh, Writing
  <1>11. ASSUME ~crossed' PROVE Depot!HistoryTrue' /\ Baked' /\ Filed'
    <2>1. Depot!HistoryTrue /\ ~crossed
      BY <1>8, <1>11 DEF DepotInv
    <2>2. \A b \in Depot!Build, f \in Depot!File : dirs[b][f] \in {Depot!None, made'[b][f]}
      <3> SUFFICES ASSUME NEW b \in Depot!Build, NEW f \in Depot!File
                   PROVE  dirs[b][f] \in {Depot!None, made'[b][f]}
        OBVIOUS
      <3>1. dirs[b][f] \in {Depot!None, made[b][f]}
        BY <2>1 DEF Depot!HistoryTrue
      <3>2. b = builder.build => made[b][f] = Depot!None
        BY <1>4 DEF Depot!Empty
      <3> QED BY <1>7, <3>1, <3>2
    <2>3. /\ root["rootfs"] = builder.build
          /\ builder.build \notin odd => root["kernel"] = modules[builder.build]
      BY <1>1, <1>2, <2>1 DEF Baked
    <2>4. \A b \in Depot!Build : made'[b] # Depot!Empty =>
              made'[b]["rootfs"] = b /\ (b \notin odd => made'[b]["kernel"] = modules[b])
      BY <1>7, <2>1, <2>3 DEF Depot!HistoryTrue
    <2>5. Depot!HistoryTrue'
      BY <1>2, <2>2, <2>4 DEF Depot!HistoryTrue
    <2>6. Baked'
      BY <1>3 DEF Baked, Writing
    <2>7. Of(published, "rootfs")' /\ Of(published, "kernel")'
      BY <1>2, <1>7 DEF Of
    <2>8. Filed'
      BY <1>8, <2>1, <2>7 DEF Filed
    <2> QED BY <2>5, <2>6, <2>8
  <1> QED BY <1>8, <1>9, <1>10, <1>11 DEF DepotInv

-----------------------------------------------------------------------------
(* The whole                                                               *)

LEMMA ResumeKeeps ==
    ASSUME DepotInv, Depot!Watch, NEW t \in Depot!Thread, Depot!Resume(t)
    PROVE  DepotInv'
  <1>1. CASE Depot!Adopt(t)
    BY <1>1, StepAdopt
  <1>2. CASE Depot!Copy(t)
    BY <1>2, StepCopy
  <1>3. CASE Depot!Relink(t)
    BY <1>3, StepRelink
  <1>4. CASE Depot!Publish(t)
    BY <1>4, StepPublish
  <1>5. CASE Depot!Prune(t)
    BY <1>5, StepPrune
  <1>6. CASE Depot!Rm(t)
    BY <1>6, StepRm
  <1>7. CASE Depot!Read(t) \/ Depot!Wait(t) \/ Depot!Free(t)
    BY <1>7, StepRead
  <1>8. CASE Depot!Mark(t)
    BY <1>8, StepMark
  <1>9. CASE Depot!Close(t)
    BY <1>9, StepClose
  <1>10. CASE Depot!Save(t) \/ Depot!Reconcile(t)
    BY <1>10, StepSave
  <1>11. CASE Depot!Bootstrap(t)
    BY <1>11, StepBootstrap
  <1> QED BY <1>1, <1>2, <1>3, <1>4, <1>5, <1>6, <1>7, <1>8, <1>9, <1>10, <1>11 DEF Depot!Resume

LEMMA DepotStep ==
    ASSUME DepotInv, Depot!Next
    PROVE  DepotInv'
  <1>1. Depot!Watch
    BY DEF Depot!Next
  <1>2. CASE \E t \in Depot!Thread : Depot!Resume(t)
    BY <1>1, <1>2, ResumeKeeps
  <1>3. CASE Depot!Script
    BY <1>1, <1>3, StepUnpack, StepWriteKernel, StepRemove, StepPack, StepStamp, StepGiveUp
       DEF Depot!Script
  <1>4. CASE Depot!Operator
    BY <1>1, <1>4, StepTrigger, StepExternal, StepActivate, StepSettings DEF Depot!Operator
  <1>5. CASE Depot!Poll
    BY <1>1, <1>5, StepPoll
  <1>6. CASE Depot!Crash
    BY <1>1, <1>6, StepCrash
  <1>7. CASE Depot!Start
    BY <1>1, <1>7, StepStart
  <1> QED BY <1>2, <1>3, <1>4, <1>5, <1>6, <1>7 DEF Depot!Next

LEMMA DepotStays ==
    ASSUME DepotInv, UNCHANGED depot
    PROVE  DepotInv'
  <1> USE DEF depot
  <1>1. DepotTyped /\ Fresh /\ (~crossed => Baked) /\ Planned /\ Desk /\ (Depot!Crossing => crossed)
    BY TypesAre DEF DepotInv
  <1>2. Depot!Crossing' <=> Depot!Crossing
    BY DEF Depot!Crossing, Depot!Relinking, Depot!Midway, Depot!Filing, Depot!Kept, Depot!Ahead
  <1>3. Planned' /\ \A t \in Depot!Thread : Plan(t)' = Plan(t)
    BY <1>1 DEF Planned, Plan
  <1>4. DepotTyped'
    BY <1>1, <1>3, TypesAre, TypesStay
  <1>5. Fresh' /\ (~crossed => Baked')
    BY <1>1, SameScript, BakeStays
  <1>6. Desk'
    BY <1>1, <1>3, DeskStays
  <1>7. Depot!Filing' <=> Depot!Filing
    BY DEF Depot!Filing, Depot!Kept, Depot!Ahead
  <1>8. ASSUME ~crossed PROVE Depot!HistoryTrue' /\ Filed'
    <2>1. Depot!HistoryTrue /\ Filed
      BY <1>8 DEF DepotInv
    <2> QED BY <1>3, <1>7, <2>1 DEF Depot!HistoryTrue, Filed, Of
  <1> QED BY <1>1, <1>2, <1>4, <1>5, <1>6, <1>8 DEF DepotInv

LEMMA DepotStarts ==
    ASSUME NEW n \in {0, 2}, Depot!InitWith(n)
    PROVE  DepotInv
  <1> USE DEF Depot!InitWith
  <1>1. n \in 0 .. MaxBuilds /\ MaxBuilds \in Nat /\ MaxBuilds >= 2 /\ Depot!None = 0
    BY BuildsAssumption DEF Depot!None
  <1>2. Depot!Empty \in [Depot!File -> 0 .. MaxBuilds]
    BY <1>1 DEF Depot!Empty
  <1>3. \A b \in Depot!Build : [f \in Depot!File |-> b] \in [Depot!File -> 0 .. MaxBuilds]
    BY <1>1 DEF Depot!Build
  <1>4. /\ root \in [Depot!File -> 0 .. MaxBuilds]
        /\ root = [f \in Depot!File |-> n]
    BY <1>1, <1>2 DEF Depot!Empty
  <1>5. /\ dirs \in [Depot!Build -> [Depot!File -> 0 .. MaxBuilds]] /\ made = dirs
        /\ \A b \in Depot!Build : dirs[b] = IF b <= n THEN [f \in Depot!File |-> b] ELSE Depot!Empty
    BY <1>2, <1>3
  <1>6. modules \in [Depot!Build -> 0 .. MaxBuilds]
    BY <1>1 DEF Depot!Build
  <1>7. shared \subseteq Depot!Build \X Depot!Shareable
    BY DEF Depot!Shareable
  <1>8. builder \in ScriptState /\ builder.step = "idle"
    BY NoScriptTyped
  <1>9. /\ DOMAIN bounds = {"builds", "asks", "troubles"} /\ bounds.builds = MaxBuilds - n
        /\ bounds.builds \in 0 .. MaxBuilds
    BY <1>1
  <1>10. Planned /\ \A t \in Depot!Thread : Plan(t) = {}
    <2>1. <<>> \in Seq(Step)
      OBVIOUS
    <2> QED BY <2>1, StepsOf DEF Planned, Plan
  <1>11. row \in Depot!Row /\ saw \in [Depot!Thread -> Depot!Row]
    <2>1. row \in Depot!Row
      <3>1. \A s \in {"none", "success"}, c \in BOOLEAN : [status |-> s, claimed |-> c, full |-> TRUE] \in Depot!Row
        BY DEF Depot!Row
      <3>2. (n # 0) \in BOOLEAN /\ (IF n = 0 THEN "none" ELSE "success") \in {"none", "success"}
        OBVIOUS
      <3> QED BY <3>1, <3>2, Zenon
    <2> QED BY <2>1, Rows
  <1>12. published \in 0 .. MaxBuilds /\ up \in BOOLEAN /\ running \in BOOLEAN /\ firsts \in Nat
    BY <1>1
  <1>13. DepotTyped
    <2>1. shared \subseteq Depot!Build \X Depot!File
      BY <1>7 DEF Depot!Shareable, Depot!File
    <2>2. Depot!TypeOK
      BY <1>4, <1>5, <1>11, <1>12, <2>1 DEF Depot!TypeOK
    <2> QED BY <1>5, <1>6, <1>7, <1>8, <1>9, <1>10, <2>2 DEF DepotTyped
  <1>14. Fresh
    <2>1. ASSUME NEW b \in Depot!Build, b > MaxBuilds - bounds.builds
          PROVE  made[b] = Depot!Empty
      <3>1. ~(b <= n)
        BY <1>1, <1>9, <2>1 DEF Depot!Build
      <3> QED BY <1>5, <3>1
    <2> QED BY <1>8, <2>1 DEF Fresh, Writing
  <1>15. Desk
    BY <1>10, Threads DEF Desk
  <1>16. Told
    BY <1>10, CrossingIs
  <1>17. ~Depot!Crossing
    BY <1>8, <1>10, <1>16, Threads DEF Told, Depot!Crossing, Depot!Midway
  <1>18. Depot!HistoryTrue
    <2>1. ASSUME NEW b \in Depot!Build, made[b] # Depot!Empty
          PROVE  made[b]["rootfs"] = b /\ made[b]["kernel"] = modules[b]
      <3>1. b <= n /\ made[b] = [f \in Depot!File |-> b] /\ modules[b] = b
        BY <1>5, <2>1
      <3> QED BY <3>1, Files
    <2> QED BY <1>5, <2>1 DEF Depot!HistoryTrue
  <1>19. Of(published, "rootfs") /\ Of(published, "kernel")
    <2>1. CASE n = 0
      BY <1>1, <1>4, <2>1, Files DEF Of
    <2>2. CASE n = 2
      <3>1. published = 2 /\ 2 \in Depot!Build
        BY <1>1, <2>2 DEF Depot!Build
      <3>2. made[2] = [f \in Depot!File |-> 2]
        BY <1>5, <2>2, <3>1
      <3> QED BY <1>4, <2>2, <3>1, <3>2, Files DEF Of
    <2> QED BY <2>1, <2>2
  <1>20. Baked /\ Filed
    BY <1>8, <1>10, <1>19 DEF Baked, Filed
  <1> QED BY <1>13, <1>14, <1>15, <1>17, <1>18, <1>20 DEF DepotInv

LEMMA DepotBegins ==
    ASSUME MCInit
    PROVE  DepotInv
  <1>1. PICK n \in {0, 2} : Depot!InitWith(n)
    BY DEF MCInit
  <1> QED BY <1>1, DepotStarts

LEMMA DepotMoves ==
    ASSUME DepotInv, [MCNext]_<<vars, depot, story>>
    PROVE  DepotInv'
  <1>1. CASE Depot!Next
    BY <1>1, DepotStep
  <1>2. CASE UNCHANGED depot
    BY <1>2, DepotStays
  <1> QED BY <1>1, <1>2 DEF MCNext

(* The inductive invariant: what a rollback and a script have done so far to *)
(* the root, and what is being filed, agree with the builds they work on.    *)
THEOREM DepotInvariant == MCSpec => []DepotInv
  <1>1. MCInit => DepotInv
    BY DepotBegins
  <1>2. DepotInv /\ [MCNext]_<<vars, depot, story>> => DepotInv'
    BY DepotMoves
  <1> QED BY <1>1, <1>2, PTL DEF MCSpec

(* activate, adopt, prune and the build scripts: whatever was                *)
(* rebuilt, rolled back to, pruned or cut short meanwhile, a build's          *)
(* directory holds what the build was when its id was published.             *)
THEOREM BuildsAreKept == MCSpec => []DepotKept
  <1>1. DepotInv => DepotKept
    BY DEF DepotInv, DepotTyped, DepotKept, Depot!HistoryTrue
  <1> QED BY <1>1, DepotInvariant, PTL

-----------------------------------------------------------------------------
(* The first image.  As long as no write of the row was lost, the claim in   *)
(* it tells whether the first build was started.                            *)

Claim == ~lost => firsts = 0 \/ (firsts = 1 /\ row.claimed)

(* Every writer of the row keeps the claim it read.                          *)
LEMMA WritesKeepClaim ==
    ASSUME DepotTyped, Claim, NEW t \in Depot!Thread, NEW r \in Depot!Row,
           r.claimed = saw[t].claimed, Depot!Write(t, r), UNCHANGED firsts
    PROVE  Claim'
  <1>1. row' = r /\ (~lost' => ~lost /\ row = saw[t])
    BY DEF Depot!Write
  <1> QED BY <1>1 DEF Claim

LEMMA ClaimMoves ==
    ASSUME DepotInv, Claim, [MCNext]_<<vars, depot, story>>
    PROVE  Claim'
  <1> USE DEF Depot!disk, Depot!history
  <1>1. DepotTyped /\ (\A t \in Depot!Thread : saw[t] \in Depot!Row)
    BY TypesAre DEF DepotInv
  <1>2. CASE UNCHANGED <<row, lost, firsts>>
    BY <1>2 DEF Claim
  <1>3. ASSUME NEW t \in Depot!Thread, Depot!Resume(t)
        PROVE  Claim'
    <2>1. CASE Depot!Adopt(t) \/ Depot!Copy(t) \/ Depot!Relink(t) \/ Depot!Publish(t)
               \/ Depot!Prune(t) \/ Depot!Rm(t) \/ Depot!Read(t) \/ Depot!Wait(t) \/ Depot!Free(t)
      BY <1>2, <2>1 DEF Depot!Adopt, Depot!Copy, Depot!Relink, Depot!Publish, Depot!Prune,
         Depot!Rm, Depot!Read, Depot!Wait, Depot!Free
    <2>2. ASSUME NEW s \in {"none", "running", "success", "failure"},
                 Depot!Write(t, [saw[t] EXCEPT !.status = s]), UNCHANGED firsts
          PROVE  Claim'
      <3>1. [saw[t] EXCEPT !.status = s] \in Depot!Row
        BY <1>1, Rows
      <3>2. [saw[t] EXCEPT !.status = s].claimed = saw[t].claimed
        BY <1>1 DEF Depot!Row
      <3> QED BY <1>1, <2>2, <3>1, <3>2, WritesKeepClaim
    <2>3. CASE Depot!Mark(t)
      BY <2>2, <2>3 DEF Depot!Mark
    <2>4. CASE Depot!Close(t)
      BY <2>2, <2>4 DEF Depot!Close
    <2>5. CASE Depot!Save(t)
      <3>1. PICK on \in BOOLEAN : Depot!Write(t, [saw[t] EXCEPT !.full = on])
        BY <2>5 DEF Depot!Save
      <3>2. [saw[t] EXCEPT !.full = on] \in Depot!Row
        BY <1>1, Rows, Zenon
      <3>3. [saw[t] EXCEPT !.full = on].claimed = saw[t].claimed
        BY <1>1 DEF Depot!Row
      <3>4. UNCHANGED firsts
        BY <2>5 DEF Depot!Save
      <3> QED BY <1>1, <3>1, <3>2, <3>3, <3>4, WritesKeepClaim
    <2>6. CASE Depot!Reconcile(t)
      <3>1. CASE UNCHANGED <<row, lost>>
        BY <1>2, <2>6, <3>1 DEF Depot!Reconcile
      <3>2. CASE row' = [saw[t] EXCEPT !.status = "failure"] /\ lost' = (lost \/ row # saw[t])
        <4>1. row'.claimed = saw[t].claimed
          BY <1>1, <3>2 DEF Depot!Row
        <4>2. ~lost' => ~lost /\ row = saw[t]
          BY <3>2
        <4>3. UNCHANGED firsts
          BY <2>6 DEF Depot!Reconcile
        <4> QED BY <4>1, <4>2, <4>3 DEF Claim
      <3> QED BY <2>6, <3>1, <3>2 DEF Depot!Reconcile
    <2>7. CASE Depot!Bootstrap(t)
      <3>1. CASE Depot!Drop(t) /\ UNCHANGED <<running, firsts>>
        BY <1>2, <3>1 DEF Depot!Drop
      <3>2. CASE ~saw[t].claimed /\ Depot!Write(t, [saw[t] EXCEPT !.claimed = TRUE]) /\ Depot!FirstBuild(t)
        <4>1. row'.claimed
          BY <1>1, <3>2 DEF Depot!Write, Depot!Row
        <4>2. ~lost' => ~lost /\ row = saw[t]
          BY <3>2 DEF Depot!Write
        <4>3. firsts' = firsts + 1
          BY <3>2 DEF Depot!FirstBuild
        <4> QED BY <3>2, <4>1, <4>2, <4>3 DEF Claim
      <3> QED BY <2>7, <3>1, <3>2 DEF Depot!Bootstrap
    <2> QED BY <1>3, <2>1, <2>3, <2>4, <2>5, <2>6, <2>7 DEF Depot!Resume
  <1>4. CASE Depot!Script
    BY <1>2, <1>4 DEF Depot!Script, Depot!Unpack, Depot!WriteKernel, Depot!Remove, Depot!Pack,
       Depot!Stamp, Depot!GiveUp
  <1>5. CASE Depot!Operator
    BY <1>2, <1>5 DEF Depot!Operator, Depot!Trigger, Depot!External, Depot!Activate, Depot!UpdateSettings
  <1>6. CASE Depot!Poll \/ Depot!Crash \/ Depot!Start
    <2>1. UNCHANGED <<row, lost, firsts>>
      BY <1>6 DEF Depot!Poll, Depot!Crash, Depot!Start
    <2> QED BY <1>2, <2>1
  <1>7. CASE UNCHANGED depot
    BY <1>2, <1>7 DEF depot
  <1>8. Depot!Next \/ UNCHANGED depot
    BY DEF MCNext
  <1> QED BY <1>3, <1>4, <1>5, <1>6, <1>7, <1>8 DEF Depot!Next

(* bootstrapFirstImage: however often the server restarts, the first image is    *)
(* asked for once, unless a writer of the row undid the claim.               *)
THEOREM FirstImageOnce == MCSpec => []Depot!OneFirstBuild
  <1>1. MCInit => Claim
    <2> SUFFICES ASSUME MCInit PROVE Claim
      OBVIOUS
    <2>1. firsts = 0
      BY DEF MCInit, Depot!InitWith
    <2> QED BY <2>1 DEF Claim
  <1>2. DepotInv /\ Claim /\ [MCNext]_<<vars, depot, story>> => Claim'
    BY ClaimMoves
  <1>3. Claim => Depot!OneFirstBuild
    BY DEF Claim, Depot!OneFirstBuild
  <1> QED BY <1>1, <1>2, <1>3, DepotInvariant, PTL DEF MCSpec
=============================================================================
