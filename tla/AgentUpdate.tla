---------------------------- MODULE AgentUpdate ----------------------------
(***************************************************************************)
(* The agent replacing its own binary: the offer, the download, the swap   *)
(* by a root-owned script behind a request file, the marker that counts    *)
(* the boots of a build that has not stayed up, the rollback to the backup *)
(* and the commit that drops it.  Processes die at every await and files   *)
(* outlive them.  A build is its version; a bad one passes its self-check, *)
(* reconciles, and dies before it has been up for long.                    *)
(***************************************************************************)
EXTENDS Naturals, FiniteSets

CONSTANTS
    Version,     \* versions released, in their order
    Image,       \* the version baked into the box's image
    MaxUnstableBoots,
    MaxTroubles  \* bound: kills, power cuts, failed downloads, timeouts

None == 0    \* no such file
Torn == 99     \* a download that was cut off

ASSUME UpdateAssumption ==
    /\ Version \subseteq Nat \ {None, Torn} /\ Image \in Version
    /\ MaxUnstableBoots \in Nat /\ MaxTroubles \in Nat

VARIABLES
    served,    \* the version the server carries and offers
    bad,       \* the builds that do not stay up
    direct,    \* the agent may write its own binary (else the script does)
    bin, bak,  \* the live binary and its backup
    marker,    \* agent-update.json
    stage,     \* the staged download
    request, result, \* the files between agent and script
    script,    \* the request the script has taken
    proc,      \* the agent's process
    proven,    \* history: the builds that stayed up on this disk
    spoilt,    \* history: an update went one of the ways that void the guard
    left       \* troubles left

files == <<bin, bak, marker, stage, request, result>>
vars  == <<served, bad, direct, files, script, proc, proven, spoilt, left>>

NoMarker  == [target |-> None, boots |-> 0, committed |-> FALSE]
NoRequest == [do |-> "none", version |-> None]

(* pc: where the process is between its awaits; timer: the commit, which   *)
(* runs beside it; offer: the version being fetched; missed, a history:    *)
(* those whose download failed.                                            *)
Down   == [pc |-> "down", ver |-> None, offer |-> None, attempted |-> {}, missed |-> {},
           timer |-> "off"]
Pc     == {"down", "start", "undo", "up", "fetch", "wait", "mark", "exit"}
Timer  == {"off", "armed", "clear", "drop", "wait"}
Do     == {"none", "swap", "rollback", "commit"}
Phased(p) == proc' = [proc EXCEPT !.pc = p]

TypeOK ==
    /\ served \in Version /\ bad \subseteq Version /\ direct \in BOOLEAN
    /\ bin \in Version /\ bak \in Version \cup {None}
    /\ marker \in [target : Version \cup {None}, boots : 0..MaxUnstableBoots, committed : BOOLEAN]
    /\ stage \in Version \cup {None, Torn}
    /\ request \in [do : Do, version : Version \cup {None}] /\ script \in [do : Do, version : Version \cup {None}]
    /\ result \in {"none", "ok", "failed"}
    /\ proc \in [pc : Pc, ver : Version \cup {None}, offer : Version \cup {None},
                 attempted : SUBSET Version, missed : SUBSET Version, timer : Timer]
    /\ proven \subseteq Version /\ spoilt \in BOOLEAN /\ left \in 0..MaxTroubles

Trouble == left > 0 /\ left' = left - 1

Init ==
    /\ served = Image /\ bin = Image /\ bak = None /\ marker = NoMarker
    /\ bad \in SUBSET (Version \ {Image}) /\ direct \in BOOLEAN
    /\ stage = None /\ request = NoRequest /\ result = "none" /\ script = NoRequest
    /\ proc = Down /\ proven = {Image} /\ spoilt = FALSE /\ left \in 0..MaxTroubles

(* A new server is deployed; it carries a newer agent.                     *)
Release ==
    /\ served' \in {v \in Version : v > served}
    /\ UNCHANGED <<bad, direct, files, script, proc, proven, spoilt, left>>

-----------------------------------------------------------------------------
(* The start of a process. *)

(* systemd starts whatever the live binary is.                             *)
Launch ==
    /\ proc.pc = "down"
    /\ proc' = [Down EXCEPT !.pc = "start", !.ver = bin]
    /\ UNCHANGED <<served, bad, direct, files, script, proven, spoilt, left>>

(* The same with one boot too many allowed.                                *)
DecisionOneMore ==
    IF marker = NoMarker \/ marker.committed \/ marker.target # proc.ver THEN "none"
    ELSE IF marker.boots > MaxUnstableBoots THEN "rollback" ELSE "commit"

(* decideStartupAction, this boot counted.                                 *)
Decision ==
    IF marker = NoMarker \/ marker.committed \/ marker.target # proc.ver THEN "none"
    ELSE IF marker.boots + 1 > MaxUnstableBoots THEN "rollback" ELSE "commit"

(* Ask the script: a leftover answer is removed first.                     *)
Ask(do, v) == result' = "none" /\ request' = [do |-> do, version |-> v]

(* The same with the boot not written down.                                *)
ReconcileUncounted ==
    /\ proc.pc = "start" /\ Decision # "rollback"
    /\ proc' = [proc EXCEPT !.pc = "up", !.timer = IF Decision = "commit" THEN "armed" ELSE "off"]
    /\ marker' = IF Decision = "commit" THEN marker ELSE NoMarker
    /\ UNCHANGED <<served, bad, direct, bin, bak, stage, request, result, script, proven, spoilt, left>>

(* reconcileSelfUpdateAtStartup, before the server is dialled.             *)
Reconcile ==
    /\ proc.pc = "start" /\ Decision # "rollback"
    /\ proc' = [proc EXCEPT !.pc = "up", !.timer = IF Decision = "commit" THEN "armed" ELSE "off"]
    /\ marker' = IF Decision = "commit" THEN [marker EXCEPT !.boots = @ + 1] ELSE NoMarker
    /\ UNCHANGED <<served, bad, direct, bin, bak, stage, request, result, script, proven, spoilt, left>>

(* Too many boots: back to the backup; without one the box limps on.       *)
RollBack ==
    /\ proc.pc = "start" /\ Decision = "rollback"
    /\ IF direct THEN /\ bin' = IF bak = None THEN bin ELSE bak
                      /\ bak' = None /\ marker' = NoMarker
                      /\ Phased(IF bak = None THEN "up" ELSE "down")
                      /\ UNCHANGED <<request, result>>
                 ELSE Ask("rollback", None) /\ Phased("undo") /\ UNCHANGED <<bin, bak, marker>>
    /\ UNCHANGED <<served, bad, direct, stage, script, proven, spoilt, left>>

(* The answer to a rollback: gone if it was done, on as before if not.     *)
UndoAnswered ==
    /\ proc.pc = "undo" /\ result # "none"
    /\ result' = "none" /\ marker' = NoMarker
    /\ Phased(IF result = "ok" THEN "down" ELSE "up")
    /\ UNCHANGED <<served, bad, direct, bin, bak, stage, request, script, proven, spoilt, left>>

-----------------------------------------------------------------------------
(* An update. *)

(* isNewerAgentVersion, in the server and again in planUpdate.             *)
Newer == served > proc.ver

(* A hello is answered with an offer, once per target and process.  An     *)
(* update by a build that has not stayed up voids the guard: its backup is *)
(* of a build nobody vouches for, its commit still to come.                *)
Offered ==
    /\ proc.pc = "up" /\ Newer /\ served \notin proc.attempted
    /\ proc' = [proc EXCEPT !.pc = "fetch", !.offer = served, !.attempted = @ \cup {served}]
    /\ stage' = Torn
    /\ spoilt' = (spoilt \/ proc.timer # "off" \/ proc.ver \notin proven)
    /\ UNCHANGED <<served, bad, direct, bin, bak, marker, request, result, script, proven, left>>

(* The same without the backup.                                            *)
InstallOnly(v) == bak' = bak /\ bin' = v

(* Backed up, then renamed into place.                                     *)
Install(v) == bak' = bin /\ bin' = v

(* The download is what the server has by now; size, digest and --version  *)
(* must be the offer's.  A script still at an earlier request voids the    *)
(* guard: its answer will be taken for this one's.                         *)
Fetched ==
    /\ proc.pc = "fetch"
    /\ IF served # proc.offer THEN stage' = None /\ Phased("up") /\ UNCHANGED <<bin, bak, request, result>>
       ELSE IF direct THEN /\ Install(served) /\ stage' = None /\ Phased("mark")
                           /\ UNCHANGED <<request, result>>
       ELSE /\ stage' = served /\ Ask("swap", served) /\ Phased("wait")
            /\ UNCHANGED <<bin, bak>>
    /\ spoilt' = (spoilt \/ script # NoRequest)
    /\ UNCHANGED <<served, bad, direct, marker, script, proven, left>>

FetchFails ==
    /\ proc.pc = "fetch" /\ Trouble
    /\ stage' = None
    /\ proc' = [proc EXCEPT !.pc = "up", !.missed = @ \cup {proc.offer}]
    /\ UNCHANGED <<served, bad, direct, bin, bak, marker, request, result, script, proven, spoilt>>

(* The answer, whatever it answers: the files name no request.             *)
SwapAnswered ==
    /\ proc.pc = "wait" /\ result # "none"
    /\ result' = "none" /\ stage' = None
    /\ Phased(IF result = "ok" THEN "mark" ELSE "up")
    /\ UNCHANGED <<served, bad, direct, bin, bak, marker, request, script, proven, spoilt, left>>

(* The same without going down for the new binary to start.                *)
MarkAndStay ==
    /\ proc.pc = "mark"
    /\ marker' = [target |-> proc.offer, boots |-> 0, committed |-> FALSE] /\ Phased("up")
    /\ UNCHANGED <<served, bad, direct, bin, bak, stage, request, result, script, proven, spoilt, left>>

Mark ==
    /\ proc.pc = "mark"
    /\ marker' = [target |-> proc.offer, boots |-> 0, committed |-> FALSE] /\ Phased("exit")
    /\ UNCHANGED <<served, bad, direct, bin, bak, stage, request, result, script, proven, spoilt, left>>

Exit ==
    /\ proc.pc = "exit" /\ proc' = Down
    /\ UNCHANGED <<served, bad, direct, files, script, proven, spoilt, left>>

-----------------------------------------------------------------------------
(* The commit of a build that stayed up, beside whatever else goes on. *)

Timed(t) == proc' = [proc EXCEPT !.timer = t]

(* The same without a word to the marker.                                  *)
StableUnsaid ==
    /\ proc.timer = "armed" /\ proc.ver \notin bad
    /\ proven' = proven \cup {proc.ver} /\ Timed("drop")
    /\ UNCHANGED <<served, bad, direct, files, script, spoilt, left>>

(* STABLE_UPTIME_MS have gone by; then one write after the other.          *)
Stable ==
    /\ proc.timer = "armed" /\ proc.ver \notin bad
    /\ marker' = [target |-> proc.ver, boots |-> 0, committed |-> TRUE]
    /\ proven' = proven \cup {proc.ver} /\ Timed("clear")
    /\ UNCHANGED <<served, bad, direct, bin, bak, stage, request, result, script, spoilt, left>>

ClearMarker ==
    /\ proc.timer = "clear" /\ marker' = NoMarker /\ Timed("drop")
    /\ UNCHANGED <<served, bad, direct, bin, bak, stage, request, result, script, proven, spoilt, left>>

DropBackup ==
    /\ proc.timer = "drop"
    /\ IF direct THEN bak' = None /\ Timed("off") /\ UNCHANGED <<request, result>>
                 ELSE Ask("commit", None) /\ Timed("wait") /\ UNCHANGED bak
    /\ UNCHANGED <<served, bad, direct, bin, marker, stage, script, proven, spoilt, left>>

DropAnswered ==
    /\ proc.timer = "wait" /\ result # "none"
    /\ result' = "none" /\ Timed("off")
    /\ UNCHANGED <<served, bad, direct, bin, bak, marker, stage, request, script, proven, spoilt, left>>

-----------------------------------------------------------------------------
(* The root-owned script, and what goes wrong. *)

(* The request is consumed first.                                          *)
TakeRequest ==
    /\ script = NoRequest /\ request # NoRequest
    /\ script' = request /\ request' = NoRequest
    /\ UNCHANGED <<served, bad, direct, bin, bak, marker, stage, result, proc, proven, spoilt, left>>

(* A refusal clears the request and the stage, those of today included.    *)
Refuse ==
    /\ result' = "failed" /\ request' = NoRequest /\ stage' = None
    /\ UNCHANGED <<bin, bak>>

Matches == stage = script.version

RunScript ==
    /\ script # NoRequest /\ script' = NoRequest
    /\ \/ /\ script.do = "commit"
          /\ bak' = None /\ result' = "ok" /\ UNCHANGED <<bin, stage, request>>
       \/ /\ script.do = "rollback" /\ bak # None
          /\ bin' = bak /\ bak' = None /\ result' = "ok" /\ UNCHANGED <<stage, request>>
       \/ /\ script.do = "swap" /\ Matches
          /\ Install(stage) /\ stage' = None /\ result' = "ok" /\ UNCHANGED request
       \/ /\ script.do = "rollback" /\ bak = None
          /\ Refuse
       \/ /\ script.do = "swap" /\ ~Matches
          /\ Refuse
    /\ UNCHANGED <<served, bad, direct, marker, proc, proven, spoilt, left>>

(* A wait ends: for certain when nobody is going to answer.                *)
TimesOut ==
    /\ result = "none" /\ request' = NoRequest
    /\ IF script = NoRequest /\ request = NoRequest THEN UNCHANGED left ELSE Trouble

SwapTimedOut ==
    /\ proc.pc = "wait" /\ TimesOut
    /\ stage' = None /\ Phased("up") /\ spoilt' = TRUE
    /\ UNCHANGED <<served, bad, direct, bin, bak, marker, result, script, proven>>

UndoTimedOut ==
    /\ proc.pc = "undo" /\ TimesOut
    /\ marker' = NoMarker /\ Phased("up") /\ spoilt' = TRUE
    /\ UNCHANGED <<served, bad, direct, bin, bak, stage, result, script, proven>>

DropTimedOut ==
    /\ proc.timer = "wait" /\ TimesOut /\ Timed("off")
    /\ UNCHANGED <<served, bad, direct, bin, bak, marker, stage, result, script, proven, spoilt>>

(* A bad build dies by itself, once it is past its reconcile.              *)
Die ==
    /\ proc.ver \in bad /\ proc.pc \notin {"down", "start", "undo"}
    /\ proc' = Down
    /\ UNCHANGED <<served, bad, direct, files, script, proven, spoilt, left>>

(* Any other dies where it is hit; between a swap and its marker that      *)
(* leaves the new build without a guard.                                   *)
Kill ==
    /\ proc.pc # "down" /\ Trouble
    /\ proc' = Down /\ spoilt' = (spoilt \/ proc.pc \in {"wait", "mark"})
    /\ UNCHANGED <<served, bad, direct, files, script, proven>>

(* Power is lost: /run is gone, and on a live image everything else is.    *)
PowerCut ==
    /\ Trouble /\ proc' = Down /\ script' = NoRequest
    /\ request' = NoRequest /\ result' = "none"
    /\ \/ /\ bin' = Image /\ bak' = None /\ marker' = NoMarker /\ stage' = None
          /\ proven' = {Image} /\ spoilt' = FALSE
       \/ /\ UNCHANGED <<bin, bak, marker>> /\ stage' = IF direct THEN stage ELSE None
          /\ spoilt' = (spoilt \/ proc.pc \in {"wait", "mark"}) /\ UNCHANGED proven
    /\ UNCHANGED <<served, bad, direct>>

-----------------------------------------------------------------------------
Starts  == Launch \/ Reconcile \/ RollBack \/ UndoAnswered
Updates == Offered \/ Fetched \/ SwapAnswered \/ Mark \/ Exit
Commits == Stable \/ ClearMarker \/ DropBackup \/ DropAnswered
Scripts == TakeRequest \/ RunScript
GivesUp == SwapTimedOut \/ UndoTimedOut \/ DropTimedOut
Fails   == FetchFails \/ Kill \/ PowerCut

Next == Release \/ Starts \/ Updates \/ Commits \/ Scripts \/ GivesUp \/ Die \/ Fails

Spec == Init /\ [][Next]_vars

(* systemd restarts for ever, boxes say hello again, files are answered    *)
(* and timers run out; nobody owes a release or a failure.                 *)
Fairness ==
    /\ WF_vars(Starts) /\ WF_vars(Updates) /\ WF_vars(Commits) /\ WF_vars(Scripts)
    /\ WF_vars(GivesUp /\ left' = left) /\ WF_vars(Die)


-----------------------------------------------------------------------------
(* Properties *)

(* update.ts: "a new binary that boots but then keeps crashing fast is     *)
(* rolled BACK to the one that worked": a live build that has not stayed   *)
(* up has its marker, or is about to get it, and a backup that has.        *)
Guarded ==
    ~spoilt /\ bin \notin proven =>
       /\ bak \in proven
       /\ \/ marker.target = bin /\ ~marker.committed
          \/ proc.pc \in {"wait", "mark"} /\ proc.offer = bin

(* Every variable is what it should be, boot counts stay in their budget,   *)
(* and an update is guarded.                                               *)
UpdateGuarded == TypeOK /\ Guarded

(* A build that has stayed up is never rolled back, however late a script  *)
(* answers and whatever dies.                                              *)
NoRetreat == [][bin' < bin /\ bin \in proven => bin' = Image /\ marker' = NoMarker /\ proc' = Down]_vars

(* A build that keeps crashing does not stay.                              *)
RollsBack == (bin \in bad) ~> (bin \notin bad \/ spoilt)

(* A good release comes to run on the box, unless its download failed: the *)
(* process does not try again.                                             *)
CatchesUp ==
    <>[](\/ served \in bad \/ spoilt
         \/ proc.ver = served
         \/ served \in proc.missed)

(* "rather than reconnecting and re-triggering the same bad swap": a box   *)
(* comes to rest on a build that stays up.                                 *)
Settles == <>[](proc.ver \notin bad)
=============================================================================
