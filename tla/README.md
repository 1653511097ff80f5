# Polyptic in TLA+

Polyptic is a control plane for walls of screens. A server (`packages/server`)
holds the desired state: machines, their screens, the murals the screens are
placed on, the content they show, saved scenes and schedules. An agent on every
box (`packages/agent`) drives the compositor and reports back over one
websocket; one player per screen (`packages/player`) renders what it is sent. A
console (`packages/console`) is the operators' view, and `packages/protocol` is
the contract they share.

This directory holds TLA+ specifications of the parts whose correctness depends
on order, interleaving, failure or time, TLC configurations that check them on
small instances, and TLAPS proofs of what matters most. Paths below are relative
to `packages/`.

## 1. Inventory

The server is one JavaScript process: a handler is atomic between two `await`s,
and at an `await` (nearly always a write to the store) any other handler may
run. Most hard behaviour of this system comes from there, from sockets that die
on either side, and from processes that die between two writes.

| Component (source) | State | Operations | Interacts with | What is hard | What makes it correct | Module |
|---|---|---|---|---|---|---|
| **Panel power** (`server/src/panel-power.ts`) | `lastDesired` per screen | applyMuralPower, releaseScreen, reconcileMachine, noteRefused | scheduler's tick, agent hello, power acks | edge triggering over a lossy path; memory lost on restart; two authors (schedule, operator) | no screen is left dark in its hours; an override holds to the next boundary; the console never shows a lit wall dark | `PanelPower` |
| **Layout: murals, placements, walls, content, scenes, badge** (`server/src/state.ts`) | maps of murals, placements, walls, slices, sources, scenes; `activeScenes`, `applyingScene` | place, unplace, forget, move, combine, split, assign, clear, snapshot, apply, delete | REST, scheduler, store | handlers interleave at every row written; an apply is dozens of awaits under a fence | membership exclusive, walls whole, a badge never lies, an apply lands the scene, nothing stays on a deleted mural | `Murals` |
| **Scene scheduler** (`server/src/scheduler.ts`) | `lastVerdicts`, `running` | tick, kick, evaluate | resolver, applyScene, panel power | a tick spans many awaits; kicks during a tick are skipped | content fires once per change of verdict; a manual apply stands until the boundary | `SceneSchedule` |
| **Enrolment and agent sessions** (`server/src/enroll.ts`, `ws.ts`, `hub.ts`, `admin.ts`, `rest.ts`) | machine status, credential hashes, tokens, hub sockets, presence counts | hello, approve, reject, remove, close | everything sent to a box | a hello spans several awaits; overlapping and half-dead sockets; a lost credential | who is put out stays out, an approved box is told, the count is the sockets, a cap is a cap | `Enrollment` |
| **Fleet logs** (`agent/src/logger.ts`, `server/src/logs.ts`, `ws.ts`) | spool and its file, batches in flight, dedupe memory, append chain | write, drain, ack, refuse, append | agent socket, disks | lost acks, bounded spool, failed appends, restarts on both sides | no line is lost silently, none stored twice unless its seq was forgotten | `LogShipping`, `StoreAndForward` |
| **Player's prober** (`player/src/surface-prober.ts`, `views/Player.vue`) | per surface: phase, timers, queued reload | prove, verify, paint, doubt, reload | the network, the slice | stale probes, timers, doubts that coincide | one thread of doubt, proven content only, the wall converges unattended | `SurfaceProber` |
| **Content channel** (`server/src/state.ts`, `rest.ts`, `hub.ts`, `source-health.ts`, `player/src/ws.ts`) | slices and rows, library, hub, record of source health, the page | assign, delete source, push, hello, report, reload, restart | the prober, the store | pushes of stale slices, overlapping sockets, restarts between writes | a wall shows its slice, the record is sound, memory and store agree | `PlayerChannel` |
| **Agent self-update** (`agent/src/update.ts`, `index.ts`, `setup/templates.ts`, `server/src/agent-update.ts`) | binary, backup, marker, stage, request and result files | offer, stage, swap, mark, roll back, commit | the root script behind a path unit | death at every await; two processes and files between them | a bad build goes, a proven one stays, a good release arrives | `AgentUpdate` |
| **Image depot** (`server/src/image-updates.ts`, `deploy/*.sh`, `provision.ts`) | files at the root, `image-id.txt`, `builds/`, the stored rollout row | rebuild, adopt, activate, prune, bootstrap, reconcile | build Jobs, boxes that pin builds, the store | scripts and requests on one directory tree; in-place writes under hard links; a row written back whole | a kept build is the build; what is served is filed; the first image once | `ImageDepot` |
| **Schedule resolver** (`protocol/src/schedule.ts`) | none | resolveMuralAt | scheduler | windows past midnight, priorities, ties | one total answer | - |
| **Agent power handler and CEC** (`agent/src/index.ts`, `backends/power.ts`) | in-flight handlers | onDisplayPower | panel power | two commands for one connector overlap | the last command wins | - |
| **Store** (`server/src/store`) | rows | upserts, deletes | every handler | several rows one by one | what is reloaded is consistent | part of `PlayerChannel` |
| **Relays, casting, shell, screenshots** | pending requests with timers | open, data, close, expire | agent socket | a late answer after a timeout | a request ends once | - |
| **Operator auth** (`auth-*.ts`, `roles.ts`, `grants.ts`, `tokens.ts`) | sessions, grants | login, check, revoke | REST | expiry | what a revoked session can no longer do | - |
| Media, documents, page data, provisioning, browsers, console, elements, site | files, views, scripts | | | I/O | not candidates for TLC | - |

`PROJECT.json` lists every component with its status, and every hazard at the
line where it bites.

## 2. How the modules fit

- `PanelPower` is a closed loop of its own (ticker, server, network, box).
- `SceneSchedule` EXTENDS `Murals`: the ticker is one more client of the layout,
  and its apply is the operator's own handler with all its awaits.
- `LogShipping` implements `StoreAndForward` (an INSTANCE with a refinement
  mapping; checked by `logs`, proved in `LogShippingProofs`).
- `Enrollment`, `PlayerChannel`, `SurfaceProber`, `AgentUpdate` and `ImageDepot`
  stand alone; `PlayerChannel` takes the prober's verdict as an input
  (`Conclude`), `PanelPower` the resolver's, `ImageDepot` the boxes' polls.
- `MCUpkeep` puts `AgentUpdate` and `ImageDepot` into one run. They share no
  state: a behaviour is about one of them.
- An `MC` module fixes an instance. Where one run asks several questions, a
  variable chosen at the start (`story`, `day`, `calm`, `alone`) gives each
  behaviour its own inputs, so that each question has the instance it needs; the
  properties named after a story say in which behaviours they are asked.

What would be worth adding next: the rows under `Murals` with a crash in the
middle of a handler; rings and promotion over `ImageDepot`; the box's concurrent
power handlers, refining `PanelPower`'s `Box`; the relays.

## 3. PanelPower

**What it is.** Every ten seconds the ticker walks the murals and hands each
mural's verdict ("on", "off", or "none" when no window governs it) to
`applyMuralPower`. That remembers per screen what the schedule last wanted
(`lastDesired`) and sends a command only on a change. A box that says hello is
reconciled; a refused command deletes the memory; an ungoverned screen is
released.

| In the module | In the code |
|---|---|
| `lastDesired` | `PanelPowerScheduler.lastDesired`; `NoRecord` is an absent entry |
| `ApplyMuralPower`, `ReleaseScreen`, `ReconcileMachine` | the decision the function takes for one screen: the memory it leaves and what it sends |
| `Carry` | the loop over screens, with `send` |
| `TickStart`, `TickMural`, `ticking`, `seen` | one tick: the windows and the clock are captured at its start, and between two murals a scene apply may await |
| `Connect`, `Rediscover`, `AdmitDone`, `admitting` | the hello in two halves, around the await of `registerMachine`; `Rediscover` is the agent's repeated hello after its outputs changed |
| `Executes`, `PowerAck` | the agent's handler and the server's for the ack |
| `Drop`, `GoHalfOpen`, `NoticeClose`, `Offline` | a socket that closes, one that dies unnoticed, and the close handler |
| `Reboot`, `Unplug`, `Replug`, `ServerRestart` | failures of the box, the panel and the server |
| `ScheduleMoves`, `PlaceScreen`, `ManualPower` | inputs: a boundary or an edit of windows, a placement, the console's wake and sleep |
| `panel`, `override` | the glass (with who darkened it) and a history variable: which screens an operator has overridden while the schedule had nothing to say |

**Abstractions.** The verdict of a mural is an input that may change at any time.
Wording, logs and CEC are left out. A machine has one hello under way at a time.
The order in which a tick visits murals is left open (the code's order is the
store's). Commands of one connector are executed in order; the agent's handlers
may in fact overlap (section 7).

**Runs** (all screens belong to one box):

| Run | Instance | Shows |
|---|---|---|
| `panel` | 1 screen, 2 walls, every event: boundaries, moves, overrides, drops, half-open sockets, hotplug, reboots, restarts, lost and refused commands | TypeOK; AsleepOnlyOnline; OverrideHolds, with ticks interrupted between two walls |
| `panel_stories`, "walls" | 1 screen, 2 walls, overrides, every command delivered | WallsNotStranded: once nothing is in flight and the schedule has nothing more to say, no panel stays in a sleep it no longer wants |
| `panel_stories`, "console" | 1 screen, 1 wall, 2 frames in flight each way, drops, reboots, restarts, lost and refused frames | ConsoleHonest: what the console shows asleep is dark |
| `panel_stories`, "hello" | 2 screens, drops and reboots, fairness | HelloReconciles (liveness): a screen whose box comes back out of its hours sleeps again, one the schedule let go is woken |
| `panel_missed_wake` (violation) | 1 screen, a boundary and a drop | the reconcile records the hours as known without waking the panel: it stays dark through them |

**Bounds.** `MaxFrames` bounds the commands and acks in flight per screen; the
guard `HasRoom` waits instead of dropping. One frame suffices where the question
is what is remembered; two let an ack arrive after a newer command, which is what
"console" is about. One screen suffices for the per-screen memory, as a pass
treats every screen by itself; "hello" has two. Two walls are what a move needs.
`Events` names the environment's moves an instance has. "walls" leaves out failures
and "console" half-open sockets and hotplug, because the code does break those
properties under them (section 7). `panel` has 1.6 million states.

**Fairness** (in "hello" only; the other stories ask for no progress). `Tick`: the interval is started at boot and never cleared.
`Session`: the agent reconnects in a loop, and a handler resumes when the store
has answered. `Box`: the agent handles each frame, the server each ack. Inputs
and failures have none.

**Deadlock** is checked: the ticker can always run.

## 4. Murals

**What it is.** The layout half of the `ControlPlane` in `state.ts`. Every handler
changes memory, awaits the store, changes more, awaits again. `todo[c]` is the
continuation of the handler that client `c` has in flight: a sequence of steps,
one for each stretch between two awaits, with the values the handler computed
before (the stale ones included). A client with an empty continuation may begin
any operation. So an apply, which calls the other handlers, is the same steps in
sequence, under the fence.

| In the module | In the code |
|---|---|
| `at`, `walls`, `slice`, `library`, `scenes`, `badge`, `fence` | placements, videoWalls and wallSourceIds, slices and screenSourceIds, contentSources, scenes, activeScenes, applyingScene |
| `Place`, `Unplace`, `Forget`, `Move`, `Combine`, `Pack`, `Split`, `AssignWall`, `AssignScreen`, `ClearScreen`, `ClearWall`, `Unlist`, `Snapshot`, `Unsave`, `Apply`, `Raze` | the handlers, first stretch |
| `Resume` and the steps under it | their later stretches |
| `Capture`, `Identical` | what snapshotScene saves, and when diffScene finds nothing to change |
| `JudgeStep`, `Rejudge` | reconcileActiveScene, with its await at each badge it clears |
| `Resplit`, `Omit`, `Lay`, `Regroup`, `RespanStep`, `Dress`, `Lower` | the phases of applySceneInner, each working through a set it read when it began |
| `Fail` | a store write that rejects: the handler ends there; an apply's `finally` lowers the fence |

**Abstractions.** A mural is a line of unit cells: two screens touch when their
cells are equal or next to each other, and packing closes gaps in order. Content
is a library source, a url, or nothing. Zoom, audio, playlists, names and sizes
are left out, as are the emits. Screens and murals are not created after the
start; a machine's removal (which forgets its screens) is not modelled. Ids are
fresh until no state or continuation holds them, which stands for never reused.
A phase of an apply visits its set in any order.

**Runs.**

| Run, story | Instance | Shows |
|---|---|---|
| `mural_edits`, "edits" | 1 client, 2 screens, 1 mural, 3 cells, 1 scene, every operation but those of section 7 | LayoutIntact, BadgeHonest, ApplyLandsScene, SpanMatchesEdits |
| `mural_edits`, "walls" | 1 client, 3 screens, 3 cells, no scenes | LayoutIntact, WallWhole |
| `mural_races`, "races" | 2 clients, 2 screens | BadgeHonestRaces and ExclusiveMembership with two handlers interleaved at each await, applies included |
| `mural_races`, "pairs" | 1 client, 2 murals, 2 scenes, refused writes, fairness | BadgeOnlyWhenDiverged, FenceLifted |

**Bounds.** Two screens make a wall, three a wall with a middle; three cells make
a gap; one spare wall id beyond those in use lets a new wall be made while an
old one's continuation is alive; two clients are the fewest that race. `LastCell`
0 in the races puts every screen on one cell (all are in contact), as position plays
no part in their question. In `mural_edits`, which has no liveness, s1 and s2 are
interchangeable (symmetry): no story and no property tells them apart.
`CHECK_DEADLOCK FALSE`: everything may be forgotten and deleted, after which no
operation is left.

**Fairness.** `WF(Resume(c))` in "pairs": the store answers, with success or (in
`Fail`) not.

## 5. SceneSchedule

**What it is.** `SceneScheduler` in `scheduler.ts`, content only, over the layout
of `Murals`. The interval and every kick call `tick`. Unless a tick is running, it
reads the windows once and walks the murals. A mural whose verdict differs from
the one remembered, and whose wall is not on that scene already, gets the scene
applied; the walk waits for that apply. The ticker is one more client of `Murals`
(`Ticker`), and the apply is the operator's own handler, with all its steps.

| In the module | In the code |
|---|---|
| `lastVerdicts` | `lastVerdicts`; absent and null are alike, since both differ from every scene |
| `tour` | the local state of a running `evaluate`: the murals still to visit and the verdicts it resolved at its start |
| `Running` | `running`: a walk is under way or its apply is |
| `Tick` | `tick`, by the interval or a kick, when none is running; disabled, it clears the memory |
| `TickOn` | `evaluate` after the await of `apply`, up to the next apply or the end |
| `Due`, `Record`, `Narrow` | the cases unchanged, missing-scene, already-live; `lastVerdicts.set`; the rest of the walk |
| `TickFails` | an apply that throws: `catch` and `finally` |
| `Boundary` | the resolver's answer for a mural changes: time passes, or an operator edits windows or dayparts |
| `Switch`, `Restart` | the master switch; a restart, which loses the memory and keeps the layout |
| `Others` | every handler of `Murals` by any other client, and the steps of the ticker's apply |
| `spoken` | history: the murals a tick has evaluated under their present verdict |

**Abstractions.** The verdict is an input, a scene of the mural itself or nothing:
`stampMuralId` puts a window on its scene's mural, and the default scene only
speaks for its own. The murals of one stretch of the walk are visited in any order.
A restart comes between two requests and two ticks (a restart in the middle of an
apply is not modelled). Scene ids are not used again while the schedule
names them. The renders the tick sends to players, logs and activity are left out.

**Runs.** `schedule`, in two stories:

| Story | Instance | Shows |
|---|---|---|
| "ticks" | 2 murals, 2 scenes, one operator; applies, deletions, refused writes, edits of windows, switch, restart | SpeaksOncePerVerdict: after the ticker has spoken, the operator's word stands until the verdict changes, even under a walk that carries stale verdicts |
| "lands" | 1 mural, 2 scenes, placements and applies by an operator, all inputs, fairness | VerdictLandsUnlessFailed: a verdict the ticker has not acted on reaches the wall |

**Bounds.** Two murals let a tick be interrupted between them; two scenes let the
operator and the schedule disagree; one screen and one cell make layouts that
differ (placed or not). Content, walls and geometry are checked in section 4 and
play no part in when the ticker speaks.

**Fairness.** `WF(Tick \/ TickOn \/ Others(Ticker))`: the interval is never
cleared, and the store answers the tick's apply. The operator has none, and
neither have boundaries, the switch and restarts. "lands" has no refused
writes: the code does not retry one (section 7).

`CHECK_DEADLOCK FALSE` as in section 4.

## 6. The other modules

### 6.1 Enrollment

How a box gets in. The agent dials, says hello, and the handler of that hello runs
over several awaits (signing a certificate, registering, storing a credential,
counting the token's use); operators approve, reject and remove meanwhile.

| In the module | In the code |
|---|---|
| `machine`, `token`, `required` | the registry's status, `enrollment_tokens`, the mTLS posture |
| `conn` | one record per server-side socket: the box, the step of its hello between two awaits, whether the hub holds it, how it is closing |
| `count`, `desk` | `Presence.agentConns`; operator requests past their first await |
| `saved`, `bundle`, `stick`, `dial`, `told` | the box: credential file, client certificate, the token it boots with, the socket it is on, what it last heard |
| `Hello`, `Signed`, `Registered`, `Enrolled`, `Counted`, `Named`, `AutoApproved`, `Touched` | the stretches of `handleAgentHello` and of `authenticate`'s outcome |
| `ApproveEnds`, `RejectOne`, `RejectEnds`, `RemoveEnds` | rest.ts, after the await; `ClosesAll` walks the hub |
| `Lose`, `Leaves`, `Closed` | a socket that dies, with or without the server noticing before the next one |
| `overtaken`, `forgotten` | history: what was decided before a write that should have changed it; removed with sockets still open |

`enrol` checks, for one box, one token with a cap of one, two sockets, one operator
request at a time, one loss and one removal: `Registers` (types, and a token's uses
exceed its cap by at most the boxes that said hello at the same time),
`SessionsTrue` (an approved box is not left on its pending board; one that was put
out is in no session), `CountsSockets`, `RejectedStays`, and `GetsBackIn` under
fairness. Two sockets are what an overlapping reconnect needs; one loss and one
removal suffice for each to fall at every await. Tokens change in one half of the
behaviours and boxes are removed in the other (`day`). Fairness: the agent redials
in a loop and the store answers, also the operator's request. `CHECK_DEADLOCK
FALSE`: a removed box with a dead token has nothing left to do.

### 6.2 LogShipping, StoreAndForward

`StoreAndForward` is the promise: a line is held until it is stored, only the bound
on the spool may take it first, and nothing stored goes. `LogShipping` is the
code: the spool and the file that mirrors it, batches with ids, a send budget per
minute, acks, refusals, requeueing when the socket closes; on the server the
loop over a batch, the memory of seqs already seen, and the chain of appends.

| In the module | In the code |
|---|---|
| `Write`, `Flush`, `FlushFails`, `Drain`, `Minute` | `AgentLogger.write`, `flushWrite`, `drain` with `allowSend` |
| `Connect`, `Drop`, `Hangup`, `AckArrives` | arming the shipper, the close handler, `requeueInFlight`, `onAck` |
| `Receive`, `Sift`, `Enqueue`, `Land`, `LandFails`, `Answer` | `ingestAgentLogs`, `LogSink.write` with `alreadySeen`, the chained append, its `catch`, the ack |
| `AgentRestart`, `ServerRestart`, `Mend` | `loadSpool`; the in-memory state of `LogSink`; `init` |
| `evicted`, `unsaved`, `unlanded`, `twice`, `forgotten` | history: why a line may be missing, lines stored twice, and seqs that have left the dedupe memory |

`logs` checks three lines through a spool of two, batches of two, a budget of two
and a memory of two, with one trouble: the smallest sizes at which the spool
overflows under a batch in flight, the budget runs out and the memory forgets.
`LinesKept`: every line is spooled, stored, on its way to the disk, or
accounted for by a history variable (`Accounted`), and none is stored twice unless
its seq had left the memory (`RepeatsForgotten`). In this run a line is stored twice
only after the server restarted: that the memory forgets a line which is sent again
later takes a spool larger than the memory, which the theorem covers. In calm
behaviours (drops, refusals and overflows, but no crash and no failed append)
`ImplementsRelay` is the refinement and `Delivered` its liveness. In the others both
hold trivially of the empty mapping and are not claimed. Fairness: the drain timer,
the server's loop and chain, the delivery of acks, the mending of a volume.

### 6.3 SurfaceProber

One region of a wall. A url is proven with a probe before the element is pointed
at it, is checked again after every doubt (a socket that came back, the box's
network, a recheck), is re-fetched in place when it may have missed content, and
media elements report their own failures. An action is one callback of the page's
thread. `entry` is the prober's `SurfaceState`; `probes` and `timers` are what is
in flight, so a probe of an earlier url or generation lands late (`Land`,
`Current`); `Cancel`, `Invalidate`, `Arm`, `Probe`, `Prove`, `Paint`,
`RequestReload`, `ScheduleVerify` are the class's private methods and compose into
the handlers.

`player` checks with two urls, one verification instead of two, three timer handles
and four events (doubts, edits, outages): `OneThreadOfDoubt`, `GlassRight`,
`HealNeverDroppedLong`, and under fairness (timers fire, probes end, the browser
answers) `WallConverges`. Durations are left out: a timer may fire at any moment,
which is more than the code allows. Two stories, with and without brief doubts,
see section 7. `CHECK_DEADLOCK FALSE`: a region at rest with no events left.

### 6.4 PlayerChannel

From the operator to the glass and back. A request assigns a source to one or
several screens, or deletes a source; it changes memory and awaits a row, screen by
screen, then pushes what it captured. The player's socket drops, overlaps with its
successor in the hub, and carries renders down and health reports up. Pages
reload from their last slice; the server restarts between two writes.

| In the module | In the code |
|---|---|
| `slice`/`row`, `library`/`libraryRows` | memory and store, apart while a request is under way |
| `ops`, `Assign`, `Delete`, `Written`, `Finish` | `setScreenContent`, `applyBulkContent`, `deleteContentSource` and the routes that push |
| `hub`, `link`, `up`, `down` | the server's sockets, the page's own, frames under way (lost with the socket) |
| `HearHello`, `HearReport`, `NoticeClose`, `record` | `handlePlayer` and `SourceHealthTracker` |
| `Dial`, `Get`, `Conclude`, `Reload` | `PlayerSocket`, `handleMessage`, `reportHealth`, `loadLastSlice` |
| `Restart` | `hydrate`, with its repair of dangling assignments |

`channel` checks `RecordSound`, `WrittenThrough`, `SettledRight` and (under
fairness) `WallFollows` over several splits of the bounds (`MCInit`): one screen
with up to three edits, or one edit, two troubles and two verdicts; one that is off,
under four edits; two screens under requests that cross, with one trouble and one
verdict. Two requests and two sockets are the fewest that overlap. Screens on which two
requests crossed are excepted (`raced`), because the pushes do arrive out of order there
(section 7), until a request comes to the screen while no other is under way for it. A
request that has the screen among its later targets does not lift the exception when it
starts but when it comes to that screen (`Alone`): between the two, what the crossing
left in the store is still there. It takes four edits to see the difference.
`channel_replay` is the violation: what a page re-states on a reconnect is sent before
its hello and dropped. Fairness: the store answers, frames on a live socket arrive,
closes are noticed, pages redial. `CHECK_DEADLOCK FALSE`: all may be told.

### 6.5 AgentUpdate

The agent replaces its own binary. It downloads an offered version, checks it, and
swaps it in, itself (`direct`) or through a request file that a root script answers;
then writes a marker and exits. Each boot counts in the marker; beyond
`MaxUnstableBoots` (three in the code, two here) the backup is put back. After
45 seconds up the build is committed and the backup dropped.

| In the module | In the code |
|---|---|
| `bin`, `bak`, `marker`, `stage`, `request`, `result` | the files; all outlive the process, and on a netbooted box none outlives the power |
| `proc`, `script` | the process (its place between two awaits, timers, what it attempted) and the request the script has taken |
| `Launch`, `Reconcile`, `RollBack` | `Restart=always`; `reconcileSelfUpdateAtStartup` with `decideStartupAction` |
| `Offered`, `Fetched`, `Install`, `SwapAnswered`, `Mark`, `Exit` | `onUpdateAvailable`, `applyUpdate` and the two swap plans |
| `TakeRequest`, `RunScript`, `Refuse` | `agentUpdateScript` |
| `Stable`, `ClearMarker`, `DropBackup` | the commit |
| `Die`, `Kill`, `PowerCut`, `...TimedOut` | bad builds, kills, power, a script that is late |

A bad build is assumed to get past its reconcile before it dies; the script's check
and install are one step, as are copying and renaming the backup.

### 6.6 ImageDepot

The depot of one architecture. Boxes netboot what lies at its root, under the id
in `image-id.txt`. A published build is also filed in `builds/<id>/` (adopt); an
older one is laid out at the root again to roll the fleet back (activate); the
oldest are dropped (prune). `rootfs.squashfs` is shared by hard link between the root
and a build, the kernel and initrds are copied, because scripts write those in
place.

| In the module | In the code |
|---|---|
| `root`, `published`, `dirs`, `shared` | the files by the build they came with, `image-id.txt`, `builds/`, which directory entries are one inode with the root's |
| `todo[t]` | what is left of each of the server's threads between two awaits: startup, the rebuild, an operator's rollback and settings, a box's request |
| `row`, `saw` | the stored `ImageRollout` and what each thread read of it; every writer writes back all of it |
| `script` | the build script of the hook, or a Job nobody here waits for |
| `Adopt`, `Copy`, `Relink`, `Publish`, `Prune`, `Rm` | `adopt`, `place`, `activate`, `prune`, one file or directory a step |
| `Trigger`, `Mark`, `Wait`, `Close`, `Free` | `trigger`, `execute` |
| `Bootstrap`, `Reconcile`, `Startup` | `bootstrapFirstImage`, `reconcileStaleBuild`, `start` |
| `Unpack`, `WriteKernel`, `Remove`, `Pack`, `Stamp`, `GiveUp` | `refresh-live-image.sh`, `build-live-image.sh` |
| `Poll` | the heal on a pinned fetch (`ensureActiveBuild`) |
| `made`, `modules`, `firsts` | history: what each build was when it was published, the kernel its rootfs has modules for, first builds started |
| `crossed`, `odd`, `torn`, `lost` | history: the exceptions of section 7 |

`update` (module `MCUpkeep`) has three stories.

| Story | Instance | Shows |
|---|---|---|
| "agent" | versions 1, 2, 3, any of them bad but the image's, either kind of box, 4 troubles | UpdateGuarded: a build that has not stayed up has its marker (or is about to) and a proven backup; NoRetreat: a proven build is never rolled back; BadGoes, GoodComes under fairness |
| "fresh" | an empty depot, 3 builds, one crash, rebuilds and settings | RowHonest: the first image is asked for once, and "running" ends |
| "kept" | two builds and a third to come, 2 requests, one crash, at most 2 kept | DepotKept: a kept build is the build it was; BuildsPinned: what is served whole is in the end filed |

Three versions are what an update during an update needs; three builds with two kept
make one prune. Fairness: `Restart=always` and the agent's own timers; in the depot
the store and disk answer and the server comes back, in "fresh" a script ends (the
hook has a time limit), in "kept" boxes keep polling. Each is stated for its own story,
since the other half of the state does not move there. `CHECK_DEADLOCK FALSE`:
requests and builds run out.

## 7. What the code does that its text does not say

Two disagreements have runs, `panel_missed_wake` and `channel_replay` (see
`findings`). The rest is listed here: what TLC exhibits when an operation or an input
that the instances leave out is put back (in `Events`, `Ops` or a story), what an
exception in a property stands for, and what reading the code showed and no model
has (marked "read").

**Panel power, layout, scheduler**

- A refused wake (`refuse`): noteRefused deletes the record and the next tick
  takes the verdict for a first sight, so nothing is sent again, although
  `panel-power.ts:331` says so. Violates NeverStrandedInHours.
- A refusal that arrives after a later sleep was recorded (`hotplug` in
  "hello") deletes that record, and the panel is never released.
- A screen taken off its wall while asleep is visited by no tick
  (NeverStrandedUngoverned leaves unplaced screens out).
- A panel slept by the schedule, woken and slept again by hand, is woken when its
  window is deleted, since the schedule's record is still there
  (`panel-power.ts:56` says a hand-slept screen has none).
- A reconnect that overlaps a half-open socket has no offline edge
  (`halfopen` in "console"): a lit panel is shown asleep.
- Clearing a screen or a wall (`clear`) judges no badge, although `state.ts:4932`
  says that every mutator that can move the wall does; nor does `moveTargets`
  (`move`, `slide`). Violates BadgeHonest.
- `wallBrokenByPlacement` compares rectangles and not murals, so a member can be
  dragged to another mural (`transfer` with two murals) and stay in its wall,
  although `state.ts:3685` says a single-screen drag can never leave a wall with a
  hole. Violates WallWhole.
- The ticker records a verdict before it awaits the apply. An apply that throws
  (`fail` in "lands") is not tried again before the next boundary; the
  comment at `scheduler.ts:164` relies on the next tick resolving every mural from
  scratch. Violates VerdictLands.
- Switching the scheduler off and on while a tick is applying goes unseen, both
  kicks being skipped: nothing is asserted again, which `scheduler.test.ts:212`
  expects of a tick between the two; and a switch-off does not stop the applies a
  running tick has left. (No property states this.)
- A rejected write (`fail`) ends a handler before it judges. Violates BadgeHonest.
- A judge resumes with a badge read before its await, and can clear one earned
  meanwhile by an apply of another client (two murals, two clients).
- diffScene keeps a saved wall whose middle screen is gone; apply does not
  (`forget` with three screens). A scene takes back a screen that is walled on
  another mural without taking it out of that wall (`combine` with two murals).
- Two clients that drag and combine leave a wall with a hole, since moveTargets
  awaits between its writes.
- Sliding a member inside its wall leaves the pieces of all members as they were.
- A screen placed while its mural is being deleted (two clients) stays on it.
- Two packing combines that overlap put one screen in two walls: the check of
  membership and the creation of the wall have an await between them
  (`state.ts:3228`), although `state.ts:2348` says that membership is exclusive.
  `mural_races` leaves `pack` out.
- Two power commands for one connector run concurrently on the box
  (`agent/src/index.ts:1227`, read): the later one need not win.
- A crash between the row writes of unplacing a wall's member (`state.ts:2255`,
  read) leaves a wall in the store with a member that is not placed.

**Enrolment**

- A rejected machine can be admitted: a hello that was let past before the reject
  writes its status after it, and a box that presents its credential is
  admitted again (RejectedIsTerminal; `state.ts:1502`, `enroll.ts:461` call it
  terminal). RejectedStays excepts hellos under way. In the same way a pending hello
  is answered after an approval it did not see, and a stale enrolling hello takes an
  approval back (`overtaken`).
- A socket that closes while a certificate is being signed enters the hub afterwards
  (`ws.ts:540`); removing a machine forgets its count with sockets still open
  (`admin.ts:498`; `forgotten`).
- Read: two concurrent changes of the bake flag leave two baked tokens or none
  (`enroll.ts:359`, 384: "exactly one"); a deleted last token is created anew at
  the next restart (`index.ts`, the seeding of a token); pre-registration and
  setMachineCredential write rows of a machine that was removed meanwhile; a box
  that never received its credential does not keep running when its token is
  revoked (`enroll.ts:352`).

**Fleet logs**

- A failed append leaves its seqs in the dedupe memory (`logs.ts:265`): the batch is
  refused, sent again, taken for duplicates and acked unwritten. A batch sent again
  while its first append is pending is acked before that append (`unlanded`).
- A spool file cut by a power loss restarts the numbering (`logger.ts:318`), and
  new lines share seqs with stored ones (SeqsFresh fails; Accounted excepts them).
- The dedupe memory (2,000 seqs, `logs.ts:104`) is smaller than the spool (20,000
  lines, `logger.ts:46`). When a socket drops with more lines stored and not yet acked
  than the memory holds, the oldest are sent again and stored twice, with no crash:
  the seqs that are forgotten first are the ones sent again first, although
  `logs.ts:325` calls them the safe ones to forget. Found when the proof of an
  earlier, unconditional claim failed; TLC shows it with a spool of four and a memory
  of two.
- A send budget below the batch size would ship nothing (`SizesAssumption`).

**Player's prober and the content channel**

- `painted[id]` outlives its surface, and ids are stable: a region taken away and
  brought back shows what an earlier life proved (GlassAsProved without the
  constraint of `MCSurfaceProber`), and as the sequence number starts again an old
  probe can pass for a new one.
- A brief hint that is coalesced with a full one, or that spares a re-fetch, drops a
  reload that was owed (HealNeverDropped in "brief").
- Requests that cross on a screen push in the order in which they end, so the wall
  may keep the older content until its next push (`raced`).
- A crash in the middle of deleting a source brings part of it back; the record of
  a screen's previous source stays (`source-health.ts:76`); switching to a source with
  the same url reports nothing; a failed upsert of content leaves memory ahead of
  the store (read); `suppressEmit` is shared across awaits (`state.ts:3529`, read).

**Agent self-update** (`spoilt` stands for (b) to (e))

- (a) What was attempted is remembered by the process (`index.ts:1595`): a box that
  was rolled back is offered the same bad version again, and swaps again (Settles).
- (b) A kill between the swap and the marker leaves a bad build that nobody counts.
- (c) The script may answer after the agent's 180 s (its unit allows five
  minutes), and swaps without a marker.
- (d) The answer to a commit's request can be read as the swap's.
- (e) An update accepted before the last one is committed backs up an unproven build.
- (f) A failed download is not tried again until the process restarts.
- (g) When the script fails it removes whatever request and stage are there (read).

**Image depot**

- activate does not look at `running` (`image-updates.ts:351`): a rollback during a
  rebuild leaves a root of two builds, or the id of the new build over the old payload,
  which a box then boots again and again to reach (`crossed`).
- "The active build is never pruned" (`image-updates.ts:141`, 515) does not hold of a
  build that is activated between prune's listing and its rm (`crossed`).
- Activating an older build before the published one is filed loses the latter.
- A crash in the middle of adopt leaves a directory that counts as filed, since the
  payload is placed first, and has no kernel (`torn`); activating it takes the
  root's kernel away.
- A full build writes the kernel into the depot before the image is sealed
  (`build-live-image.sh:529`), and removes the old payload before it writes the new
  one (565): a failure in between leaves a new kernel beside an old or no rootfs. The
  next refresh publishes it, although `refresh-live-image.sh` says that the published
  vmlinuz and initrd keep matching the rootfs's modules (`odd`).
- refresh writes the id before SHA256SUMS (read): a heal in between files the old sums.
- Every writer of the row writes back what it read: saving the settings during the
  bootstrap erases the claim (`store/types.ts`: "never cleared") or puts "running"
  back (`lost`); promote does the same with rings (read).
- A crash between the claim and the build leaves a depot that is never filled.
- trigger and execute leave `running` set when a store write rejects (read).

## 8. Proofs

All of these hold for every value of the constants that their assumptions allow; TLC
evaluates the assumptions in the runs.

**PanelPowerProofs** (any screens, murals, machines, events and bound):

- `SessionInvariant`: the inductive invariant `SessionInv`, that is `TypeOK`,
  `AsleepOnlyOnline`, and `FramesNeedLink` (no frame is in flight to or from a box
  without a working socket). The last is what makes `AsleepOnlyOnline` inductive:
  without it a late ack could bring a sleep back after the close handler has
  forgotten it.
- `TypeCorrect`, `NoGhostSleep`: `TypeOK` and `AsleepOnlyOnline`.
- `ManualOverrideHolds`: the action property `OverrideHolds`. Its invariant
  `OverrideInv` adds that every overridden screen is `Undisturbed`: its box has no
  hello under way, the memory agrees with the verdict of its wall, and so does
  the verdict the running tick has captured if it has still to visit that wall.
  `ApplyQuiet` then says that a pass over such a screen sends nothing.
- `NoWallStranded`: `WallsNotStranded`, in the boundary story of `MCPanelStories`. Its
  invariant `WallsInv` says that a panel in the schedule's sleep, or that will be once the
  commands under way to it are carried out, is one the memory knows it slept
  (`SleepsKnown`), so the next pass over it sees an edge. In that story sockets stay up
  and every command gets through; `panel_missed_wake` shows what happens otherwise.
- `SleepsShownAreDark`, `ConsoleIsHonest`: `AsleepMeansDark` in every behaviour
  without half-open sockets and re-created outputs, and `ConsoleHonest`, the same in the
  operators' story. `ConsoleInv` looks at what the console will show once the acks
  under way have been read (`Shows`): where that is asleep the panel is dark already.

**SceneScheduleProofs** (any clients, screens, murals, walls, scenes, operations):

- `RequestFramed`, `ResumeFramed`: the frame of every handler of `Murals`, step by
  step: a step of one client leaves the continuations of the others alone, changes
  no saved scene except by deleting it, and creates no mural.
- `ScheduleTypeCorrect`, `ScheduleIsAFloor`: `ScheduleTypeOK` and
  `SpeaksOncePerVerdict`, from the invariant `ScheduleInv`. Beside the types it says
  that every verdict in play is a scene of its own mural (`OwnScenes`), and that a
  mural already spoken on is remembered at its present verdict and that a running
  walk carries no other verdict for it (`Remembered`). Without the last a walk that
  began before an edit could overrule the tick's own later word.

**EnrollmentProofs** (any boxes, tokens, sockets, caps and bounds):

- `Invariant`: `EnrolInv`, that is `TypeOK`, `CountInv` (the count is the hub's
  sockets wherever nobody was removed with open ones) and `CapNearlyKept`. The cap is
  inductive because a token's uses and its hellos not yet counted are taken together:
  a hello moves from one to the other.
- `CapHolds`, `CountHolds`: the invariants `Registers` and `CountsSockets`;
  `RejectionHolds`: the action property `RejectedStays`.
- `SessionsHold`: `SessionsTrue`. Its invariant `SessionInv` says of the socket a box is
  on that it is its own and that how far its handler has got `Agrees` with the
  registry (a hello past an admission finds the machine approved, one past an
  enrolment or a touch finds it pending), or that the box was overtaken; and that
  once the handler is through, a disagreement has a request of the operator still
  on the desk that will tell the box, or close its socket when it is answered.

**LogShippingProofs** (any sizes with a batch within the budget, any number of lines,
drops and troubles):

- `ShippingIsARelay`: a calm behaviour of `LogShipping` implements
  `StoreAndForward`: every step is a step of the relay or a stutter under the
  mapping. Its invariant `CalmInv` says that what is in flight and on the wire is known
  by its seqs (`Known`), that seqs and lines correspond (`Matched`), and that a line
  the server remembers is stored or waits for the disk (`Traced`). Without the last
  an ack could take a line from the spool that nobody has.
- `LinesAreKept`: `LinesKept` in every behaviour, with restarts and failing disks. Its
  invariant `KeepInv` adds to `Accounted` that a seq the server remembers is that of a
  line that has landed (`Heard`), and that an ack in flight, or a batch on its way to
  one, vouches that some line of each of its seqs has (`Answered`), so that what leaves
  the spool on an ack is accounted for or shares its seq with a line that is; and that
  every seq stored or waiting is remembered or forgotten, and two appends hold the
  same line only if its seq was forgotten (`Remembered`).

**PlayerChannelProofs** (any screens, sources, sockets and requests):

- `RecordStaysSound`: `RecordSound`, from `SoundInv`, which adds `Wired`: a screen's
  page speaks on its own socket only, and frames exist only on live ones.
- `WritesGoThrough`: `WrittenThrough`, for any number of targets and requests. Its
  invariant `WriteInv` says that the library in the store holds the one in memory
  and what shows nothing is assigned nothing (`LibraryInv`); that a request writes only
  rows of screens it touched, and undoes only a source that has left the library
  (`Regular`); and that a screen that is not raced belongs to one request at most, whose
  row still to be written is what memory holds (`Stored`). The middle part makes the
  rest inductive: a delete writes to every row that names its source, and finds there
  nothing that memory still counts on.
- `WallsSettle`: `SettledRight`. `ShowInv` looks at what a page will show once it has
  the renders under way (`Final`): that is the slice unless a request has touched the
  screen and has its push to make. `TellInv` does the same upstream: what a page told
  is recorded, or is the last of its frames and behind a hello (`Told`), so that it is
  not dropped; a socket that has not greeted is about to (`Greets`).

**UpkeepProofs**, of the agent (any versions but the two marks for "none" and "torn", any
boot budget and number of troubles):

- `UpdateInvariant`: the inductive invariant `UpdateInv`, in five parts. `Ordered`
  says what is newer than what on the disk, in the process and among the builds that
  have stayed up; `Unproven` that a build whose marker still waits has not stayed up
  and is not the one that is staged; `Undone` that a rollback that may still be
  carried out, by a script that answers late too, finds a build nobody vouched for;
  `Guard` what an update in progress may count on as long as nothing voided the
  guard: until the script has installed the new build, the one on disk is proven.
- `UpdatesAreGuarded`: `UpdateGuarded`. `StableBuildStays`: the action property
  `NoRetreat`. The second needs `Undone`: a rollback request outlives the process that
  wrote it and meets whatever build is there when the script comes to it.

**UpkeepProofs**, of the depot (any number of builds from two on, of requests, crashes and
builds kept; over `MCSpec`, whose two depots are an empty one and one with two builds):

- `DepotInvariant`: the inductive invariant `DepotInv`. A kept build is true to what was
  published only because of what every step between two awaits still relies on:
  a rollback has laid out the files of its own build so far (`Desk`); a script past its
  first write has its own kernel at the root, or the one its parent's rootfs has the
  modules of (`Baked`); what is being filed is the published build and lies at the root
  (`Filed`); and a script makes a build that was not made before (`Fresh`). Each holds as
  long as no two of the three were at it at a time (`crossed`, section 7); that they are
  not is what the proof uses of `Crossing` in every step that touches the root.
- `BuildsAreKept`: `DepotKept`.
- `FirstImageOnce`: `OneFirstBuild`, the safety half of `RowHonest`. Its invariant is that
  the claim in the row tells whether the first build was started (`Claim`).

**SurfaceProberProofs** (any urls, spot checks, timer handles and events; over `MCSpec`,
whose two stories and reappearance rule are explained in 6.3):

- `ProberInvariant`: the inductive invariant `ProberInv`. While the surface is there,
  its page is `Sound` (types; the element shows what was proved, and past the proof
  that is the target; no probe is from the future) and has `OneMover`: either exactly
  one probe carries the current seq, or exactly one timer runs and the entry holds
  it, or a reload is queued; what the mover runs `Fits` the phase; a surface at rest
  has none. Each helper of the prober gets a lemma (`InvalidateStills`: a doubt
  overtakes every probe in flight; `PaintMoves`, `RequestReloadMoves`, ...: what starts
  from a still page leaves exactly one mover), and an action's proof composes them.
- `OneThreadOfDoubtHolds`, `GlassShowsWhatWasProved`, `HealsAreKept`: the invariants
  `OneThreadOfDoubt`, `GlassRight`, `HealNeverDroppedLong`. The last needs `OnItsWay`: an
  owed reload is behind a proof or in the queue, which brief hints (the other
  story) break, as section 7 says.

**MuralsProofs** (any clients, screens, murals, walls, scenes and cells; each theorem
names what it assumes):

- `MuralsTypeCorrect`: `TypeOK`, with everything in flight and every operation. Its
  invariant `TypeInv` also types what continuations carry. That a packed row stays on
  the line and has no gaps (`PackingIsContiguous`) would be an induction over the
  row's cells; the proof takes the least cell without a neighbour instead.
- `MembershipIsExclusive`: `ExclusiveMembership` for any number of clients. `pack` is
  not among the operations: two packings that overlap do put a screen in two walls
  (section 7).
- `BadgesAreHonest`: `BadgeHonest` for any number of clients and the operations of
  `JudgedOps`. Left out are those whose handler judges no badge or may not get to
  it, each a finding of section 7 (`clear`, `move`, `slide`, `fail`), and `unlist`, which
  judges nothing either and is honest for another reason (a source that is no longer
  in the library counts for nothing on both sides of the diff), which is only checked. Its
  invariant `BadgeInv`: a badge that does not stand is one that some handler in flight
  still owes a judgement, or that the apply that holds the fence will judge.
- `BadgesFallWhenDiverged`: the action property `BadgeOnlyWhenDiverged`, for one
  client or one mural; with two of each a judge resumes with a badge that has been
  replaced (section 7).
- `WallsAreWhole`, `LayoutStaysIntact`: `WallWhole` and `LayoutIntact`, for one client whose
  writes are not refused, without `transfer` and, unless there is only one mural,
  without `apply` (section 7 has the behaviours these conditions exclude). The
  invariant `WholeInv` says what may be missing while a handler is under way
  (`Ready`): before a dissolve only the wall of its screen may be torn; in the middle of
  a move the layout is the one its projection checked once the remaining spots are
  written; a packing row is contiguous once its remaining cells are; between
  the phases of an apply the walls left are those it has still to split, or none.
- `AppliesLand`: `ApplyLandsScene`, for one client, one mural and every write taken, and
  with no screen forgotten (a saved wall that lost its middle screen is in two regions;
  apply leaves it out and the judge takes the badge back, section 7). The invariant
  `LandInv` follows the apply phase by phase: the walls are gone before a screen is laid,
  every screen is in its place before a wall is combined (`Laid`), each wall combined so far
  is the scene's and shows what the scene has on it but for the one whose content is
  still to come (`Grouped`, `Combined`), and then each loose screen (`Dressed`). It rests on
  what a saved scene is (`SceneSound`: its walls are apart and in one region, the other
  screens loose), which holds because only whole murals are captured.
- `WallsShowTheirContent`: `SpanMatches`, for one client whose writes are taken, under the
  conditions of `WallsAreWhole` and without `nudge` and `slide`, which change where the
  pieces belong and send none (section 7). The invariant `SpreadInv` says of every step of a
  continuation which walls do not show their pieces yet and which screens still show a piece
  of a wall that is gone (`Spreading`): before a dissolve the wall of its screen, before a
  clear the members the split left, in the middle of a deletion those of the walls
  taken so far; and in the middle of a move the pieces are right for the spots the
  projection computed (`PieceShifted`: a wall moved as a whole keeps them).
- `EditsShowTheirContent`, `RacesBadgeHonestly`: the invariants `SpanMatchesEdits` and
  `BadgeHonestRaces` of the instances themselves. A story is a choice of requests that a
  behaviour keeps (`StoryGoesOn`), so the two invariants above carry over: the lemmas on
  steps are stated for any set of operations (`NextOf`), of which `Next` is one instance
  and a story another.

Only model-checked: every liveness property (fairness and ENABLED are out of the
provers' reach). Every invariant the passing runs check, and every action property without
fairness, is stated by a theorem, under the conditions each theorem names.

## 9. Not modelled

See the components of `PROJECT.json` with status `not_modelled` or `partly`, each
with its reason. In short:

- The schedule resolver, selectors, rollout rings and the wire schemas are pure
  functions; their tests compare them with references, and the modules take any
  answer they could give.
- Operator auth decides each request from stored rows without an await in between.
- Relays (DevTools, shell, screenshots, casting) are small protocols with timers that
  change no state of the modelled components.
- The console's views, page elements, provisioning templates, media and documents,
  compositors and browsers, and cryptography are rendering and I/O around the state
  modelled here. They are most of the lines of the repository, which is why the map of
  `PROJECT.json` covers a small part of it.
