----------------------------- MODULE ImageDepot -----------------------------
(***************************************************************************)
(* The image depot of one architecture: server/src/image-updates.ts, the     *)
(* routes that serve it and the build scripts under deploy/ it starts.       *)
(*                                                                         *)
(* Boxes netboot what lies at the depot's root, under the id published       *)
(* there.  Every build is also kept in a directory of its own: a build is    *)
(* filed there after it was published (adopt), an older one is laid out at   *)
(* the root again to roll the fleet back (activate), and the oldest are      *)
(* dropped (prune).  The server's threads interleave at every await; the     *)
(* scripts run beside them, and a crash of the server ends its threads but   *)
(* not always the script.  A row in the store remembers the last rebuild     *)
(* and that the first image was asked for; every writer of it writes back    *)
(* all of the row it read.                                                  *)
(***************************************************************************)
EXTENDS Naturals, Sequences, FiniteSets

CONSTANTS
    MaxBuilds,      \* bound: builds the scripts make
    Retain,         \* IMAGE_RETAIN_BUILDS
    MaxAsks,        \* bound: requests of operators, and builds nobody here asked for
    MaxTroubles     \* bound: crashes of the server

Build    == 1 .. MaxBuilds      \* by age: an id and an mtime never go back
File     == {"rootfs", "kernel"}
None     == 0

(* Mutant: every file linked. *)
AllShareable == File

(* rootfs.squashfs is always replaced by a new inode; vmlinuz and the initrds *)
(* ("kernel") are written in place.                                          *)
Shareable == {"rootfs"}

Thread == {"boot", "build", "desk", "card", "poll"}

VARIABLES
    root,           \* the files at the depot's root: the build they came with
    published,      \* image-id.txt
    dirs,           \* builds/<id>/
    shared,         \* <<build, file>> that is the same inode as the root's
    script,         \* the rebuild script: its next step, kind, build and parent
    row,            \* the stored ImageRollout
    saw,            \* the row each thread last read
    todo,           \* what is left of each thread
    up, running,    \* the server, and its flag of a rebuild in flight
    left,           \* the bounds
    made,           \* what each build consisted of when its id was published
    modules,        \* the kernel each build's rootfs has the modules of
    firsts,         \* first-image builds started
    torn,           \* builds whose filing a crash cut short
    odd,            \* refreshes of a root that was no build as published
    crossed,        \* the root was changed by two at once, or before it was filed
    lost            \* a write of the row undid another's

disk    == <<root, published, dirs, shared>>
history == <<made, modules, firsts, torn, odd, lost>>
vars    == <<disk, script, row, saw, todo, up, running, left, history, crossed>>

Empty == [f \in File |-> None]

Kind  == {"refresh", "full"}
Row   == [status: {"none", "running", "success", "failure"}, claimed: BOOLEAN, full: BOOLEAN]
NoRow == [status |-> "none", claimed |-> FALSE, full |-> TRUE]
NoScript == [step |-> "idle", kind |-> "refresh", build |-> None, base |-> None, ours |-> FALSE]

-----------------------------------------------------------------------------
(* Threads: what is left of a handler between two awaits *)

Do(what)       == [do |-> what]
OnBuild(what, b) == [do |-> what, build |-> b]
OnFile(what, b, f) == [do |-> what, build |-> b, file |-> f]

Ahead(t, what) == {i \in DOMAIN todo[t] : todo[t][i].do = what}
At(t, what) == up /\ todo[t] # <<>> /\ Head(todo[t]).do = what
Continue(t, steps) == todo' = [todo EXCEPT ![t] = steps \o Tail(@)]

(* In the order of BUILD_ARTIFACTS: the payload first. *)
EachFile(what, b) == <<OnFile(what, b, "rootfs"), OnFile(what, b, "kernel")>>

Retaining == <<Do("adopt"), Do("prune")>>

Startup == Retaining \o <<Do("read"), Do("reconcile"), Do("bootstrap")>>
Rebuild(kind) ==
    <<Do("read"), [do |-> "mark", kind |-> kind], Do("wait"), Do("close")>>
        \o Retaining \o <<Do("free")>>
Rollback(b) == EachFile("relink", b) \o <<OnBuild("publish", b), Do("prune")>>

-----------------------------------------------------------------------------
(* The depot's directories *)

Kept == {b \in Build : dirs[b]["rootfs"] # None}

(* Mutant: filed at startup and after the server's own rebuilds only. *)
AdoptOwn(t) ==
    /\ At(t, "adopt")
    /\ Continue(t, IF published = None \/ published \in Kept \/ t = "poll" THEN <<>>
                   ELSE EachFile("copy", published))
    /\ UNCHANGED <<disk, script, row, saw, up, running, left, history>>

(* A directory with a payload is a build that was filed. *)
Adopt(t) ==
    /\ At(t, "adopt")
    /\ Continue(t, IF published = None \/ published \in Kept THEN <<>>
                   ELSE EachFile("copy", published))
    /\ UNCHANGED <<disk, script, row, saw, up, running, left, history>>

Copy(t) ==
    /\ At(t, "copy")
    /\ LET b == Head(todo[t]).build
           f == Head(todo[t]).file
       IN  IF root[f] = None THEN UNCHANGED <<dirs, shared>>
           ELSE /\ dirs' = [dirs EXCEPT ![b][f] = root[f]]
                /\ shared' = IF f \in Shareable THEN shared \cup {<<b, f>>}
                             ELSE shared \ {<<b, f>>}
    /\ Continue(t, <<>>)
    /\ UNCHANGED <<root, published, script, row, saw, up, running, left, history>>

(* A file the build does not have is taken off the root. *)
Relink(t) ==
    /\ At(t, "relink")
    /\ LET b == Head(todo[t]).build
           f == Head(todo[t]).file
       IN  /\ root' = [root EXCEPT ![f] = dirs[b][f]]
           /\ shared' = {x \in shared : x[2] # f}
                          \cup {x \in {<<b, f>>} : f \in Shareable /\ dirs[b][f] # None}
    /\ Continue(t, <<>>)
    /\ UNCHANGED <<published, dirs, script, row, saw, up, running, left, history>>

Publish(t) ==
    /\ At(t, "publish")
    /\ published' = Head(todo[t]).build
    /\ Continue(t, <<>>)
    /\ UNCHANGED <<root, dirs, shared, script, row, saw, up, running, left, history>>

(* Past the newest Retain ones, as listed; the published one is spared. *)
Newer(b) == {d \in Kept : d > b}
Doomed   == {b \in Kept : Cardinality(Newer(b)) >= Retain /\ b # published}

Prune(t) ==
    /\ At(t, "prune")
    /\ Continue(t, IF Doomed = {} THEN <<>> ELSE <<[do |-> "rm", builds |-> Doomed]>>)
    /\ UNCHANGED <<disk, script, row, saw, up, running, left, history>>

(* One rm after the other, the newest of them first. *)
Rm(t) ==
    /\ At(t, "rm")
    /\ LET D == Head(todo[t]).builds
       IN  \E b \in D :
              /\ \A d \in D : d <= b
              /\ dirs' = [dirs EXCEPT ![b] = Empty]
              /\ shared' = {x \in shared : x[1] # b}
              /\ Continue(t, IF D = {b} THEN <<>> ELSE <<[do |-> "rm", builds |-> D \ {b}]>>)
    /\ UNCHANGED <<root, published, script, row, saw, up, running, left, history>>

-----------------------------------------------------------------------------
(* The row: every writer writes back the row it read, changed *)

Read(t) ==
    /\ At(t, "read")
    /\ saw' = [saw EXCEPT ![t] = row]
    /\ Continue(t, <<>>)
    /\ UNCHANGED <<disk, script, row, up, running, left, history>>

Write(t, r) ==
    /\ row' = r
    /\ saw' = [saw EXCEPT ![t] = NoRow]
    /\ lost' = (lost \/ row # saw[t])

(* The row it read is of no more use. *)
Drop(t) ==
    /\ saw' = [saw EXCEPT ![t] = NoRow]
    /\ UNCHANGED <<row, lost>>

(* The build's thread, started by the one of the startup. *)
FirstBuild(t) ==
    /\ running' = TRUE
    /\ firsts' = firsts + 1
    /\ todo' = [todo EXCEPT ![t] = Tail(@), !["build"] = Rebuild("full")]

Close(t) ==
    /\ At(t, "close")
    /\ \E s \in {"success", "failure"} :
           /\ script.step = s
           /\ Write(t, [saw[t] EXCEPT !.status = s])
    /\ script' = NoScript
    /\ Continue(t, <<>>)
    /\ UNCHANGED <<disk, up, running, left, made, modules, firsts, torn, odd>>

(* Mutant: no reconciliation at startup. *)
ReconcileNothing(t) ==
    /\ At(t, "reconcile")
    /\ saw' = [saw EXCEPT ![t] = row]
    /\ Continue(t, <<>>)
    /\ UNCHANGED <<disk, script, row, up, running, left, history>>

(* A row that says "running" at startup was left by a process that is gone.  *)
(* Then it is read again.                                                    *)
Reconcile(t) ==
    /\ At(t, "reconcile")
    /\ IF running \/ saw[t].status # "running" THEN UNCHANGED <<row, lost>>
       ELSE /\ row' = [saw[t] EXCEPT !.status = "failure"]
            /\ lost' = (lost \/ row # saw[t])
    /\ saw' = [saw EXCEPT ![t] = row']
    /\ Continue(t, <<>>)
    /\ UNCHANGED <<disk, script, up, running, left, made, modules, firsts, torn, odd>>

(* The first image: claimed in the row before anything is built. *)
Bootstrap(t) ==
    /\ At(t, "bootstrap")
    /\ IF saw[t].claimed \/ published # None \/ ~saw[t].full
              \/ running \/ saw[t].status = "running"
       THEN Continue(t, <<>>) /\ Drop(t) /\ UNCHANGED <<running, firsts>>
       ELSE Write(t, [saw[t] EXCEPT !.claimed = TRUE]) /\ FirstBuild(t)
    /\ UNCHANGED <<disk, script, up, left, made, modules, torn, odd>>

-----------------------------------------------------------------------------
(* Rebuilds *)

(* The operator's button, or the schedule's minute: not while a rebuild is  *)
(* running.  Its thread goes on by itself.                                   *)
Trigger(kind) ==
    /\ up /\ ~running /\ left.asks > 0
    /\ running' = TRUE
    /\ todo' = [todo EXCEPT !["build"] = Rebuild(kind)]
    /\ left' = [left EXCEPT !.asks = @ - 1]
    /\ UNCHANGED <<disk, script, row, saw, up, history>>

(* One script at a time: bound on what two of them would do to one root. *)
Begin(kind, ours) ==
    /\ script.step = "idle"
    /\ script' = [step |-> IF left.builds = 0 THEN "failure"
                           ELSE IF kind = "full" THEN "kernel" ELSE "unpack",
                  kind |-> kind, build |-> MaxBuilds - left.builds + 1, base |-> None, ours |-> ours]

Mark(t) ==
    /\ At(t, "mark")
    /\ Write(t, [saw[t] EXCEPT !.status = "running"])
    /\ Begin(Head(todo[t]).kind, TRUE)
    /\ left' = [left EXCEPT !.builds = IF @ = 0 THEN 0 ELSE @ - 1]
    /\ Continue(t, <<>>)
    /\ UNCHANGED <<disk, up, running, made, modules, firsts, torn, odd>>

(* A rebuild Job run by hand: no thread of the server waits for it. *)
External(kind) ==
    /\ left.asks > 0 /\ left.builds > 0
    /\ Begin(kind, FALSE)
    /\ left' = [left EXCEPT !.asks = @ - 1, !.builds = @ - 1]
    /\ UNCHANGED <<disk, row, saw, todo, up, running, history>>

Over(result) == script' = IF script.ours THEN [script EXCEPT !.step = result] ELSE NoScript

(* The root is the published build, whole. *)
Served == published # None /\ root = made[published]

(* refresh-live-image.sh starts from the payload at the root. *)
Unpack ==
    /\ script.step = "unpack"
    /\ IF root["rootfs"] = None
       THEN Over("failure") /\ UNCHANGED history
       ELSE /\ script' = [script EXCEPT !.step = "pack", !.base = root["rootfs"]]
            /\ odd' = IF Served /\ published \notin odd THEN odd ELSE odd \cup {script.build}
            /\ UNCHANGED <<made, modules, firsts, torn, lost>>
    /\ UNCHANGED <<disk, row, saw, todo, up, running, left>>

(* cp -f truncates: every directory that shares the file gets the new one. *)
WriteKernel ==
    /\ script.step = "kernel"
    /\ root' = [root EXCEPT !["kernel"] = script.build]
    /\ dirs' = [b \in Build |-> IF <<b, "kernel">> \in shared
                                THEN [dirs[b] EXCEPT !["kernel"] = script.build] ELSE dirs[b]]
    /\ script' = [script EXCEPT !.step = "pack"]
    /\ UNCHANGED <<published, shared, row, saw, todo, up, running, left, history>>

(* A full build takes the old payload away before it writes its own: a file *)
(* that is not whole counts as none.                                        *)
Remove ==
    /\ script.step = "pack" /\ script.kind = "full" /\ root["rootfs"] # None
    /\ root' = [root EXCEPT !["rootfs"] = None]
    /\ shared' = {x \in shared : x[2] # "rootfs"}
    /\ UNCHANGED <<published, dirs, script, row, saw, todo, up, running, left, history>>

Pack ==
    /\ script.step = "pack"
    /\ script.kind = "full" => root["rootfs"] = None
    /\ root' = [root EXCEPT !["rootfs"] = script.build]
    /\ shared' = {x \in shared : x[2] # "rootfs"}
    /\ modules' = [modules EXCEPT ![script.build] =
                      IF script.kind = "full" THEN script.build ELSE modules[script.base]]
    /\ script' = [script EXCEPT !.step = "stamp"]
    /\ UNCHANGED <<published, dirs, row, saw, todo, up, running, left, made, firsts, torn, odd, lost>>

Stamp ==
    /\ script.step = "stamp"
    /\ published' = script.build
    /\ made' = [made EXCEPT ![script.build] = root]
    /\ Over("success")
    /\ UNCHANGED <<root, dirs, shared, row, saw, todo, up, running, left, modules, firsts, torn, odd, lost>>

(* It fails, or is killed at its time limit; or finds nothing to upgrade. *)
GiveUp ==
    /\ script.step \in {"kernel", "unpack", "pack", "stamp"}
    /\ \E result \in {"failure"} \cup {r \in {"success"} : script.kind = "refresh" /\ script.step = "pack"} :
           Over(result)
    /\ UNCHANGED <<disk, row, saw, todo, up, running, left, history>>

(* The script is over, and the row is read again. *)
Wait(t) ==
    /\ At(t, "wait")
    /\ script.step \in {"success", "failure"}
    /\ saw' = [saw EXCEPT ![t] = row]
    /\ Continue(t, <<>>)
    /\ UNCHANGED <<disk, script, row, up, running, left, history>>

Free(t) ==
    /\ At(t, "free")
    /\ running' = FALSE
    /\ Continue(t, <<>>)
    /\ UNCHANGED <<disk, script, row, saw, up, left, history>>

-----------------------------------------------------------------------------
(* Requests, boxes, and the life of the process *)

Idle(t) == up /\ todo[t] = <<>>
Asked == left' = [left EXCEPT !.asks = @ - 1] /\ left.asks > 0

(* Any retained build can be made the fleet's, also while a rebuild runs. *)
Activate(b) ==
    /\ Idle("desk") /\ b \in Kept /\ Asked
    /\ todo' = [todo EXCEPT !["desk"] = Rollback(b)]
    /\ UNCHANGED <<disk, script, row, saw, up, running, history>>

(* PUT settings/image: the switch of the full rebuilds. *)
UpdateSettings ==
    /\ Idle("card") /\ Asked
    /\ todo' = [todo EXCEPT !["card"] = <<Do("read"), Do("save")>>]
    /\ UNCHANGED <<disk, script, row, saw, up, running, history>>

Save(t) ==
    /\ At(t, "save")
    /\ \E on \in BOOLEAN : Write(t, [saw[t] EXCEPT !.full = on])
    /\ Continue(t, <<>>)
    /\ UNCHANGED <<disk, script, up, running, left, made, modules, firsts, torn, odd>>

(* A box asks for its pinned build, and there is no such file. *)
Poll ==
    /\ Idle("poll") /\ published # None /\ published \notin Kept
    /\ todo' = [todo EXCEPT !["poll"] = <<Do("adopt")>>]
    /\ UNCHANGED <<disk, script, row, saw, up, running, left, history>>

Cut == {b \in Kept : \E t \in Thread : \E i \in Ahead(t, "copy") : todo[t][i].build = b}

(* The script goes down with the server, or is a Job that outlives it. *)
Crash ==
    /\ up /\ left.troubles > 0
    /\ left' = [left EXCEPT !.troubles = @ - 1]
    /\ up' = FALSE
    /\ running' = FALSE
    /\ todo' = [t \in Thread |-> <<>>]
    /\ saw' = [t \in Thread |-> NoRow]
    /\ \/ script' = NoScript
       \/ /\ script.step \in {"kernel", "unpack", "pack", "stamp"}
          /\ script' = [script EXCEPT !.ours = FALSE]
    /\ torn' = torn \cup Cut
    /\ UNCHANGED <<disk, row, made, modules, firsts, odd, lost>>

Start ==
    /\ ~up
    /\ up' = TRUE
    /\ todo' = [todo EXCEPT !["boot"] = Startup]
    /\ UNCHANGED <<disk, script, row, saw, running, left, history>>

-----------------------------------------------------------------------------
(* Of the three things that take files from the root or change it, two at a  *)
(* time: a rollback, a script between its first write and its id, and the    *)
(* filing of what is published, which begins anew when it is pruned.         *)
Relinking == Ahead("desk", "publish") # {}
Midway    == script.step \in {"pack", "stamp"}
Filing    == \/ published # None /\ published \notin Kept
             \/ \E t \in Thread : \/ Ahead(t, "copy") # {}
                                 \/ \E i \in Ahead(t, "rm") : published \in todo[t][i].builds
Crossing  == \/ Relinking /\ (Midway \/ Filing)
             \/ Midway /\ Filing
Watch     == crossed' = (crossed \/ Crossing')

InitWith(n) ==
    /\ root = IF n = 0 THEN Empty ELSE [f \in File |-> n]
    /\ published = n
    /\ dirs = [b \in Build |-> IF b <= n THEN [f \in File |-> b] ELSE Empty]
    /\ shared = {<<b, "rootfs">> : b \in {n} \cap Build}
    /\ script = NoScript
    /\ row = [status |-> IF n = 0 THEN "none" ELSE "success", claimed |-> n # 0, full |-> TRUE]
    /\ saw = [t \in Thread |-> NoRow]
    /\ todo = [t \in Thread |-> <<>>]
    /\ up = (n # 0) /\ running = FALSE
    /\ left = [builds |-> MaxBuilds - n, asks |-> MaxAsks, troubles |-> MaxTroubles]
    /\ made = dirs
    /\ modules = [b \in Build |-> IF b <= n THEN b ELSE None]
    /\ firsts = 0
    /\ torn = {} /\ odd = {} /\ crossed = FALSE /\ lost = FALSE

Init == InitWith(0)

Resume(t) ==
    \/ Adopt(t) \/ Copy(t) \/ Relink(t) \/ Publish(t) \/ Prune(t) \/ Rm(t)
    \/ Read(t) \/ Mark(t) \/ Close(t) \/ Reconcile(t) \/ Bootstrap(t) \/ Save(t)
    \/ Wait(t) \/ Free(t)
Script   == Unpack \/ WriteKernel \/ Remove \/ Pack \/ Stamp \/ GiveUp
Operator == \/ \E kind \in Kind : Trigger(kind) \/ External(kind)
            \/ \E b \in Build : Activate(b)
            \/ UpdateSettings

Next ==
    /\ \/ \E t \in Thread : Resume(t)
       \/ Script \/ Operator \/ Poll \/ Crash \/ Start
    /\ Watch

Spec == Init /\ [][Next]_vars

-----------------------------------------------------------------------------
(* Properties *)

TypeOK ==
    /\ root \in [File -> 0 .. MaxBuilds] /\ published \in 0 .. MaxBuilds
    /\ dirs \in [Build -> [File -> 0 .. MaxBuilds]]
    /\ shared \subseteq Build \X File
    /\ row \in Row /\ saw \in [Thread -> Row]
    /\ up \in BOOLEAN /\ running \in BOOLEAN
    /\ firsts \in Nat

(* What a build's directory holds is what the build consisted of when it was *)
(* published, and its rootfs has the modules of its kernel: whatever was      *)
(* rebuilt, rolled back to, pruned or cut short by a crash meanwhile, a       *)
(* rollback brings back that build.  Excepted are a root changed by two at    *)
(* once (nothing keeps a rollback and a rebuild apart), and a refresh of a    *)
(* root that was not a build.                                               *)
HistoryTrue ==
    ~crossed =>
        /\ \A b \in Build, f \in File : dirs[b][f] \in {None, made[b][f]}
        /\ \A b \in Build : made[b] # Empty =>
              made[b]["rootfs"] = b /\ (b \notin odd => made[b]["kernel"] = modules[b])

(* What the depot serves whole is in the end filed whole, whoever published   *)
(* it: a box that pins the active build finds it, unless a crash cut its      *)
(* filing short.                                                            *)
Filed == dirs[published] = made[published] \/ published \in torn
PinnedServed == Served ~> (~Served \/ Filed)

(* The first image is asked for once, however often the server restarts,      *)
(* unless another writer of the row undid the claim.                        *)
OneFirstBuild == ~lost => firsts <= 1

(* A rebuild the row says is running ends in it, also when its server dies,   *)
(* unless another writer put back what it had read.                         *)
RowCloses == row.status = "running" ~> (row.status # "running" \/ lost)
=============================================================================
