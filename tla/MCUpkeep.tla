----------------------------- MODULE MCUpkeep -----------------------------
(* What keeps a box up to date, for TLC: the agent that replaces itself      *)
(* (AgentUpdate) and the depot of the images it boots (ImageDepot).  They     *)
(* share no state, and a behaviour moves one of them.  "agent": three         *)
(* releases on one box.  "fresh": an empty depot gets its first image.        *)
(* "kept": a depot with two builds is rebuilt, rolled back and pruned.        *)
EXTENDS AgentUpdate

CONSTANTS MaxBuilds, Retain, MaxAsks, MaxCrashes

(* The builds that the story of the kept depot begins with. *)
ASSUME BuildsAssumption == MaxBuilds \in Nat /\ MaxBuilds >= 2

VARIABLES
    root, published, dirs, shared, builder, row, saw, todo, up, running, bounds,
    made, modules, firsts, torn, odd, crossed, lost,    \* ImageDepot
    story

Depot == INSTANCE ImageDepot WITH
            script <- builder, left <- bounds, MaxTroubles <- MaxCrashes

depot ==
    <<root, published, dirs, shared, builder, row, saw, todo, up, running, bounds,
      made, modules, firsts, torn, odd, crossed, lost>>

MCInit ==
    /\ story \in {"agent", "fresh", "kept"}
    /\ Init
    /\ Depot!InitWith(IF story = "kept" THEN 2 ELSE 0)
    /\ story # "agent" => bad = {} /\ direct /\ left = 0

FreshOnly ==
    /\ todo'["desk"] = <<>> /\ bounds'.builds > 0 /\ bounds'.asks > 0
    /\ bounds'.asks < bounds.asks => builder' = builder
KeptOnly ==
    /\ todo'["card"] = <<>>
    /\ bounds'.troubles < bounds.troubles => \E t \in Depot!Thread : todo[t] # <<>>

MCNext ==
    /\ \/ story = "agent" /\ Next /\ UNCHANGED depot
       \/ story # "agent" /\ Depot!Next /\ UNCHANGED vars
    /\ story = "fresh" => FreshOnly
    /\ story = "kept" => KeptOnly
    /\ UNCHANGED story

(* The store and the disk answer, and a crashed server comes back.  A script *)
(* ends, by itself or killed at its time limit, where the row is watched, and *)
(* boxes go on asking where the builds are.                                  *)
DepotFairness ==
    /\ WF_depot(story # "agent" /\ ((\E t \in Depot!Thread \ {"poll"} : Depot!Resume(t)) \/ Depot!Start) /\ Depot!Watch)
    /\ WF_depot(story = "fresh" /\ Depot!Script /\ Depot!Watch)
    /\ WF_depot(story = "kept" /\ (Depot!Resume("poll") \/ Depot!Poll) /\ Depot!Watch)

MCSpec ==
    /\ MCInit /\ [][MCNext]_<<vars, depot, story>>
    /\ (story = "agent" => Fairness) /\ DepotFairness

(* Every variable is what it should be, and every build is kept as it was. *)
DepotKept == Depot!TypeOK /\ Depot!HistoryTrue

(* A bad release goes, and a good one comes to run.                          *)
BadGoes   == story = "agent" => RollsBack
GoodComes == story = "agent" => CatchesUp

(* What is served whole is in the end filed whole.                           *)
BuildsPinned == story = "kept" => Depot!PinnedServed

(* The first image is asked for once, however often the server restarts, and *)
(* a rebuild that the row says is running ends in it.                        *)
RowHonest == story = "fresh" => []Depot!OneFirstBuild /\ Depot!RowCloses
=============================================================================
