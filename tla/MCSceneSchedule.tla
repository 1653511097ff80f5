-------------------------- MODULE MCSceneSchedule --------------------------
(* The instance of SceneSchedule for TLC, with two stories.  "ticks": two    *)
(* murals, an operator who saves, applies and deletes scenes, and applies   *)
(* that fail.  "lands": one mural, whose screen is also placed and          *)
(* unplaced, and no failing apply.                                          *)
EXTENDS SceneSchedule

CONSTANT First      \* the mural of the second story

VARIABLE story

StoryOps == IF story = "ticks" THEN Ops \ {"place", "unplace"} ELSE Ops \ {"fail"}

MCInit ==
    \/ story = "ticks" /\ ScheduleInit
    \/ story = "lands" /\ ScheduleInitWith({First})
MCNext ==
    /\ \/ Tick \/ TickOn
       \/ story = "ticks" /\ TickFails
       \/ Boundary \/ Switch \/ Restart
       \/ \E c \in Client : OthersWith(c, StoryOps)
    /\ UNCHANGED story
MCSpec == MCInit /\ [][MCNext]_<<allVars, story>> /\ TickerFairness

(* A verdict the ticker has not acted on reaches the wall (VerdictLands), as *)
(* long as no apply fails: one that does is not tried again.                *)
VerdictLandsUnlessFailed == story = "lands" => \A id \in SceneId : LandsOn(First, id)
=============================================================================
