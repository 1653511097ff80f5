------------------------------ MODULE MCMurals ------------------------------
(* Instances of Murals for TLC.  At its start a behaviour is given one of    *)
(* two stories, each with its own clients, murals, screens, scene ids and    *)
(* requests.                                                                *)
EXTENDS Murals, TLC

CONSTANTS c1, c2, s1, s2, s3, m1, m2, S1, S2, Stories

Told(clients, M, S, ids, ops) ==
    [clients |-> clients, murals |-> M, screens |-> S, scenes |-> ids, ops |-> ops]

EditStories ==
    [edits |-> Told({c1}, {m1}, {s1, s2}, {S1},
                    {"place", "unplace", "combine", "pack", "split", "assign", "unlist",
                     "snapshot", "apply", "unsave", "raze"}),
     walls |-> Told({c1}, {m1}, {s1, s2, s3}, {},
                    {"place", "nudge", "unplace", "forget", "combine", "pack", "split",
                     "assign", "clear", "move", "slide", "raze"})]

RaceStories ==
    [races |-> Told({c1, c2}, {m1}, {s1, s2}, {S1},
                    {"place", "unplace", "forget", "combine", "split", "assign", "snapshot", "apply"}),
     pairs |-> Told({c1}, {m1, m2}, {s1, s2}, {S1, S2},
                    {"place", "unplace", "assign", "snapshot", "apply", "fail"})]

ASSUME StoriesAssumption ==
    \A k \in DOMAIN Stories :
        /\ Stories[k].clients \subseteq Client /\ Stories[k].murals \subseteq Mural
        /\ Stories[k].screens \subseteq Screen /\ Stories[k].scenes \subseteq SceneId
        /\ Stories[k].ops \subseteq AllOps

VARIABLE story

Cast   == Stories[story]
MCVars == <<vars, story>>

MCInit == story \in DOMAIN Stories /\ InitWith(Cast.murals, Cast.screens)
MCNext ==
    /\ \E c \in Cast.clients :
           RequestOf(c, Cast.ops) \/ Resume(c) \/ ("fail" \in Cast.ops /\ Fail(c))
    /\ \A id \in SceneId \ Cast.scenes : scenes'[id] = NoScene
    /\ UNCHANGED story

(* The store answers, with a row or with a refusal, in the story with the    *)
(* refusals.                                                                *)
PairsFairness == \A c \in Client : WF_vars(story = "pairs" /\ Resume(c))

MCSpec == MCInit /\ [][MCNext]_MCVars /\ PairsFairness

Screens == Permutations({s1, s2})

(* What the console says a wall shows is on its members, each with its piece *)
(* of it, as long as no member is nudged, moved or cleared by itself.        *)
SpanMatchesEdits == story = "edits" => SpanMatches

(* No badge lies once overlapping requests have finished and every write of  *)
(* theirs was taken; a refused one ends its handler before the judge.        *)
BadgeHonestRaces == story = "races" => BadgeHonest

(* The fence an apply raised comes down, also when a write is refused. *)
FenceLifted == story = "pairs" => FenceComesDown
=============================================================================
