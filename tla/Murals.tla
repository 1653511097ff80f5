------------------------------- MODULE Murals -------------------------------
(***************************************************************************)
(* The layout half of the ControlPlane (server/src/state.ts): murals, the  *)
(* placements of screens on them, the video walls that combine screens,    *)
(* the content screens and walls show, the scenes saved from a mural and   *)
(* the badge that says which scene a mural is on.                          *)
(*                                                                         *)
(* A handler changes the memory it owns and then awaits the store; between *)
(* two awaits it is atomic, at an await any other handler may run.  todo[c] *)
(* is what the handler of client c has still to do: its continuation, one  *)
(* step per stretch between awaits.  A client is a console's request or    *)
(* the scheduler's apply; each has at most one handler in flight.          *)
(*                                                                         *)
(* Geometry is a line of unit cells: two screens touch when their cells    *)
(* are equal or neighbours (rectsInContact), and packing closes the gaps   *)
(* in order.  Sizes, zoom, audio and playlists are left out.               *)
(***************************************************************************)
EXTENDS Integers, Sequences, FiniteSets, Functions, FiniteSetsExt

CONSTANTS
    Client,         \* requests in flight at the same time, at most
    Screen,         \* the registered screens
    Mural,          \* the murals
    Source,         \* entries of the content library
    SceneId,        \* ids of saved scenes
    WallId,         \* ids of video walls (a bound on how many there are)
    NoMural, NoWall, NoScene, Dark,
    AdHoc,          \* content that is a url and no library entry
    LastCell,       \* the line of a mural is 0..LastCell
    Ops             \* which of AllOps the clients of this instance use

AllOps == {"place", "transfer", "nudge", "unplace", "forget", "combine", "pack", "split",
           "assign", "clear", "unlist", "move", "slide", "snapshot", "apply", "unsave",
           "raze", "fail"}

ASSUME OpsAssumption  == Ops \subseteq AllOps
ASSUME LineAssumption == LastCell \in Nat
ASSUME NullAssumption ==
    /\ NoMural \notin Mural /\ NoWall \notin WallId /\ NoScene \notin SceneId
    /\ Dark \notin Source /\ AdHoc \notin Source /\ Dark # AdHoc

VARIABLES
    murals,         \* the murals that exist
    screens,        \* the screens that exist
    at,             \* placements: [Screen -> Spot]
    walls,          \* videoWalls (with wallSourceIds)
    slice,          \* state.slices (with screenSourceIds)
    library,        \* contentSources
    scenes,         \* the saved scenes
    badge,          \* state.activeScenes
    fence,          \* applyingScene
    todo            \* what each client's handler has still to do

layout == <<murals, screens, at, walls, slice, library>>
vars   == <<layout, scenes, badge, fence, todo>>

-----------------------------------------------------------------------------
(* Types *)

Cell    == 0..LastCell
Tray    == [mural |-> NoMural, cell |-> 0]
Spot    == [mural : Mural, cell : Cell] \cup {Tray}
What    == Source \cup {AdHoc, Dark}
Wall    == [id : WallId, mural : Mural, members : SUBSET Screen, source : What]
Whole   == <<0, 1>>                     \* offset and extent of an unspanned surface
Shown   == [what : What, wall : WallId \cup {NoWall}, piece : Cell \X (1..LastCell + 1)]
Blank   == [what |-> Dark, wall |-> NoWall, piece |-> Whole]

IsScene(sc) ==
    /\ sc.mural \in Mural
    /\ sc.at \in [DOMAIN sc.at -> Cell] /\ DOMAIN sc.at \subseteq Screen
    /\ sc.walls \subseteq [members : SUBSET Screen, what : What]
    /\ sc.own \in [DOMAIN sc.own -> What] /\ DOMAIN sc.own \subseteq DOMAIN sc.at

TypeOK ==
    /\ murals \subseteq Mural
    /\ screens \subseteq Screen
    /\ at \in [Screen -> Spot]
    /\ walls \subseteq Wall
    /\ slice \in [Screen -> Shown]
    /\ library \subseteq Source
    /\ DOMAIN scenes = SceneId
    /\ \A id \in SceneId : scenes[id] = NoScene \/ IsScene(scenes[id])
    /\ badge \in [Mural -> SceneId \cup {NoScene}]
    /\ fence \in BOOLEAN
    /\ DOMAIN todo = Client

-----------------------------------------------------------------------------
(* Reading the layout *)

OnMural(m)  == {s \in Screen : at[s].mural = m}
WallsOn(m)  == {w \in walls : w.mural = m}
WallsOf(s)  == {w \in walls : s \in w.members}
Walled(s)   == WallsOf(s) # {}
WallOf(s)   == CHOOSE w \in WallsOf(s) : TRUE
HasId(id)   == {w \in walls : w.id = id}

Contiguous(cells) == cells = {} \/ cells = Min(cells)..Max(cells)
CellsOf(f, S)     == {f[s].cell : s \in S}

(* Mutant: the row is packed against its last screen. *)
PackedAfterLast(S) ==
    LET cells == CellsOf(at, S)
    IN  [s \in S |-> Max(cells) + Cardinality({c \in cells : c < at[s].cell})]

(* packRects on a line: the same order, butt to butt from the first one. *)
Packed(S) ==
    LET cells == CellsOf(at, S)
    IN  [s \in S |-> Min(cells) + Cardinality({c \in cells : c < at[s].cell})]

(* What a target shows, as the console and the diff label it: a source that *)
(* is no longer in the library counts for nothing.                          *)
Listed(what)     == IF what \in Source \ library THEN Dark ELSE what
Own(s)           == IF slice[s].wall = NoWall \/ slice[s].what = Dark
                    THEN slice[s].what ELSE AdHoc
WallContent(w)   == IF w.source # Dark THEN w.source
                    ELSE IF \E s \in w.members : slice[s].what # Dark THEN AdHoc ELSE Dark
ScreenContent(s) == IF Walled(s) THEN WallContent(WallOf(s)) ELSE Own(s)

-----------------------------------------------------------------------------
(* Scenes and the diff *)

Capture(m) ==
    LET walled == UNION {w.members : w \in WallsOn(m)} IN
    [mural |-> m,
     at    |-> [s \in OnMural(m) |-> at[s].cell],
     walls |-> {[members |-> w.members, what |-> WallContent(w)] : w \in WallsOn(m)},
     own   |-> [s \in OnMural(m) \ walled |-> Own(s)]]

(* diffScene(sc).identical: applying the scene would change nothing. *)
Identical(sc) ==
    LET m       == sc.mural
        wanted  == DOMAIN sc.at \cap screens
        kept    == {k \in {[members |-> w.members \cap wanted, what |-> w.what] : w \in sc.walls} :
                        Cardinality(k.members) >= 2}
        grouped == UNION {k.members : k \in kept}
        wants(s) == IF s \in DOMAIN sc.own THEN Listed(sc.own[s]) ELSE Dark
    IN  /\ m \in murals
        /\ \A s \in wanted : at[s] = [mural |-> m, cell |-> sc.at[s]]
        /\ \A s \in wanted \ grouped : Listed(ScreenContent(s)) = wants(s)
        /\ OnMural(m) \subseteq wanted
        /\ \A k \in kept : \E w \in WallsOn(m) :
               w.members = k.members /\ Listed(WallContent(w)) = Listed(k.what)
        /\ {w.members : w \in WallsOn(m)} \subseteq {k.members : k \in kept}

Stands(m, id) == scenes[id] # NoScene /\ Identical(scenes[id])

-----------------------------------------------------------------------------
(* Continuations *)

ApplyPhases == {"resplit", "omit", "lay", "regroup", "dress", "lower"}

Idle(c)     == todo[c] = <<>>
Judge       == [do |-> "judge"]
Clear(S)    == [do |-> "clear", screens |-> S]
Then(c, steps) == todo' = [todo EXCEPT ![c] = steps]

(* Ids are never reused: a wall's is fresh when no wall, no slice and no      *)
(* handler has it, a scene's when no scene, no badge and no handler has it.   *)
HasStep(P(_)) == \E c \in Client : \E i \in DOMAIN todo[c] : P(todo[c][i])
FreshWall ==
    {id \in WallId :
        /\ HasId(id) = {}
        /\ \A s \in Screen : slice[s].wall # id
        /\ ~HasStep(LAMBDA st : st.do = "respan" /\ st.wall = id)
        /\ ~HasStep(LAMBDA st : st.do \in {"resplit", "unlist"} /\ id \in st.left)}
FreshScene ==
    {id \in SceneId :
        /\ scenes[id] = NoScene
        /\ \A m \in Mural : badge[m] # id
        /\ ~HasStep(LAMBDA st : st.do \in ApplyPhases /\ st.id = id)
        /\ ~HasStep(LAMBDA st : st.do = "rejudge" /\ \E b \in st.left : b.id = id)}

Blanked(S) == [s \in Screen |-> IF s \in S THEN Blank ELSE slice[s]]

Spanned(w, what) ==
    LET here == {s \in w.members : at[s].mural = w.mural}
        from == Min(CellsOf(at, here))
        size == Max(CellsOf(at, here)) - from + 1
    IN  [s \in Screen |->
            IF s \in here
            THEN [what |-> what, wall |-> w.id, piece |-> <<at[s].cell - from, size>>]
            ELSE slice[s]]

-----------------------------------------------------------------------------
(* The badge's judge (reconcileActiveScene).  It walks the badges it found; *)
(* it awaits the store only where it clears one, so it judges any number of *)
(* badges that stand on the way to the next one that does not.              *)

Badges == {[mural |-> m, id |-> badge[m]] : m \in {k \in Mural : badge[k] # NoScene}}

(* Mutant: one badge that fell takes the others with it. *)
RejudgeAll(c, left, rest) ==
    /\ badge' = IF \A b \in left : Stands(b.mural, b.id) THEN badge
                ELSE [m \in Mural |-> NoScene]
    /\ Then(c, rest)

Rejudge(c, left, rest) ==
    LET fallen == {b \in left : ~Stands(b.mural, b.id)} IN
    \/ /\ fallen = {}
       /\ Then(c, rest)
       /\ UNCHANGED badge
    \/ \E b \in fallen, standing \in SUBSET (left \ fallen) :
        /\ badge' = [badge EXCEPT ![b.mural] = NoScene]
        /\ Then(c, <<[do |-> "rejudge", left |-> left \ (standing \cup {b})]>> \o rest)

JudgeStep(c, rest) ==
    /\ IF fence THEN Then(c, rest) /\ UNCHANGED badge
                ELSE Rejudge(c, Badges, rest)
    /\ UNCHANGED <<layout, scenes, fence>>

RejudgeStep(c, st, rest) ==
    /\ Rejudge(c, st.left, rest)
    /\ UNCHANGED <<layout, scenes, fence>>

-----------------------------------------------------------------------------
(* Placements *)

(* Mutant: a drag may tear a wall apart. *)
PlaceUnguarded(c, s, m, cell) ==
    /\ Idle(c) /\ s \in screens /\ m \in murals
    /\ at' = [at EXCEPT ![s] = [mural |-> m, cell |-> cell]]
    /\ Then(c, <<Judge>>)
    /\ UNCHANGED <<murals, screens, walls, slice, library, scenes, badge, fence>>

(* PUT /screens/:id/placement: refused when the wall of the screen would no *)
(* longer be one region.  Only the rectangles are compared, not the murals. *)
Place(c, s, m, cell) ==
    /\ Idle(c) /\ s \in screens /\ m \in murals
    /\ Walled(s) =>
        LET others == {t \in WallOf(s).members \ {s} : at[t] # Tray}
        IN  Contiguous({cell} \cup CellsOf(at, others))
    /\ at' = [at EXCEPT ![s] = [mural |-> m, cell |-> cell]]
    /\ Then(c, <<Judge>>)
    /\ UNCHANGED <<murals, screens, walls, slice, library, scenes, badge, fence>>

(* unplaceScreen: the placement goes, and after the store has it the wall   *)
(* the screen belongs to is dissolved.                                      *)
Unplace(c, s) ==
    /\ Idle(c) /\ s \in screens /\ at[s] # Tray
    /\ at' = [at EXCEPT ![s] = Tray]
    /\ Then(c, <<[do |-> "dissolve", screen |-> s]>>)
    /\ UNCHANGED <<murals, screens, walls, slice, library, scenes, badge, fence>>

(* Mutant: the badges are judged only where a wall was dissolved. *)
DissolveUnjudged(c, st, rest) ==
    /\ IF Walled(st.screen)
       THEN LET w == WallOf(st.screen) IN
            /\ walls' = walls \ {w}
            /\ Then(c, <<Clear(w.members), Judge>> \o rest)
       ELSE UNCHANGED walls /\ Then(c, rest)
    /\ UNCHANGED <<murals, screens, at, slice, library, scenes, badge, fence>>

Dissolve(c, st, rest) ==
    /\ IF Walled(st.screen)
       THEN LET w == WallOf(st.screen) IN
            /\ walls' = walls \ {w}
            /\ Then(c, <<Clear(w.members), Judge>> \o rest)
       ELSE UNCHANGED walls /\ Then(c, <<Judge>> \o rest)
    /\ UNCHANGED <<murals, screens, at, slice, library, scenes, badge, fence>>

ClearStep(c, st, rest) ==
    /\ slice' = Blanked(st.screens)
    /\ Then(c, rest)
    /\ UNCHANGED <<murals, screens, at, walls, library, scenes, badge, fence>>

(* removeScreen *)
Gone(c, s, members) ==
    /\ slice' = Blanked(members \cup {s})
    /\ at' = [at EXCEPT ![s] = Tray]
    /\ screens' = screens \ {s}

Forget(c, s) ==
    /\ Idle(c) /\ s \in screens
    /\ IF Walled(s)
       THEN LET w == WallOf(s) IN
            /\ walls' = walls \ {w}
            /\ Then(c, <<[do |-> "forget", screen |-> s, members |-> w.members], Judge>>)
            /\ UNCHANGED <<slice, at, screens>>
       ELSE /\ Gone(c, s, {})
            /\ Then(c, <<Judge>>)
            /\ UNCHANGED walls
    /\ UNCHANGED <<murals, library, scenes, badge, fence>>

ForgetStep(c, st, rest) ==
    /\ Gone(c, st.screen, st.members)
    /\ Then(c, rest)
    /\ UNCHANGED <<murals, walls, library, scenes, badge, fence>>

(* moveTargets: every target shifts by dx.  The check runs on a projection  *)
(* of all of it; the placements are then written one by one, an await after *)
(* each, with the values the projection computed.  No badge is judged.      *)
Shift(c, to, left, rest) ==
    \E s \in left :
        /\ at' = [at EXCEPT ![s] = to[s]]
        /\ Then(c, (IF left = {s} THEN <<>>
                    ELSE <<[do |-> "shift", to |-> to, left |-> left \ {s}]>>) \o rest)
        /\ UNCHANGED <<murals, screens, walls, slice, library, scenes, badge, fence>>

Move(c, m, S, dx) ==
    LET to == [s \in S |-> [mural |-> m, cell |-> at[s].cell + dx]]
        projected == [s \in Screen |-> IF s \in S THEN to[s] ELSE at[s]]
    IN  /\ Idle(c) /\ m \in murals
        /\ S # {} /\ S \subseteq screens \cap OnMural(m)
        /\ \A s \in S : to[s].cell \in Cell
        /\ \A w \in walls : w.members \cap S # {} =>
               Contiguous(CellsOf(projected, {s \in w.members : at[s] # Tray}))
        /\ Shift(c, to, S, <<>>)

-----------------------------------------------------------------------------
(* Walls *)

NewWall(c, m, S, id, rest) ==
    /\ walls' = walls \cup {[id |-> id, mural |-> m, members |-> S, source |-> Dark]}
    /\ Then(c, <<Clear(S), Judge>> \o rest)

(* Mutant: a screen of one wall can be taken into another. *)
CombinableAgain(m, S) ==
    /\ m \in murals /\ Cardinality(S) >= 2
    /\ S \subseteq screens \cap OnMural(m)

Combinable(m, S) ==
    /\ m \in murals /\ Cardinality(S) >= 2
    /\ S \subseteq screens \cap OnMural(m)
    /\ \A s \in S : ~Walled(s)

Combine(c, m, S) ==
    /\ Idle(c) /\ Combinable(m, S) /\ Contiguous(CellsOf(at, S))
    /\ \E id \in FreshWall : NewWall(c, m, S, id, <<>>)
    /\ UNCHANGED <<murals, screens, at, slice, library, scenes, badge, fence>>

(* A gappy selection is packed first, one write and one await per screen,   *)
(* and becomes a wall after the last, on the strength of the first check.   *)
PackOne(c, st, rest) ==
    \E s \in st.left :
        /\ at' = [at EXCEPT ![s] = [mural |-> st.mural, cell |-> st.to[s]]]
        /\ Then(c, <<[st EXCEPT !.left = @ \ {s}]>> \o rest)
        /\ UNCHANGED <<murals, screens, walls, slice, library, scenes, badge, fence>>

Pack(c, m, S) ==
    /\ Idle(c) /\ Combinable(m, S) /\ ~Contiguous(CellsOf(at, S))
    /\ PackOne(c, [do |-> "pack", mural |-> m, to |-> Packed(S), members |-> S, left |-> S], <<>>)

PackStep(c, st, rest) ==
    \/ PackOne(c, st, rest)
    \/ /\ st.left = {}
       /\ \E id \in FreshWall : NewWall(c, st.mural, st.members, id, rest)
       /\ UNCHANGED <<murals, screens, at, slice, library, scenes, badge, fence>>

(* Mutant: the members keep their piece of what the wall showed. *)
SplitWallUncleared(c, w, rest) ==
    /\ walls' = walls \ {w}
    /\ Then(c, <<Judge>> \o rest)
    /\ UNCHANGED <<murals, screens, at, slice, library, scenes, badge, fence>>

SplitWall(c, w, rest) ==
    /\ walls' = walls \ {w}
    /\ Then(c, <<Clear(w.members), Judge>> \o rest)
    /\ UNCHANGED <<murals, screens, at, slice, library, scenes, badge, fence>>

Split(c, w) == Idle(c) /\ SplitWall(c, w, <<>>)

-----------------------------------------------------------------------------
(* Content *)

(* setWallContent: the members still on the wall's mural show their piece. *)
SpanWall(c, w, what, rest) ==
    /\ slice' = Spanned(w, what)
    /\ walls' = (walls \ {w}) \cup {[w EXCEPT !.source = IF what \in Source THEN what ELSE Dark]}
    /\ Then(c, <<Judge>> \o rest)
    /\ UNCHANGED <<murals, screens, at, library, scenes, badge, fence>>

Spannable(w) == \E s \in w.members : at[s].mural = w.mural
Resolves(what) == what \in library \cup {AdHoc}

AssignWall(c, w, what) ==
    Idle(c) /\ Spannable(w) /\ Resolves(what) /\ SpanWall(c, w, what, <<>>)

ShowOn(c, s, what, rest) ==
    /\ slice' = [slice EXCEPT ![s] = [what |-> what, wall |-> NoWall, piece |-> Whole]]
    /\ Then(c, <<Judge>> \o rest)
    /\ UNCHANGED <<murals, screens, at, walls, library, scenes, badge, fence>>

AssignScreen(c, s, what) ==
    /\ Idle(c) /\ s \in screens /\ ~Walled(s) /\ Resolves(what)
    /\ ShowOn(c, s, what, <<>>)

(* clearScreenContent and clearWallContent: neither judges the badges. *)
ClearScreen(c, s) ==
    /\ Idle(c) /\ s \in screens /\ ~Walled(s)
    /\ slice' = Blanked({s})
    /\ UNCHANGED <<murals, screens, at, walls, library, scenes, badge, fence, todo>>

ClearWall(c, w) ==
    /\ Idle(c)
    /\ slice' = Blanked(w.members)
    /\ walls' = (walls \ {w}) \cup {[w EXCEPT !.source = Dark]}
    /\ UNCHANGED <<murals, screens, at, library, scenes, badge, fence, todo>>

(* deleteContentSource: the screens at once, then the walls with an await   *)
(* after each, then the library entry.                                      *)
Unspan(c, id, left, blanked, rest) ==
    \/ \E w \in walls :
        /\ w.id \in left
        /\ slice' = Blanked(blanked \cup w.members)
        /\ walls' = (walls \ {w}) \cup {[w EXCEPT !.source = Dark]}
        /\ Then(c, <<[do |-> "unlist", source |-> id, left |-> left \ {w.id}]>> \o rest)
        /\ UNCHANGED library
    \/ /\ {w \in walls : w.id \in left} = {}
       /\ slice' = Blanked(blanked)
       /\ library' = library \ {id}
       /\ Then(c, rest)
       /\ UNCHANGED walls

Unlist(c, id) ==
    /\ Idle(c) /\ id \in library
    /\ Unspan(c, id, {w.id : w \in {v \in walls : v.source = id}},
              {s \in Screen : slice[s].what = id /\ slice[s].wall = NoWall}, <<>>)
    /\ UNCHANGED <<murals, screens, at, scenes, badge, fence>>

UnlistStep(c, st, rest) ==
    /\ Unspan(c, st.source, st.left, {}, rest)
    /\ UNCHANGED <<murals, screens, at, scenes, badge, fence>>

-----------------------------------------------------------------------------
(* Scenes.  An apply runs the handlers above under the fence, in phases;    *)
(* each phase works through a set it read when the phase began.             *)

Snapshot(c, m, id) ==
    /\ Idle(c) /\ m \in murals
    /\ id \in FreshScene
    /\ scenes' = [scenes EXCEPT ![id] = Capture(m)]
    /\ UNCHANGED <<layout, badge, fence, todo>>

(* deleteScene: the badges that name it go with it. *)
Unsave(c, id) ==
    /\ Idle(c) /\ scenes[id] # NoScene
    /\ scenes' = [scenes EXCEPT ![id] = NoScene]
    /\ badge' = [m \in Mural |-> IF badge[m] = id THEN NoScene ELSE badge[m]]
    /\ UNCHANGED <<layout, fence, todo>>

Phase(name, st, left) == [do |-> name, id |-> st.id, scene |-> st.scene, left |-> left]
Rest(st, x) == [st EXCEPT !.left = @ \ {x}]
Enter(c, name, st, left, rest) ==
    /\ st.left = {}
    /\ Then(c, <<Phase(name, st, left)>> \o rest)
    /\ UNCHANGED <<layout, badge, fence>>
Skip(c, st, x, rest) ==
    /\ Then(c, <<Rest(st, x)>> \o rest)
    /\ UNCHANGED <<layout, badge, fence>>

Apply(c, id) ==
    /\ Idle(c) /\ scenes[id] # NoScene /\ scenes[id].mural \in murals
    /\ fence' = TRUE
    /\ Then(c, <<[do |-> "resplit", id |-> id, scene |-> scenes[id],
                  left |-> {w.id : w \in WallsOn(scenes[id].mural)}]>>)
    /\ UNCHANGED <<layout, scenes, badge>>

(* 1. every wall of the mural is split, *)
Resplit(c, st, rest) ==
    \/ \E id \in st.left :
        IF HasId(id) = {} THEN Skip(c, st, id, rest)
        ELSE \E w \in HasId(id) : SplitWall(c, w, <<Rest(st, id)>> \o rest)
    \/ Enter(c, "omit", st, OnMural(st.scene.mural) \ DOMAIN st.scene.at, rest)

(* 2. the screens it leaves out are unplaced, the others placed, *)
(* Mutant: screens the scene leaves out stay where they are. *)
OmitNothing(c, st, rest) ==
    Enter(c, "lay", [st EXCEPT !.left = {}], DOMAIN st.scene.at, rest)

Omit(c, st, rest) ==
    \/ \E s \in st.left :
        IF at[s] = Tray THEN Skip(c, st, s, rest)
        ELSE /\ at' = [at EXCEPT ![s] = Tray]
             /\ Then(c, <<[do |-> "dissolve", screen |-> s], Rest(st, s)>> \o rest)
             /\ UNCHANGED <<murals, screens, walls, slice, library, badge, fence>>
    \/ Enter(c, "lay", st, DOMAIN st.scene.at, rest)

Lay(c, st, rest) ==
    \/ \E s \in st.left :
        IF s \notin screens \/ st.scene.mural \notin murals THEN Skip(c, st, s, rest)
        ELSE /\ at' = [at EXCEPT ![s] = [mural |-> st.scene.mural, cell |-> st.scene.at[s]]]
             /\ Then(c, <<Judge, Rest(st, s)>> \o rest)
             /\ UNCHANGED <<murals, screens, walls, slice, library, badge, fence>>
    \/ Enter(c, "regroup", st, st.scene.walls, rest)

(* 3. its walls are combined again and given their content, *)
Respan(id, what) == [do |-> "respan", wall |-> id, what |-> what]

Regroup(c, st, rest) ==
    \/ \E k \in st.left :
        LET m == st.scene.mural
            S == k.members \cap OnMural(m) \cap screens
        IN  IF ~Combinable(m, S) \/ ~Contiguous(CellsOf(at, S))
            THEN Skip(c, st, k, rest)
            ELSE /\ \E id \in FreshWall :
                        NewWall(c, m, S, id, (IF k.what = Dark THEN <<>> ELSE <<Respan(id, k.what)>>)
                                               \o <<Rest(st, k)>> \o rest)
                 /\ UNCHANGED <<murals, screens, at, slice, library, badge, fence>>
    \/ Enter(c, "dress", st, DOMAIN st.scene.own, rest)

RespanStep(c, st, rest) ==
    IF Resolves(st.what) /\ \E w \in HasId(st.wall) : Spannable(w)
    THEN \E w \in HasId(st.wall) : SpanWall(c, w, st.what, rest)
    ELSE Then(c, rest) /\ UNCHANGED <<layout, scenes, badge, fence>>

(* 4. and every screen outside a wall gets its own, or nothing when its     *)
(* source is gone.                                                          *)
Dress(c, st, rest) ==
    \/ \E s \in st.left :
        IF s \notin screens \/ Walled(s) THEN Skip(c, st, s, rest)
        ELSE ShowOn(c, s, IF Resolves(st.scene.own[s]) THEN st.scene.own[s] ELSE Dark,
                    <<Rest(st, s)>> \o rest)
    \/ /\ st.left = {}
       /\ badge' = [badge EXCEPT ![st.scene.mural] = st.id]
       /\ Then(c, <<[do |-> "lower", id |-> st.id]>> \o rest)
       /\ UNCHANGED <<layout, fence>>

(* 5. The fence comes down and the badges are judged once. *)
(* Mutant: nothing is judged after an apply. *)
LowerOnly(c, st, rest) ==
    /\ fence' = FALSE
    /\ Then(c, rest)
    /\ UNCHANGED <<layout, scenes, badge>>

Lower(c, st, rest) ==
    /\ fence' = FALSE
    /\ Rejudge(c, Badges, rest)
    /\ UNCHANGED <<layout, scenes>>

Applying(c) == \E i \in DOMAIN todo[c] : todo[c][i].do \in ApplyPhases

(* A write the store refuses: the handler is abandoned where it stands; an  *)
(* apply still lowers the fence (finally), but judges nothing.              *)
(* Mutant: an apply that fails leaves the fence up. *)
FailFenced(c) ==
    /\ ~Idle(c)
    /\ Then(c, <<>>)
    /\ UNCHANGED <<layout, scenes, badge, fence>>

Fail(c) ==
    /\ ~Idle(c)
    /\ Then(c, <<>>)
    /\ fence' = (fence /\ ~Applying(c))
    /\ UNCHANGED <<layout, scenes, badge>>

-----------------------------------------------------------------------------
(* deleteMural: its walls, then the slices of their members, then its       *)
(* placements, its badge and the mural itself; an await after every row.    *)

(* No await when there is no badge to clear. *)
Evict(c, m, placed, rest) ==
    IF placed # {}
    THEN \E s \in placed :
         /\ at' = [at EXCEPT ![s] = Tray]
         /\ Then(c, <<[do |-> "evict", mural |-> m, left |-> placed \ {s}]>> \o rest)
         /\ UNCHANGED <<murals, badge>>
    ELSE /\ UNCHANGED at
         /\ IF badge[m] # NoScene
            THEN /\ badge' = [badge EXCEPT ![m] = NoScene]
                 /\ Then(c, <<[do |-> "close", mural |-> m]>> \o rest)
                 /\ UNCHANGED murals
            ELSE /\ murals' = murals \ {m}
                 /\ Then(c, <<Judge>> \o rest)
                 /\ UNCHANGED badge

(* Mutant: the walls of a deleted mural outlive it. *)
RazePlacements(c, st, rest) ==
    /\ slice' = Blanked(st.members)
    /\ Evict(c, st.mural, OnMural(st.mural), rest)
    /\ UNCHANGED walls

RazeWalls(c, st, rest) ==
    \/ \E w \in st.left :
        /\ walls' = {v \in walls : v.id # w.id}
        /\ Then(c, <<[st EXCEPT !.left = @ \ {w}, !.members = @ \cup w.members]>> \o rest)
        /\ UNCHANGED <<murals, slice, at, badge>>
    \/ /\ st.left = {}
       /\ slice' = Blanked(st.members)
       /\ Evict(c, st.mural, OnMural(st.mural), rest)
       /\ UNCHANGED walls

Raze(c, m) ==
    /\ Idle(c) /\ m \in murals
    /\ RazeWalls(c, [do |-> "raze", mural |-> m, left |-> WallsOn(m), members |-> {}], <<>>)
    /\ UNCHANGED <<screens, library, scenes, fence>>

RazeStep(c, st, rest) ==
    /\ RazeWalls(c, st, rest)
    /\ UNCHANGED <<screens, library, scenes, fence>>

EvictStep(c, st, rest) ==
    /\ Evict(c, st.mural, st.left, rest)
    /\ UNCHANGED <<screens, walls, slice, library, scenes, fence>>

Close(c, st, rest) ==
    /\ murals' = murals \ {st.mural}
    /\ Then(c, <<Judge>> \o rest)
    /\ UNCHANGED <<screens, at, walls, slice, library, scenes, badge, fence>>

-----------------------------------------------------------------------------
(* The specification *)

InitWith(M, S) ==
    /\ murals = M /\ screens = S
    /\ at = [s \in Screen |-> Tray]
    /\ walls = {}
    /\ slice = [s \in Screen |-> Blank]
    /\ library = Source
    /\ scenes = [id \in SceneId |-> NoScene]
    /\ badge = [m \in Mural |-> NoScene]
    /\ fence = FALSE
    /\ todo = [c \in Client |-> <<>>]

Init == InitWith(Mural, Screen)

(* Inputs told apart by what they do to the walls: a loose screen is placed, *)
(* a member is transferred to another mural or nudged inside its wall; a     *)
(* move takes its walls whole, a slide takes a member out of one.            *)
MoveKind(S) == IF \A w \in walls : w.members \cap S \in {{}, w.members}
               THEN "move" ELSE "slide"
PlaceKind(s, m) == IF ~Walled(s) THEN "place"
                   ELSE IF m = WallOf(s).mural THEN "nudge" ELSE "transfer"

RequestOf(c, ops) ==
    \/ \E s \in Screen, m \in Mural, cell \in Cell :
            PlaceKind(s, m) \in ops /\ Place(c, s, m, cell)
    \/ "unplace" \in ops /\ \E s \in Screen : Unplace(c, s)
    \/ "forget" \in ops /\ \E s \in Screen : Forget(c, s)
    \/ "combine" \in ops /\ \E m \in Mural, S \in SUBSET Screen : Combine(c, m, S)
    \/ "pack" \in ops /\ \E m \in Mural, S \in SUBSET Screen : Pack(c, m, S)
    \/ "split" \in ops /\ \E w \in walls : Split(c, w)
    \/ "assign" \in ops /\ \E s \in Screen, what \in What : AssignScreen(c, s, what)
    \/ "assign" \in ops /\ \E w \in walls, what \in What : AssignWall(c, w, what)
    \/ "clear" \in ops /\ \E s \in Screen : ClearScreen(c, s)
    \/ "clear" \in ops /\ \E w \in walls : ClearWall(c, w)
    \/ "unlist" \in ops /\ \E id \in Source : Unlist(c, id)
    \/ \E m \in Mural, S \in SUBSET Screen, dx \in {-1, 1} :
            MoveKind(S) \in ops /\ Move(c, m, S, dx)
    \/ "snapshot" \in ops /\ \E m \in Mural, id \in SceneId : Snapshot(c, m, id)
    \/ "apply" \in ops /\ \E id \in SceneId : Apply(c, id)
    \/ "unsave" \in ops /\ \E id \in SceneId : Unsave(c, id)
    \/ "raze" \in ops /\ \E m \in Mural : Raze(c, m)

Request(c) == RequestOf(c, Ops)

Resume(c) ==
    /\ ~Idle(c)
    /\ LET st == Head(todo[c])
           rest == Tail(todo[c])
       IN  \/ st.do = "judge"    /\ JudgeStep(c, rest)
           \/ st.do = "rejudge"  /\ RejudgeStep(c, st, rest)
           \/ st.do = "dissolve" /\ Dissolve(c, st, rest)
           \/ st.do = "clear"    /\ ClearStep(c, st, rest)
           \/ st.do = "forget"   /\ ForgetStep(c, st, rest)
           \/ st.do = "shift"    /\ Shift(c, st.to, st.left, rest)
           \/ st.do = "pack"     /\ PackStep(c, st, rest)
           \/ st.do = "unlist"   /\ UnlistStep(c, st, rest)
           \/ st.do = "respan"   /\ RespanStep(c, st, rest)
           \/ st.do = "lower"    /\ Lower(c, st, rest)
           \/ st.do = "raze"     /\ RazeStep(c, st, rest)
           \/ st.do = "evict"    /\ EvictStep(c, st, rest)
           \/ st.do = "close"    /\ Close(c, st, rest)
           \/ /\ \/ st.do = "resplit" /\ Resplit(c, st, rest)
                 \/ st.do = "omit"    /\ Omit(c, st, rest)
                 \/ st.do = "lay"     /\ Lay(c, st, rest)
                 \/ st.do = "regroup" /\ Regroup(c, st, rest)
                 \/ st.do = "dress"   /\ Dress(c, st, rest)
              /\ UNCHANGED scenes

Next == \E c \in Client : Request(c) \/ Resume(c) \/ ("fail" \in Ops /\ Fail(c))

Spec == Init /\ [][Next]_vars

-----------------------------------------------------------------------------
(* Properties *)

Quiet == \A c \in Client : Idle(c)

RazesMural(c, m) == ~Idle(c) /\ Head(todo[c]) = [do |-> "close", mural |-> m]

(* A badge never lies: when no handler is in flight, a mural that is badged  *)
(* with a scene is that scene, whatever operators and applies did to it.     *)
BadgeHonest ==
    Quiet => \A m \in Mural : badge[m] # NoScene =>
                Stands(m, badge[m]) /\ scenes[badge[m]].mural = m

(* A change on one wall never clears another's badge: a badge goes only when *)
(* its own mural has stopped being the scene, or the scene or mural is gone. *)
BadgeOnlyWhenDiverged ==
    [][\A m \in Mural : badge[m] # NoScene /\ badge'[m] = NoScene =>
           \/ ~(scenes[badge[m]] # NoScene /\ Identical(scenes[badge[m]]))
           \/ scenes'[badge[m]] = NoScene
           \/ \E c \in Client : RazesMural(c, m)']_vars

(* Membership is exclusive: a screen belongs to at most one wall. *)
ExclusiveMembership == \A s \in Screen : Cardinality(WallsOf(s)) <= 1

(* No wall with a hole: when no handler is in flight the members of a wall   *)
(* are placed on its mural and form one region.                              *)
WallWhole ==
    Quiet => \A w \in walls :
        /\ w.members \subseteq screens \cap OnMural(w.mural)
        /\ Contiguous(CellsOf(at, w.members))

(* What the console says a wall shows is on its members, each with its own   *)
(* piece, and a screen outside the walls shows no piece of any.              *)
SpanMatches ==
    Quiet =>
        /\ \A w \in walls : w.source # Dark =>
               \A s \in w.members : slice[s] = Spanned(w, w.source)[s]
        /\ \A s \in Screen : slice[s].wall # NoWall =>
               \E w \in walls : w.id = slice[s].wall /\ s \in w.members

(* Nothing is left behind on a deleted mural. *)
NothingOnDeleted ==
    Quiet => /\ \A s \in Screen : at[s].mural \in murals \cup {NoMural}
             /\ \A w \in walls : w.mural \in murals

(* Every variable is what it should be, and nothing refers to a mural that   *)
(* was deleted.                                                             *)
LayoutIntact == TypeOK /\ NothingOnDeleted

(* An apply that nobody disturbed has made the mural the scene. *)
ApplyLandsScene ==
    \A c \in Client : (~Idle(c) /\ Head(todo[c]).do = "lower") =>
        LET id == Head(todo[c]).id IN scenes[id] # NoScene => Identical(scenes[id])

(* The fence an apply raised comes down, also when a write is refused. *)
FenceComesDown == fence ~> ~fence
=============================================================================
