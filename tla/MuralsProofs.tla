---------------------------- MODULE MuralsProofs ----------------------------
(***************************************************************************)
(* Proofs about Murals, for every number of requests in flight, screens,   *)
(* murals, walls and scenes.                                               *)
(***************************************************************************)
EXTENDS MCMurals, FiniteSetTheorems, WellFoundedInduction, TLAPS

(* A step of a client whose requests are among ops. *)
NextOf(ops) == \E c \in Client : RequestOf(c, ops) \/ Resume(c) \/ ("fail" \in ops /\ Fail(c))

LEMMA NextIsOf == Next <=> NextOf(Ops)
  BY DEF Next, NextOf, Request

-----------------------------------------------------------------------------
(* A client's continuation is a sequence of steps, none of a given kind.   *)

IsSeq(q)         == \E S : q \in Seq(S)
Other(a, kind)   == "do" \in DOMAIN a /\ a.do # kind
Without(q, kind) == IsSeq(q) /\ \A i \in 1..Len(q) : Other(q[i], kind)

LEMMA WithoutEmpty ==
    ASSUME NEW kind
    PROVE  Without(<<>>, kind)
  <1>1. <<>> \in Seq({}) OBVIOUS
  <1> QED BY <1>1 DEF Without, IsSeq

LEMMA WithoutOne ==
    ASSUME NEW kind, NEW a, Other(a, kind)
    PROVE  Without(<<a>>, kind)
  <1>1. <<a>> \in Seq({a}) /\ Len(<<a>>) = 1 /\ <<a>>[1] = a OBVIOUS
  <1>2. \A i \in 1..Len(<<a>>) : i = 1 BY <1>1
  <1> QED BY <1>1, <1>2 DEF Without, IsSeq

LEMMA WithoutTail ==
    ASSUME NEW kind, NEW q, Without(q, kind), q # <<>>
    PROVE  Other(Head(q), kind) /\ Without(Tail(q), kind)
  <1>1. PICK S : q \in Seq(S) BY DEF Without, IsSeq
  <1>2. Tail(q) \in Seq(S) /\ Len(q) \in Nat /\ Len(q) >= 1 /\ Len(Tail(q)) = Len(q) - 1
    BY <1>1
  <1>3. \A i \in 1..Len(Tail(q)) : Tail(q)[i] = q[i + 1]
    BY <1>1, <1>2
  <1>4. Head(q) = q[1] BY <1>1
  <1> QED BY <1>2, <1>3, <1>4 DEF Without, IsSeq

LEMMA WithoutPush ==
    ASSUME NEW kind, NEW a, NEW r, Other(a, kind), Without(r, kind)
    PROVE  Without(<<a>> \o r, kind)
  <1>1. PICK S : r \in Seq(S) BY DEF Without, IsSeq
  <1>2. r \in Seq(S \cup {a}) BY <1>1
  <1>3. <<a>> \in Seq(S \cup {a}) OBVIOUS
  <1>4. /\ <<a>> \o r \in Seq(S \cup {a})
        /\ Len(<<a>> \o r) = Len(r) + 1 /\ Len(r) \in Nat
    BY <1>2, <1>3
  <1>5. \A i \in 1..Len(r) + 1 : (<<a>> \o r)[i] = IF i = 1 THEN a ELSE r[i - 1]
    BY <1>2, <1>3
  <1> QED BY <1>4, <1>5 DEF Without, IsSeq

LEMMA WithoutConcat ==
    ASSUME NEW kind, NEW p, NEW r, Without(p, kind), Without(r, kind)
    PROVE  Without(p \o r, kind)
  <1>1. PICK S : p \in Seq(S) BY DEF Without, IsSeq
  <1>2. PICK T : r \in Seq(T) BY DEF Without, IsSeq
  <1>3. p \in Seq(S \cup T) /\ r \in Seq(S \cup T) BY <1>1, <1>2
  <1>4. /\ p \o r \in Seq(S \cup T)
        /\ Len(p \o r) = Len(p) + Len(r) /\ Len(p) \in Nat /\ Len(r) \in Nat
    BY <1>3
  <1>5. \A i \in 1..Len(p) + Len(r) :
            (p \o r)[i] = IF i <= Len(p) THEN p[i] ELSE r[i - Len(p)]
    BY <1>3
  <1> QED BY <1>4, <1>5 DEF Without, IsSeq

LEMMA WithoutPushTwo ==
    ASSUME NEW kind, NEW a, NEW b, NEW r, Other(a, kind), Other(b, kind), Without(r, kind)
    PROVE  Without(<<a, b>> \o r, kind)
  <1>1. PICK S : r \in Seq(S) BY DEF Without, IsSeq
  <1>2. r \in Seq(S \cup {a, b}) BY <1>1
  <1>3. <<a, b>> \in Seq(S \cup {a, b}) OBVIOUS
  <1>4. /\ <<a, b>> \o r \in Seq(S \cup {a, b})
        /\ Len(<<a, b>> \o r) = Len(r) + 2 /\ Len(r) \in Nat
    BY <1>2, <1>3
  <1>5. \A i \in 1..Len(r) + 2 :
            (<<a, b>> \o r)[i] = IF i = 1 THEN a ELSE IF i = 2 THEN b ELSE r[i - 2]
    BY <1>2, <1>3
  <1> QED BY <1>4, <1>5 DEF Without, IsSeq

-----------------------------------------------------------------------------
(* The walls.  They are apart: no two have an id or a member in common.    *)

Apart(W) ==
    /\ W \subseteq Wall
    /\ \A w, v \in W : w # v => w.id # v.id /\ w.members \cap v.members = {}

LEMMA ApartFewer ==
    ASSUME NEW W, NEW V, Apart(W), V \subseteq W
    PROVE  Apart(V)
  BY DEF Apart

(* A wall's content may change; it keeps its id and its members. *)
LEMMA ApartResourced ==
    ASSUME NEW W, Apart(W), NEW w \in W, NEW x \in What
    PROVE  Apart((W \ {w}) \cup {[w EXCEPT !.source = x]})
  <1> DEFINE v == [w EXCEPT !.source = x]
  <1>1. w \in Wall BY DEF Apart
  <1>2. v \in Wall /\ v.id = w.id /\ v.members = w.members BY <1>1 DEF Wall
  <1> HIDE DEF v
  <1>3. \A u \in W \ {w} : /\ u.id # v.id /\ u.members \cap v.members = {}
                           /\ v.id # u.id /\ v.members \cap u.members = {}
    BY <1>2 DEF Apart
  <1>4. W \subseteq Wall /\ \A u, x1 \in W \ {w} : u # x1 => u.id # x1.id /\ u.members \cap x1.members = {}
    BY DEF Apart
  <1> DEFINE V == (W \ {w}) \cup {v}
  <1>5. V \subseteq Wall BY <1>2, <1>4
  <1>6. ASSUME NEW u \in V, NEW z \in V, u # z PROVE u.id # z.id /\ u.members \cap z.members = {}
    <2>1. CASE u = v BY <2>1, <1>3, <1>6
    <2>2. CASE z = v BY <2>2, <1>3, <1>6
    <2>3. CASE u # v /\ z # v BY <2>3, <1>4, <1>6
    <2> QED BY <2>1, <2>2, <2>3
  <1>7. Apart(V) BY <1>5, <1>6 DEF Apart
  <1> QED BY <1>7 DEF v

(* A new wall takes screens that are in none, under an id that is new. *)
LEMMA ApartWithNew ==
    ASSUME Apart(walls), murals \subseteq Mural,
           NEW m, NEW S, Combinable(m, S), NEW id \in FreshWall
    PROVE  Apart(walls \cup {[id |-> id, mural |-> m, members |-> S, source |-> Dark]})
  <1> DEFINE n == [id |-> id, mural |-> m, members |-> S, source |-> Dark]
  <1>1. m \in Mural /\ S \subseteq Screen BY DEF Combinable, OnMural
  <1>2. id \in WallId /\ \A w \in walls : w.id # id BY DEF FreshWall, HasId
  <1>3. \A w \in walls : w.members \cap S = {} BY DEF Combinable, Walled, WallsOf
  <1>4. n \in Wall /\ n.id = id /\ n.members = S BY <1>1, <1>2 DEF Wall, What
  <1> HIDE DEF n
  <1>5. \A w \in walls : /\ w.id # n.id /\ w.members \cap n.members = {}
                         /\ n.id # w.id /\ n.members \cap w.members = {}
    BY <1>2, <1>3, <1>4
  <1> DEFINE V == walls \cup {n}
  <1>6. V \subseteq Wall BY <1>4 DEF Apart
  <1>7. ASSUME NEW u \in V, NEW z \in V, u # z PROVE u.id # z.id /\ u.members \cap z.members = {}
    <2>1. CASE u = n BY <2>1, <1>5, <1>7
    <2>2. CASE z = n BY <2>2, <1>5, <1>7
    <2>3. CASE u # n /\ z # n BY <2>3, <1>7 DEF Apart
    <2> QED BY <2>1, <2>2, <2>3
  <1>8. Apart(V) BY <1>6, <1>7 DEF Apart
  <1> QED BY <1>8 DEF n

-----------------------------------------------------------------------------
(* What a handler puts in its continuation.  Packs come from packing only,  *)
(* and a judgement with some badges left from a judgement only.             *)

Kept(kind) == kind \in {"pack", "rejudge"}

Pushes(c, kind) ==
    \/ todo' = todo
    \/ \E q : Without(q, kind) /\ todo' = [todo EXCEPT ![c] = q]

(* A judgement: of every badge, or of those an earlier stretch left. *)
Judges(c) ==
    \E left :
        /\ Rejudge(c, left, Tail(todo[c]))
        /\ UNCHANGED <<layout, scenes>>
        /\ \/ left = Badges /\ fence' = FALSE
           \/ left = Head(todo[c]).left /\ Head(todo[c]).do = "rejudge" /\ fence' = fence

LEMMA EvictPushes ==
    ASSUME NEW kind, Kept(kind), NEW c, NEW m, NEW placed, NEW r, Without(r, kind), Evict(c, m, placed, r)
    PROVE  Pushes(c, kind)
  <1> USE DEF Evict, Pushes, Then, Kept
  <1>1. \A a : Other(a, kind) => Without(<<a>> \o r, kind) BY WithoutPush
  <1>2. \A x : Without(<<[do |-> "evict", mural |-> m, left |-> x]>> \o r, kind)
    BY <1>1 DEF Other
  <1>3. Without(<<[do |-> "close", mural |-> m]>> \o r, kind) BY <1>1 DEF Other
  <1>4. Without(<<Judge>> \o r, kind) BY <1>1 DEF Judge, Other
  <1> QED BY <1>2, <1>3, <1>4

LEMMA RazePushes ==
    ASSUME NEW kind, Kept(kind), NEW c, NEW st, NEW r, Other(st, kind), Without(r, kind),
           RazeWalls(c, st, r)
    PROVE  Pushes(c, kind)
  <1>1. CASE \E w : Then(c, <<[st EXCEPT !.left = @ \ {w}, !.members = @ \cup w.members]>> \o r)
    <2>1. PICK w : Then(c, <<[st EXCEPT !.left = @ \ {w}, !.members = @ \cup w.members]>> \o r)
      BY <1>1
    <2>2. Other([st EXCEPT !.left = @ \ {w}, !.members = @ \cup w.members], kind) BY DEF Other
    <2>3. Without(<<[st EXCEPT !.left = @ \ {w}, !.members = @ \cup w.members]>> \o r, kind)
      BY <2>2, WithoutPush
    <2> QED BY <2>1, <2>3 DEF Pushes, Then
  <1>2. CASE Evict(c, st.mural, OnMural(st.mural), r)
    BY <1>2, EvictPushes
  <1> QED BY <1>1, <1>2 DEF RazeWalls

LEMMA PackOnePushes ==
    ASSUME NEW kind, NEW c, NEW st, NEW r, Other(st, kind), Without(r, kind), PackOne(c, st, r)
    PROVE  Pushes(c, kind)
  <1>1. PICK s : Then(c, <<[st EXCEPT !.left = @ \ {s}]>> \o r) BY DEF PackOne
  <1>2. Other([st EXCEPT !.left = @ \ {s}], kind) BY DEF Other
  <1>3. Without(<<[st EXCEPT !.left = @ \ {s}]>> \o r, kind) BY <1>2, WithoutPush
  <1> QED BY <1>1, <1>3 DEF Pushes, Then

LEMMA RequestPushes ==
    ASSUME NEW kind, Kept(kind), kind = "pack" => "pack" \notin Ops, NEW c, Request(c)
    PROVE  Pushes(c, kind)
  <1> USE DEF Other, Pushes, Then, Kept
  <1>0. Without(<<>>, kind) BY WithoutEmpty
  <1>o. \A a : Other(a, kind) => Without(<<a>>, kind) BY WithoutOne
  <1>p. \A a : Other(a, kind) => Without(<<a>> \o <<>>, kind) BY <1>0, WithoutPush
  <1>j. Without(<<Judge>>, kind) /\ Without(<<Judge>> \o <<>>, kind) BY <1>o, <1>p DEF Judge
  <1>c. \A S : Without(<<Clear(S), Judge>> \o <<>>, kind)
    BY <1>0, WithoutPushTwo DEF Clear, Judge
  <1>1. CASE \E s \in Screen, m \in Mural, cell \in Cell : Place(c, s, m, cell)
    BY <1>1, <1>j DEF Place
  <1>2. CASE \E s \in Screen : Unplace(c, s)
    <2>1. \A s : Without(<<[do |-> "dissolve", screen |-> s]>>, kind) BY <1>o
    <2> QED BY <1>2, <2>1 DEF Unplace
  <1>3. CASE \E s \in Screen : Forget(c, s)
    <2>1. PICK s \in Screen : Forget(c, s) BY <1>3
    <2>2. CASE Walled(s)
      <3> DEFINE w == WallOf(s)
                 a == [do |-> "forget", screen |-> s, members |-> w.members]
      <3>1. Without(<<a>> \o <<Judge>>, kind) BY <1>j, WithoutPush
      <3>2. <<a, Judge>> = <<a>> \o <<Judge>> OBVIOUS
      <3> QED BY <2>1, <2>2, <3>1, <3>2 DEF Forget
    <2>3. CASE ~Walled(s)
      BY <2>1, <2>3, <1>j DEF Forget
    <2> QED BY <2>2, <2>3
  <1>4. CASE \E m \in Mural, S \in SUBSET Screen : Combine(c, m, S)
    BY <1>4, <1>c DEF Combine, NewWall
  <1>5. CASE "pack" \in Ops /\ \E m \in Mural, S \in SUBSET Screen : Pack(c, m, S)
    <2>1. PICK m \in Mural, S \in SUBSET Screen :
              PackOne(c, [do |-> "pack", mural |-> m, to |-> Packed(S), members |-> S, left |-> S], <<>>)
      BY <1>5 DEF Pack
    <2> DEFINE st == [do |-> "pack", mural |-> m, to |-> Packed(S), members |-> S, left |-> S]
    <2>2. Other(st, kind) BY <1>5
    <2>3. PackOne(c, st, <<>>) BY <2>1
    <2> HIDE DEF st
    <2> QED BY <2>2, <2>3, <1>0, PackOnePushes
  <1>6. CASE \E w \in walls : Split(c, w)
    BY <1>6, <1>c DEF Split, SplitWall
  <1>7. CASE \E s \in Screen, what \in What : AssignScreen(c, s, what)
    BY <1>7, <1>j DEF AssignScreen, ShowOn
  <1>8. CASE \E w \in walls, what \in What : AssignWall(c, w, what)
    BY <1>8, <1>j DEF AssignWall, SpanWall
  <1>9. CASE UNCHANGED todo
    BY <1>9
  <1>11. CASE \E id \in Source : Unlist(c, id)
    <2>1. \A id, x : Without(<<[do |-> "unlist", source |-> id, left |-> x]>> \o <<>>, kind)
      BY <1>p
    <2> QED BY <1>11, <2>1, <1>0 DEF Unlist, Unspan
  <1>12. CASE \E m \in Mural, S \in SUBSET Screen, dx \in {-1, 1} : Move(c, m, S, dx)
    <2>1. PICK to, left : Shift(c, to, left, <<>>) BY <1>12 DEF Move
    <2>2. \A x : Without(<<[do |-> "shift", to |-> to, left |-> x]>> \o <<>>, kind) BY <1>p
    <2>3. <<>> \o <<>> = <<>> OBVIOUS
    <2> QED BY <2>1, <2>2, <2>3, <1>0 DEF Shift
  <1>14. CASE \E id \in SceneId : Apply(c, id)
    <2>1. \A id, sc, x : Without(<<[do |-> "resplit", id |-> id, scene |-> sc, left |-> x]>>, kind)
      BY <1>o
    <2> QED BY <1>14, <2>1 DEF Apply
  <1>16. CASE \E m \in Mural : Raze(c, m)
    <2>1. PICK m \in Mural : RazeWalls(c, [do |-> "raze", mural |-> m, left |-> WallsOn(m), members |-> {}], <<>>)
      BY <1>16 DEF Raze
    <2> DEFINE st == [do |-> "raze", mural |-> m, left |-> WallsOn(m), members |-> {}]
    <2>2. Other(st, kind) OBVIOUS
    <2>3. RazeWalls(c, st, <<>>) BY <2>1
    <2> HIDE DEF st
    <2> QED BY <2>2, <2>3, <1>0, RazePushes, ZenonT(40)
  <1> QED BY <1>1, <1>2, <1>3, <1>4, <1>5, <1>6, <1>7, <1>8, <1>9, <1>11, <1>12, <1>14, <1>16
          DEF Request, RequestOf, ClearScreen, ClearWall, Snapshot, Unsave

LEMMA ResumePushes ==
    ASSUME NEW kind, Kept(kind), NEW c, Resume(c),
           Other(Head(todo[c]), kind), Without(Tail(todo[c]), kind)
    PROVE  Pushes(c, kind) \/ Judges(c)
  <1> DEFINE st == Head(todo[c]) rest == Tail(todo[c])
  <1>h. Other(st, kind) /\ Without(rest, kind) OBVIOUS
  <1> HIDE DEF st, rest
  <1> USE DEF Pushes, Then, Kept
  <1>o. \A a, r : Other(a, kind) /\ Without(r, kind) => Without(<<a>> \o r, kind) BY WithoutPush
  <1>j. \A r : Without(r, kind) => Without(<<Judge>> \o r, kind) BY <1>o DEF Judge, Other
  <1>c. \A S, r : Without(r, kind) => Without(<<Clear(S), Judge>> \o r, kind)
    BY WithoutPushTwo DEF Clear, Judge, Other
  <1>x. \A x : Other(Rest(st, x), kind) /\ Without(<<Rest(st, x)>> \o rest, kind)
    <2> TAKE x
    <2>1. Other(Rest(st, x), kind) BY <1>h DEF Rest, Other
    <2> QED BY <2>1, <1>h, <1>o
  <1>e. ASSUME NEW name, NEW left, ~Kept(name), Enter(c, name, st, left, rest) PROVE Pushes(c, kind)
    <2>1. Other(Phase(name, st, left), kind) BY <1>e DEF Phase, Other
    <2> QED BY <1>e, <2>1, <1>h, <1>o DEF Enter
  <1>s. ASSUME NEW x, Skip(c, st, x, rest) PROVE Pushes(c, kind)
    BY <1>s, <1>x DEF Skip
  <1>1. CASE JudgeStep(c, rest)
    <2>1. CASE fence BY <1>1, <2>1, <1>h DEF JudgeStep
    <2>2. CASE ~fence
      <3>1. Rejudge(c, Badges, rest) /\ UNCHANGED <<layout, scenes>> /\ fence' = FALSE
        BY <1>1, <2>2 DEF JudgeStep
      <3> QED BY <3>1 DEF Judges, rest
    <2> QED BY <2>1, <2>2
  <1>2. CASE st.do = "rejudge" /\ RejudgeStep(c, st, rest)
    BY <1>2 DEF RejudgeStep, Judges, st, rest
  <1>3. CASE Lower(c, st, rest)
    BY <1>3 DEF Lower, Judges, rest
  <1>4. CASE Dissolve(c, st, rest)
    BY <1>4, <1>c, <1>h, <1>j DEF Dissolve
  <1>5. CASE ClearStep(c, st, rest) \/ ForgetStep(c, st, rest)
    BY <1>5, <1>h DEF ClearStep, ForgetStep
  <1>7. CASE Shift(c, st.to, st.left, rest)
    <2>1. \A x : Without(<<[do |-> "shift", to |-> st.to, left |-> x]>> \o rest, kind)
      BY <1>h, <1>o DEF Other
    <2>2. <<>> \o rest = rest BY <1>h DEF Without, IsSeq
    <2> QED BY <1>7, <2>1, <2>2, <1>h DEF Shift
  <1>8. CASE PackStep(c, st, rest)
    BY <1>8, <1>h, <1>c, PackOnePushes DEF PackStep, NewWall
  <1>9. CASE UnlistStep(c, st, rest)
    <2>1. \A id, x : Without(<<[do |-> "unlist", source |-> id, left |-> x]>> \o rest, kind)
      BY <1>h, <1>o DEF Other
    <2> QED BY <1>9, <2>1, <1>h DEF UnlistStep, Unspan
  <1>10. CASE RespanStep(c, st, rest)
    BY <1>10, <1>h, <1>j DEF RespanStep, SpanWall
  <1>11. CASE RazeStep(c, st, rest)
    BY <1>11, <1>h, RazePushes DEF RazeStep
  <1>12. CASE EvictStep(c, st, rest)
    BY <1>12, <1>h, EvictPushes DEF EvictStep
  <1>13. CASE Close(c, st, rest)
    BY <1>13, <1>h, <1>j DEF Close
  <1>14. CASE Resplit(c, st, rest)
    BY <1>14, <1>s, <1>e, <1>x, <1>c DEF Resplit, SplitWall
  <1>15. CASE Omit(c, st, rest)
    <2>1. \A s : Without(<<[do |-> "dissolve", screen |-> s], Rest(st, s)>> \o rest, kind)
      BY <1>x, <1>h, WithoutPushTwo DEF Other
    <2> QED BY <1>15, <2>1, <1>s, <1>e DEF Omit
  <1>16. CASE Lay(c, st, rest)
    <2>1. \A s : Without(<<Judge, Rest(st, s)>> \o rest, kind)
      BY <1>x, <1>h, WithoutPushTwo DEF Other, Judge
    <2> QED BY <1>16, <2>1, <1>s, <1>e DEF Lay
  <1>17. CASE Regroup(c, st, rest)
    <2>1. ASSUME NEW k, NEW id
          PROVE  Without((IF k.what = Dark THEN <<>> ELSE <<Respan(id, k.what)>>) \o <<Rest(st, k)>> \o rest, kind)
      <3>1. CASE k.what = Dark
        <4>1. <<>> \o <<Rest(st, k)>> = <<Rest(st, k)>> OBVIOUS
        <4> QED BY <3>1, <4>1, <1>x
      <3>2. CASE k.what # Dark
        <4>1. Without(<<Rest(st, k)>>, kind) BY <1>x, WithoutOne
        <4>2. Without(<<Respan(id, k.what)>> \o <<Rest(st, k)>>, kind)
          BY <4>1, <1>o DEF Other, Respan
        <4>3. Without((<<Respan(id, k.what)>> \o <<Rest(st, k)>>) \o rest, kind)
          BY <4>2, <1>h, WithoutConcat
        <4> QED BY <3>2, <4>3
      <3> QED BY <3>1, <3>2
    <2>2. CASE \E k \in st.left : \E id, m, S :
                  NewWall(c, m, S, id, (IF k.what = Dark THEN <<>> ELSE <<Respan(id, k.what)>>)
                                           \o <<Rest(st, k)>> \o rest)
      BY <2>1, <2>2, <1>c DEF NewWall
    <2>3. CASE \E k \in st.left : Skip(c, st, k, rest)
      BY <2>3, <1>s
    <2>4. CASE Enter(c, "dress", st, DOMAIN st.scene.own, rest)
      BY <2>4, <1>e
    <2> QED BY <1>17, <2>2, <2>3, <2>4 DEF Regroup
  <1>18. CASE Dress(c, st, rest)
    <2>1. Without(<<[do |-> "lower", id |-> st.id]>> \o rest, kind)
      BY <1>h, <1>o DEF Other
    <2> QED BY <1>18, <2>1, <1>s, <1>x, <1>j DEF Dress, ShowOn
  <1> QED BY <1>1, <1>2, <1>3, <1>4, <1>5, <1>7, <1>8, <1>9, <1>10, <1>11, <1>12,
             <1>13, <1>14, <1>15, <1>16, <1>17, <1>18 DEF Resume, st, rest

-----------------------------------------------------------------------------
(* Who may be in a wall: while no pack is under way the walls stay apart.  *)

NoPack == \A c \in Client : Without(todo[c], "pack")

MembershipInv ==
    /\ todo = [c \in Client |-> todo[c]]
    /\ murals \subseteq Mural
    /\ NoPack
    /\ Apart(walls)

Membered(c) == Pushes(c, "pack") /\ Apart(walls') /\ murals' \subseteq murals

LEMMA RequestMembered ==
    ASSUME MembershipInv, "pack" \notin Ops, NEW c \in Client, Request(c)
    PROVE  Membered(c)
  <1> USE DEF MembershipInv
  <1>0. Pushes(c, "pack") BY RequestPushes DEF Kept
  <1>n. \A W : W \subseteq walls => Apart(W) BY ApartFewer
  <1>r. \A w \in walls, x \in What : Apart((walls \ {w}) \cup {[w EXCEPT !.source = x]})
    BY ApartResourced
  <1>1. CASE UNCHANGED walls /\ murals' \subseteq murals
    BY <1>0, <1>1 DEF Membered
  <1>2. CASE walls' \subseteq walls /\ murals' \subseteq murals
    BY <1>0, <1>2, <1>n DEF Membered
  <1>3. CASE \E w \in walls, x \in What :
                walls' = (walls \ {w}) \cup {[w EXCEPT !.source = x]} /\ UNCHANGED murals
    BY <1>0, <1>3, <1>r DEF Membered
  <1>4. CASE \E m \in Mural, S \in SUBSET Screen : Combine(c, m, S)
    <2>1. PICK m \in Mural, S \in SUBSET Screen, id \in FreshWall :
              Combinable(m, S) /\ NewWall(c, m, S, id, <<>>) /\ UNCHANGED murals
      BY <1>4 DEF Combine
    <2>2. Apart(walls') BY <2>1, ApartWithNew DEF NewWall
    <2> QED BY <1>0, <2>1, <2>2 DEF Membered
  <1>5. CASE \E s \in Screen : Forget(c, s)
    <2>1. UNCHANGED murals /\ walls' \subseteq walls BY <1>5 DEF Forget
    <2> QED BY <2>1, <1>2
  <1>6. CASE \E w \in walls : Split(c, w)
    BY <1>2, <1>6 DEF Split, SplitWall
  <1>7. CASE \E w \in walls, what \in What : AssignWall(c, w, what)
    BY <1>3, <1>7 DEF AssignWall, SpanWall, What
  <1>8. CASE \E w \in walls : ClearWall(c, w)
    BY <1>3, <1>8 DEF ClearWall, What
  <1>9. CASE \E id \in Source : Unlist(c, id)
    BY <1>1, <1>3, <1>9 DEF Unlist, Unspan, What
  <1>10. CASE \E m \in Mural : Raze(c, m)
    BY <1>1, <1>2, <1>10 DEF Raze, RazeWalls, Evict
  <1>11. CASE \/ \E s \in Screen, m \in Mural, cell \in Cell : Place(c, s, m, cell)
              \/ \E s \in Screen : Unplace(c, s) \/ ClearScreen(c, s)
              \/ \E s \in Screen, what \in What : AssignScreen(c, s, what)
              \/ \E m \in Mural, S \in SUBSET Screen, dx \in {-1, 1} : Move(c, m, S, dx)
              \/ \E m \in Mural, id \in SceneId : Snapshot(c, m, id)
              \/ \E id \in SceneId : Apply(c, id) \/ Unsave(c, id)
    BY <1>1, <1>11 DEF Place, Unplace, ClearScreen, AssignScreen, ShowOn, Move, Shift,
                       Snapshot, Apply, Unsave, layout
  <1> QED BY <1>4, <1>5, <1>6, <1>7, <1>8, <1>9, <1>10, <1>11 DEF Request, RequestOf

LEMMA ResumeMembered ==
    ASSUME MembershipInv, NEW c \in Client, Resume(c)
    PROVE  Membered(c)
  <1> DEFINE st == Head(todo[c]) rest == Tail(todo[c])
  <1>h. Other(st, "pack") /\ Without(rest, "pack")
    BY WithoutTail DEF MembershipInv, NoPack, Resume, Idle
  <1> HIDE DEF st, rest
  <1> USE DEF MembershipInv
  <1>v. ASSUME NEW left, Rejudge(c, left, rest) PROVE Pushes(c, "pack")
    <2>1. \A x : Without(<<[do |-> "rejudge", left |-> x]>> \o rest, "pack")
      <3> TAKE x
      <3>1. Other([do |-> "rejudge", left |-> x], "pack") BY DEF Other
      <3> QED BY <3>1, <1>h, WithoutPush
    <2> QED BY <1>v, <1>h, <2>1 DEF Rejudge, Pushes, Then
  <1>0. Pushes(c, "pack")
    BY <1>h, <1>v, ResumePushes DEF Kept, Judges, st, rest
  <1>n. \A W : W \subseteq walls => Apart(W) BY ApartFewer
  <1>r. \A w \in walls, x \in What : Apart((walls \ {w}) \cup {[w EXCEPT !.source = x]})
    BY ApartResourced
  <1>1. CASE UNCHANGED walls /\ murals' \subseteq murals
    BY <1>0, <1>1 DEF Membered
  <1>2. CASE walls' \subseteq walls /\ murals' \subseteq murals
    BY <1>0, <1>2, <1>n DEF Membered
  <1>3. CASE \E w \in walls, x \in What :
                walls' = (walls \ {w}) \cup {[w EXCEPT !.source = x]} /\ UNCHANGED murals
    BY <1>0, <1>3, <1>r DEF Membered
  <1>4. CASE JudgeStep(c, rest) \/ RejudgeStep(c, st, rest) \/ Lower(c, st, rest)
    BY <1>1, <1>4 DEF JudgeStep, RejudgeStep, Lower, layout
  <1>5. CASE Dissolve(c, st, rest)
    BY <1>2, <1>5 DEF Dissolve
  <1>6. CASE ClearStep(c, st, rest) \/ ForgetStep(c, st, rest) \/ Shift(c, st.to, st.left, rest)
    BY <1>1, <1>6 DEF ClearStep, ForgetStep, Shift
  <1>7. CASE UnlistStep(c, st, rest)
    BY <1>1, <1>3, <1>7 DEF UnlistStep, Unspan, What
  <1>8. CASE RespanStep(c, st, rest)
    BY <1>1, <1>3, <1>8 DEF RespanStep, SpanWall, HasId, What, layout
  <1>9. CASE RazeStep(c, st, rest)
    BY <1>1, <1>2, <1>9 DEF RazeStep, RazeWalls, Evict
  <1>10. CASE EvictStep(c, st, rest) \/ Close(c, st, rest)
    BY <1>1, <1>10 DEF EvictStep, Evict, Close
  <1>11. CASE Resplit(c, st, rest)
    BY <1>1, <1>2, <1>11 DEF Resplit, SplitWall, Skip, Enter, layout
  <1>12. CASE Omit(c, st, rest) \/ Lay(c, st, rest)
    BY <1>1, <1>12 DEF Omit, Lay, Skip, Enter, layout
  <1>13. CASE Regroup(c, st, rest)
    <2>1. CASE \E id \in FreshWall : \E m, S, r :
                  Combinable(m, S) /\ NewWall(c, m, S, id, r) /\ UNCHANGED murals
      <3>1. Apart(walls') BY <2>1, ApartWithNew DEF NewWall
      <3> QED BY <2>1, <3>1, <1>0 DEF Membered
    <2>2. CASE UNCHANGED layout
      BY <1>1, <2>2 DEF layout
    <2> QED BY <1>13, <2>1, <2>2 DEF Regroup, Skip, Enter
  <1>14. CASE Dress(c, st, rest)
    BY <1>1, <1>14 DEF Dress, ShowOn, Skip, layout
  <1>15. st.do # "pack" BY <1>h DEF Other
  <1> QED BY <1>4, <1>5, <1>6, <1>7, <1>8, <1>9, <1>10, <1>11, <1>12, <1>13, <1>14, <1>15
          DEF Resume, st, rest

LEMMA MembershipStays == MembershipInv /\ "pack" \notin Ops /\ [Next]_vars => MembershipInv'
  <1> SUFFICES ASSUME MembershipInv, "pack" \notin Ops, [Next]_vars PROVE MembershipInv'
    OBVIOUS
  <1>1. ASSUME NEW c \in Client, Request(c) \/ Resume(c) PROVE MembershipInv'
    <2>1. Membered(c) BY <1>1, RequestMembered, ResumeMembered
    <2> QED BY <2>1 DEF MembershipInv, Membered, Pushes, NoPack
  <1>2. ASSUME NEW c \in Client, Fail(c) PROVE MembershipInv'
    <2>1. todo' = [todo EXCEPT ![c] = <<>>] /\ UNCHANGED <<walls, murals>>
      BY <1>2 DEF Fail, Then, layout
    <2> QED BY <2>1, WithoutEmpty DEF MembershipInv, NoPack
  <1>3. CASE UNCHANGED vars
    BY <1>3 DEF vars, layout, MembershipInv, NoPack
  <1> QED BY <1>1, <1>2, <1>3 DEF Next

(* Membership is exclusive, whatever requests overlap: without packing combines *)
(* no screen is ever in two walls (combineScreens, addVideoWall).              *)
THEOREM MembershipIsExclusive ==
    ASSUME "pack" \notin Ops
    PROVE  Spec => []ExclusiveMembership
  <1>1. Init => MembershipInv
    <2> SUFFICES ASSUME Init PROVE MembershipInv OBVIOUS
    <2>1. NoPack BY WithoutEmpty DEF Init, InitWith, NoPack
    <2>2. Apart(walls) BY DEF Init, InitWith, Apart
    <2> QED BY <2>1, <2>2 DEF Init, InitWith, MembershipInv
  <1>2. MembershipInv => ExclusiveMembership
    <2> SUFFICES ASSUME MembershipInv, NEW s \in Screen PROVE Cardinality(WallsOf(s)) <= 1
      BY DEF ExclusiveMembership
    <2>1. \A w, v \in WallsOf(s) : w = v BY DEF MembershipInv, Apart, WallsOf
    <2>2. CASE WallsOf(s) = {} BY <2>2, FS_EmptySet
    <2>3. CASE WallsOf(s) # {}
      <3>1. PICK w : WallsOf(s) = {w} BY <2>1, <2>3
      <3>2. Cardinality({w}) = 1 BY FS_Singleton
      <3> QED BY <3>1, <3>2
    <2> QED BY <2>2, <2>3
  <1> QED BY <1>1, <1>2, MembershipStays, PTL DEF Spec

-----------------------------------------------------------------------------
(* The badge's judge.  Every handler of these requests ends in a judgement, *)
(* and every write of theirs is taken.  (Clearing, moving and deleting from  *)
(* the library judge nothing.)                                              *)

JudgedOps == AllOps \ {"clear", "move", "slide", "unlist", "fail"}

Phases  == ApplyPhases \ {"lower"}
Judging == ApplyPhases \cup {"judge", "dissolve", "pack", "raze", "evict", "close"}

(* A step of a continuation: a phase carries the scene it was read for.      *)
Fine(a, sc) ==
    /\ "do" \in DOMAIN a
    /\ a.do \notin {"shift", "unlist"}
    /\ a.do \in Phases => /\ {"id", "scene"} \subseteq DOMAIN a
                          /\ a.id \in SceneId
                          /\ sc[a.id] \in {NoScene, a.scene}

Sound(q, sc) == IsSeq(q) /\ \A i \in 1..Len(q) : Fine(q[i], sc)
Ends(q, K)   == q # <<>> /\ q[Len(q)].do \in K

(* What is under way ends in a judgement, or is the rest of one. *)
Shape(q) == q = <<>> \/ Ends(q, Judging) \/ (Len(q) = 1 /\ q[1].do = "rejudge")

LEMMA SoundOne ==
    ASSUME NEW sc, NEW a, Fine(a, sc)
    PROVE  /\ Sound(<<a>>, sc)
           /\ \A K : a.do \in K => Ends(<<a>>, K)
  <1>1. <<a>> \in Seq({a}) /\ Len(<<a>>) = 1 /\ <<a>>[1] = a /\ <<a>> # <<>> OBVIOUS
  <1>2. \A i \in 1..Len(<<a>>) : i = 1 BY <1>1
  <1> QED BY <1>1, <1>2 DEF Sound, Ends, IsSeq

LEMMA SoundTwo ==
    ASSUME NEW sc, NEW a, NEW b, Fine(a, sc), Fine(b, sc)
    PROVE  /\ Sound(<<a, b>>, sc)
           /\ \A K : b.do \in K => Ends(<<a, b>>, K)
  <1>1. /\ <<a, b>> \in Seq({a, b}) /\ Len(<<a, b>>) = 2
        /\ <<a, b>>[1] = a /\ <<a, b>>[2] = b /\ <<a, b>> # <<>>
    OBVIOUS
  <1>2. \A i \in 1..Len(<<a, b>>) : i = 1 \/ i = 2 BY <1>1
  <1> QED BY <1>1, <1>2 DEF Sound, Ends, IsSeq

LEMMA SoundConcat ==
    ASSUME NEW sc, NEW p, NEW r, Sound(p, sc), Sound(r, sc)
    PROVE  /\ Sound(p \o r, sc)
           /\ \A K : Ends(r, K) => Ends(p \o r, K)
           /\ \A K : r = <<>> /\ Ends(p, K) => Ends(p \o r, K)
           /\ r = <<>> => p \o r = p
  <1>1. PICK S : p \in Seq(S) BY DEF Sound, IsSeq
  <1>2. PICK T : r \in Seq(T) BY DEF Sound, IsSeq
  <1>3. p \in Seq(S \cup T) /\ r \in Seq(S \cup T) BY <1>1, <1>2
  <1>4. /\ p \o r \in Seq(S \cup T)
        /\ Len(p \o r) = Len(p) + Len(r) /\ Len(p) \in Nat /\ Len(r) \in Nat
    BY <1>3
  <1>5. \A i \in 1..Len(p) + Len(r) :
            (p \o r)[i] = IF i <= Len(p) THEN p[i] ELSE r[i - Len(p)]
    BY <1>3
  <1>6. Sound(p \o r, sc) BY <1>4, <1>5 DEF Sound, IsSeq
  <1>7. r = <<>> => p \o r = p BY <1>3
  <1>8. ASSUME NEW K, Ends(r, K) PROVE Ends(p \o r, K)
    <2>1. Len(r) >= 1 BY <1>2, <1>8 DEF Ends
    <2>2. (p \o r)[Len(p) + Len(r)] = r[Len(r)] BY <2>1, <1>4, <1>5
    <2>3. p \o r # <<>> BY <2>1, <1>4
    <2> QED BY <2>2, <2>3, <1>4, <1>8 DEF Ends
  <1> QED BY <1>6, <1>7, <1>8

LEMMA SoundTail ==
    ASSUME NEW sc, NEW q, Sound(q, sc), q # <<>>
    PROVE  /\ Fine(Head(q), sc) /\ Sound(Tail(q), sc)
           /\ \A K : Ends(q, K) /\ Tail(q) # <<>> => Ends(Tail(q), K)
           /\ \A K : Ends(q, K) /\ Tail(q) = <<>> => Head(q).do \in K
           /\ Len(q) = 1 <=> Tail(q) = <<>>
           /\ Head(q) = q[1]
  <1>1. PICK S : q \in Seq(S) BY DEF Sound, IsSeq
  <1>2. Tail(q) \in Seq(S) /\ Len(q) \in Nat /\ Len(q) >= 1 /\ Len(Tail(q)) = Len(q) - 1
    BY <1>1
  <1>3. \A i \in 1..Len(Tail(q)) : Tail(q)[i] = q[i + 1]
    BY <1>1, <1>2
  <1>4. Head(q) = q[1] BY <1>1
  <1>5. Len(q) = 1 <=> Tail(q) = <<>>
    <2>1. \A t \in Seq(S) : Len(t) = 0 <=> t = <<>> OBVIOUS
    <2>2. Len(Tail(q)) = 0 <=> Tail(q) = <<>> BY <1>2, <2>1
    <2>3. Len(q) = 1 <=> Len(Tail(q)) = 0 BY <1>2
    <2> QED BY <2>2, <2>3
  <1>6. Fine(Head(q), sc) /\ Sound(Tail(q), sc) BY <1>2, <1>3, <1>4 DEF Sound, IsSeq
  <1>7. \A K : Ends(q, K) /\ Tail(q) = <<>> => Head(q).do \in K
    BY <1>4, <1>5 DEF Ends
  <1>8. ASSUME NEW K, Ends(q, K), Tail(q) # <<>> PROVE Ends(Tail(q), K)
    <2>1. Len(q) >= 2 BY <1>2, <1>5, <1>8
    <2>2. Tail(q)[Len(q) - 1] = q[Len(q)] BY <1>2, <1>3, <2>1
    <2> QED BY <2>2, <1>2, <1>8 DEF Ends
  <1> QED BY <1>4, <1>5, <1>6, <1>7, <1>8

-----------------------------------------------------------------------------
(* The invariant: a badge that does not stand awaits a judgement.          *)

Badged(b, sc) ==
    /\ b \in [Mural -> SceneId \cup {NoScene}]
    /\ \A m \in Mural : b[m] # NoScene /\ sc[b[m]] # NoScene => sc[b[m]].mural = m

Awaited(m) ==
    \E c \in Client :
        \/ Ends(todo[c], Judging)
        \/ /\ Len(todo[c]) = 1 /\ todo[c][1].do = "rejudge"
           /\ [mural |-> m, id |-> badge[m]] \in todo[c][1].left

BadgeInv ==
    /\ todo = [c \in Client |-> todo[c]]
    /\ DOMAIN scenes = SceneId
    /\ Badged(badge, scenes)
    /\ \A c \in Client : Sound(todo[c], scenes) /\ Shape(todo[c])
    /\ fence => \E c \in Client : Ends(todo[c], ApplyPhases)
    /\ \A m \in Mural : badge[m] # NoScene => Stands(m, badge[m]) \/ Awaited(m)

(* A step that leaves its client with a judgement to come. *)
Owing(c, q) ==
    /\ Sound(q, scenes) /\ Ends(q, Judging)
    /\ Ends(todo[c], ApplyPhases) => Ends(q, ApplyPhases)

Owes(c) ==
    /\ \E q : Owing(c, q) /\ todo' = [todo EXCEPT ![c] = q]
    /\ Badged(badge', scenes)
    /\ scenes' = scenes
    /\ fence' => fence

LEMMA OwingPushed ==
    ASSUME NEW c, NEW p, NEW q, Owing(c, q), Sound(p, scenes)
    PROVE  Owing(c, p \o q)
  BY SoundConcat DEF Owing

LEMMA StandsStays ==
    ASSUME UNCHANGED layout, NEW m, NEW id, scenes'[id] = scenes[id]
    PROVE  Stands(m, id)' <=> Stands(m, id)
  BY DEF layout, Stands, Identical, OnMural, WallsOn, Listed, ScreenContent, Walled,
         WallsOf, WallOf, WallContent, Own

-----------------------------------------------------------------------------
(* A request starts with nothing to do. *)

LEMMA OwesOne ==
    ASSUME BadgeInv, NEW c \in Client, Idle(c), NEW a, Fine(a, scenes), a.do \in Judging,
           todo' = [todo EXCEPT ![c] = <<a>>], UNCHANGED <<scenes, badge, fence>>
    PROVE  Owes(c)
  <1>1. Owing(c, <<a>>) BY SoundOne DEF Owing, Ends, Idle
  <1> QED BY <1>1 DEF Owes, BadgeInv

LEMMA OwesTwo ==
    ASSUME BadgeInv, NEW c \in Client, Idle(c), NEW a, NEW b,
           Fine(a, scenes), Fine(b, scenes), b.do \in Judging,
           todo' = [todo EXCEPT ![c] = <<a, b>>], UNCHANGED <<scenes, badge, fence>>
    PROVE  Owes(c)
  <1>1. Owing(c, <<a, b>>) BY SoundTwo DEF Owing, Ends, Idle
  <1> QED BY <1>1 DEF Owes, BadgeInv

LEMMA FineSteps ==
    ASSUME NEW sc
    PROVE  /\ Fine(Judge, sc) /\ Judge.do \in Judging
           /\ \A S : Fine(Clear(S), sc)
           /\ \A s : LET a == [do |-> "dissolve", screen |-> s] IN Fine(a, sc) /\ a.do \in Judging
           /\ \A s, M : Fine([do |-> "forget", screen |-> s, members |-> M], sc)
           /\ \A id, what : Fine(Respan(id, what), sc)
           /\ \A m : LET a == [do |-> "close", mural |-> m] IN Fine(a, sc) /\ a.do \in Judging
           /\ \A m, L : LET a == [do |-> "evict", mural |-> m, left |-> L] IN Fine(a, sc) /\ a.do \in Judging
           /\ \A L : Fine([do |-> "rejudge", left |-> L], sc)
           /\ \A id : LET a == [do |-> "lower", id |-> id] IN Fine(a, sc) /\ a.do \in ApplyPhases
  BY DEF Fine, Judge, Clear, Respan, Judging, Phases, ApplyPhases

(* The first stretch and the later ones of a wall made, of a mural deleted. *)
OwesWith(c, r) ==
    /\ Sound(r, scenes)
    /\ r # <<>> => Ends(r, Judging)
    /\ Ends(todo[c], ApplyPhases) => Ends(r, ApplyPhases)

LEMMA OwesPushed ==
    ASSUME BadgeInv, NEW c, NEW r, OwesWith(c, r), NEW p, Sound(p, scenes), Ends(p, Judging),
           todo' = [todo EXCEPT ![c] = p \o r], scenes' = scenes, fence' = fence,
           Badged(badge', scenes)
    PROVE  Owes(c)
  <1>1. Sound(p \o r, scenes) BY SoundConcat DEF OwesWith
  <1>2. Ends(p \o r, Judging)
    <2>1. CASE r = <<>> BY <2>1, SoundConcat DEF OwesWith
    <2>2. CASE r # <<>> BY <2>2, SoundConcat DEF OwesWith
    <2> QED BY <2>1, <2>2
  <1>3. Ends(todo[c], ApplyPhases) => Ends(p \o r, ApplyPhases)
    BY SoundConcat DEF OwesWith
  <1> QED BY <1>1, <1>2, <1>3 DEF Owes, Owing

LEMMA NewWallOwes ==
    ASSUME BadgeInv, NEW c, NEW m, NEW S, NEW id, NEW r, OwesWith(c, r),
           NewWall(c, m, S, id, r), UNCHANGED <<scenes, badge, fence>>
    PROVE  Owes(c)
  <1>1. Sound(<<Clear(S), Judge>>, scenes) /\ Ends(<<Clear(S), Judge>>, Judging)
    BY FineSteps, SoundTwo
  <1> QED BY <1>1, OwesPushed DEF NewWall, Then, BadgeInv

LEMMA SplitWallOwes ==
    ASSUME BadgeInv, NEW c, NEW w, NEW r, OwesWith(c, r),
           SplitWall(c, w, r), UNCHANGED <<scenes, badge, fence>>
    PROVE  Owes(c)
  <1>1. Sound(<<Clear(w.members), Judge>>, scenes) /\ Ends(<<Clear(w.members), Judge>>, Judging)
    BY FineSteps, SoundTwo
  <1> QED BY <1>1, OwesPushed DEF SplitWall, Then, BadgeInv

LEMMA JudgeOwes ==
    ASSUME BadgeInv, NEW c, NEW r, OwesWith(c, r), Then(c, <<Judge>> \o r),
           UNCHANGED <<scenes, badge, fence>>
    PROVE  Owes(c)
  <1>1. Sound(<<Judge>>, scenes) /\ Ends(<<Judge>>, Judging)
    BY FineSteps, SoundOne
  <1> QED BY <1>1, OwesPushed DEF Then, BadgeInv

LEMMA PackOneOwes ==
    ASSUME BadgeInv, NEW c, NEW st, NEW r, OwesWith(c, r), PackOne(c, st, r),
           Fine(st, scenes), st.do = "pack"
    PROVE  Owes(c)
  <1>1. PICK s : /\ Then(c, <<[st EXCEPT !.left = @ \ {s}]>> \o r)
                 /\ UNCHANGED <<scenes, badge, fence>>
    BY DEF PackOne
  <1> DEFINE a == [st EXCEPT !.left = @ \ {s}]
  <1>2. Fine(a, scenes) /\ a.do \in Judging
    BY DEF Fine, Judging, Phases, ApplyPhases
  <1> HIDE DEF a
  <1>3. Sound(<<a>>, scenes) /\ Ends(<<a>>, Judging) BY <1>2, SoundOne
  <1> QED BY <1>1, <1>3, OwesPushed DEF Then, BadgeInv, a

LEMMA EvictOwes ==
    ASSUME BadgeInv, NEW c, NEW m, NEW placed, NEW r, OwesWith(c, r), Evict(c, m, placed, r),
           UNCHANGED <<scenes, fence>>
    PROVE  Owes(c)
  <1>1. Badged(badge', scenes)
    BY DEF BadgeInv, Badged, Evict
  <1>2. CASE placed # {}
    <2>1. PICK s : Then(c, <<[do |-> "evict", mural |-> m, left |-> placed \ {s}]>> \o r)
      BY <1>2 DEF Evict
    <2> DEFINE a == [do |-> "evict", mural |-> m, left |-> placed \ {s}]
    <2>2. Sound(<<a>>, scenes) /\ Ends(<<a>>, Judging) BY FineSteps, SoundOne
    <2> QED BY <1>1, <2>1, <2>2, OwesPushed DEF Then
  <1>3. CASE Then(c, <<[do |-> "close", mural |-> m]>> \o r)
    <2> DEFINE a == [do |-> "close", mural |-> m]
    <2>2. Sound(<<a>>, scenes) /\ Ends(<<a>>, Judging) BY FineSteps, SoundOne
    <2> QED BY <1>1, <1>3, <2>2, OwesPushed DEF Then
  <1>4. CASE Then(c, <<Judge>> \o r)
    <2>2. Sound(<<Judge>>, scenes) /\ Ends(<<Judge>>, Judging) BY FineSteps, SoundOne
    <2> QED BY <1>1, <1>4, <2>2, OwesPushed DEF Then
  <1> QED BY <1>2, <1>3, <1>4 DEF Evict

LEMMA RazeOwes ==
    ASSUME BadgeInv, NEW c, NEW st, NEW r, OwesWith(c, r), RazeWalls(c, st, r),
           Fine(st, scenes), st.do = "raze", UNCHANGED <<scenes, fence>>
    PROVE  Owes(c)
  <1>1. CASE \E w : /\ Then(c, <<[st EXCEPT !.left = @ \ {w}, !.members = @ \cup w.members]>> \o r)
                    /\ UNCHANGED badge
    <2>1. PICK w : /\ Then(c, <<[st EXCEPT !.left = @ \ {w}, !.members = @ \cup w.members]>> \o r)
                   /\ UNCHANGED badge
      BY <1>1
    <2> DEFINE a == [st EXCEPT !.left = @ \ {w}, !.members = @ \cup w.members]
    <2>2. Fine(a, scenes) /\ a.do \in Judging
      BY DEF Fine, Judging, Phases, ApplyPhases
    <2> HIDE DEF a
    <2>3. Sound(<<a>>, scenes) /\ Ends(<<a>>, Judging) BY <2>2, SoundOne
    <2> QED BY <2>1, <2>3, OwesPushed DEF Then, BadgeInv, a
  <1>2. CASE Evict(c, st.mural, OnMural(st.mural), r)
    BY <1>2, EvictOwes
  <1> QED BY <1>1, <1>2 DEF RazeWalls

LEMMA OwesNothing ==
    ASSUME BadgeInv, NEW c \in Client, Idle(c)
    PROVE  OwesWith(c, <<>>)
  <1>1. <<>> \in Seq({}) OBVIOUS
  <1> QED BY <1>1 DEF OwesWith, Sound, IsSeq, Ends, Idle

-----------------------------------------------------------------------------
(* A request: it owes a judgement, or it saves a scene or forgets one.     *)

SavesOrForgets ==
    /\ UNCHANGED <<layout, fence, todo>>
    /\ DOMAIN scenes' = SceneId
    /\ Badged(badge', scenes')
    /\ \A c \in Client : Sound(todo[c], scenes')
    /\ \A m \in Mural : badge'[m] # NoScene =>
           badge'[m] = badge[m] /\ scenes'[badge[m]] = scenes[badge[m]]

LEMMA SnapshotSaves ==
    ASSUME BadgeInv, NEW c, NEW m \in Mural, NEW id \in SceneId, Snapshot(c, m, id)
    PROVE  SavesOrForgets
  <1>1. /\ scenes' = [scenes EXCEPT ![id] = Capture(m)] /\ id \in FreshScene
        /\ UNCHANGED <<layout, badge, fence, todo>>
    BY DEF Snapshot
  <1>2. \A k \in Mural : badge[k] # id BY <1>1 DEF FreshScene
  <1>3. ASSUME NEW d1 \in Client, NEW i \in 1..Len(todo[d1]), todo[d1][i].do \in Phases
        PROVE  todo[d1][i].id # id
    <2>1. IsSeq(todo[d1]) BY DEF BadgeInv, Sound
    <2>2. DOMAIN todo[d1] = 1..Len(todo[d1]) BY <2>1 DEF IsSeq
    <2> QED BY <1>1, <1>3, <2>2 DEF FreshScene, HasStep, Phases
  <1>4. ASSUME NEW d1 \in Client PROVE Sound(todo[d1], scenes')
    BY <1>1, <1>3 DEF BadgeInv, Sound, Fine
  <1>5. Badged(badge', scenes')
    BY <1>1, <1>2 DEF BadgeInv, Badged
  <1>6. DOMAIN scenes' = SceneId BY <1>1 DEF BadgeInv
  <1>7. \A k \in Mural : badge'[k] # NoScene =>
           badge'[k] = badge[k] /\ scenes'[badge[k]] = scenes[badge[k]]
    BY <1>1, <1>2 DEF BadgeInv, Badged
  <1> QED BY <1>1, <1>4, <1>5, <1>6, <1>7 DEF SavesOrForgets

LEMMA UnsaveForgets ==
    ASSUME BadgeInv, NEW c, NEW id \in SceneId, Unsave(c, id)
    PROVE  SavesOrForgets
  <1>1. /\ scenes' = [scenes EXCEPT ![id] = NoScene]
        /\ badge' = [m \in Mural |-> IF badge[m] = id THEN NoScene ELSE badge[m]]
        /\ UNCHANGED <<layout, fence, todo>>
    BY DEF Unsave
  <1>4. ASSUME NEW d1 \in Client PROVE Sound(todo[d1], scenes')
    BY <1>1 DEF BadgeInv, Sound, Fine
  <1>5. Badged(badge', scenes')
    BY <1>1 DEF BadgeInv, Badged
  <1>6. DOMAIN scenes' = SceneId BY <1>1 DEF BadgeInv
  <1>7. \A k \in Mural : badge'[k] # NoScene =>
           badge'[k] = badge[k] /\ scenes'[badge[k]] = scenes[badge[k]]
    BY <1>1 DEF BadgeInv, Badged
  <1> QED BY <1>1, <1>4, <1>5, <1>6, <1>7 DEF SavesOrForgets

(* An apply raises the fence and owes what every phase of it owes. *)
LEMMA ApplyOwes ==
    ASSUME BadgeInv, NEW c \in Client, NEW id \in SceneId, Apply(c, id)
    PROVE  Owes(c) \/ (\E q : /\ Owing(c, q) /\ Ends(q, ApplyPhases)
                              /\ todo' = [todo EXCEPT ![c] = q]
                              /\ UNCHANGED <<scenes, badge>>)
  <1> DEFINE a == [do |-> "resplit", id |-> id, scene |-> scenes[id],
                   left |-> {w.id : w \in WallsOn(scenes[id].mural)}]
  <1>1. Idle(c) /\ todo' = [todo EXCEPT ![c] = <<a>>] /\ UNCHANGED <<scenes, badge>>
    BY DEF Apply, Then
  <1>2. Fine(a, scenes) /\ a.do \in ApplyPhases
    BY DEF Fine, Phases, ApplyPhases
  <1> HIDE DEF a
  <1>3. Sound(<<a>>, scenes) /\ Ends(<<a>>, ApplyPhases) BY <1>2, SoundOne
  <1>4. Owing(c, <<a>>) BY <1>1, <1>3 DEF Owing, Ends, Judging
  <1> QED BY <1>1, <1>3, <1>4

Raises(c) ==
    \E q : /\ Owing(c, q) /\ Ends(q, ApplyPhases)
           /\ todo' = [todo EXCEPT ![c] = q]
           /\ UNCHANGED <<scenes, badge>>

LEMMA RequestJudged ==
    ASSUME BadgeInv, NEW ops, ops \subseteq JudgedOps, NEW c \in Client, RequestOf(c, ops)
    PROVE  Owes(c) \/ SavesOrForgets \/ Raises(c)
  <1>0. OwesWith(c, <<>>) \/ ~Idle(c) BY OwesNothing
  <1> USE DEF Then
  <1>1. CASE \E s \in Screen, m \in Mural, cell \in Cell : Place(c, s, m, cell)
    BY <1>1, FineSteps, OwesOne DEF Place
  <1>2. CASE \E s \in Screen : Unplace(c, s)
    <2>1. PICK s \in Screen : Unplace(c, s) BY <1>2
    <2> DEFINE a == [do |-> "dissolve", screen |-> s]
    <2>2. Fine(a, scenes) /\ a.do \in Judging BY FineSteps
    <2> HIDE DEF a
    <2> QED BY <2>1, <2>2, OwesOne DEF Unplace, a
  <1>3. CASE \E s \in Screen : Forget(c, s)
    <2>1. PICK s \in Screen : Forget(c, s) BY <1>3
    <2> DEFINE a == [do |-> "forget", screen |-> s, members |-> WallOf(s).members]
    <2>2. Fine(a, scenes) /\ Fine(Judge, scenes) /\ Judge.do \in Judging BY FineSteps
    <2> HIDE DEF a
    <2>3. CASE Walled(s)
      BY <2>1, <2>2, <2>3, OwesTwo DEF Forget, a
    <2>4. CASE ~Walled(s)
      BY <2>1, <2>2, <2>4, OwesOne DEF Forget
    <2> QED BY <2>3, <2>4
  <1>4. CASE \E m \in Mural, S \in SUBSET Screen : Combine(c, m, S)
    BY <1>4, <1>0, NewWallOwes DEF Combine
  <1>5. CASE \E m \in Mural, S \in SUBSET Screen : Pack(c, m, S)
    <2>1. PICK m, S : PackOne(c, [do |-> "pack", mural |-> m, to |-> Packed(S), members |-> S, left |-> S], <<>>)
      BY <1>5 DEF Pack
    <2>2. Idle(c) BY <1>5 DEF Pack
    <2> DEFINE st == [do |-> "pack", mural |-> m, to |-> Packed(S), members |-> S, left |-> S]
    <2>3. Fine(st, scenes) /\ st.do = "pack" BY DEF Fine, Phases, ApplyPhases
    <2> HIDE DEF st
    <2> QED BY <2>1, <2>2, <2>3, <1>0, PackOneOwes DEF st
  <1>6. CASE \E w \in walls : Split(c, w)
    BY <1>6, <1>0, SplitWallOwes DEF Split, SplitWall
  <1>7. CASE \E s \in Screen, what \in What : AssignScreen(c, s, what)
    BY <1>7, <1>0, JudgeOwes DEF AssignScreen, ShowOn
  <1>8. CASE \E w \in walls, what \in What : AssignWall(c, w, what)
    BY <1>8, <1>0, JudgeOwes DEF AssignWall, SpanWall
  <1>13. CASE \E m \in Mural, id \in SceneId : Snapshot(c, m, id)
    BY <1>13, SnapshotSaves
  <1>14. CASE \E id \in SceneId : Apply(c, id)
    BY <1>14, ApplyOwes DEF Raises
  <1>15. CASE \E id \in SceneId : Unsave(c, id)
    BY <1>15, UnsaveForgets
  <1>16. CASE \E m \in Mural : Raze(c, m)
    <2>1. PICK m \in Mural : Raze(c, m) BY <1>16
    <2> DEFINE st == [do |-> "raze", mural |-> m, left |-> WallsOn(m), members |-> {}]
    <2>2. Idle(c) /\ RazeWalls(c, st, <<>>) /\ UNCHANGED <<scenes, fence>>
      BY <2>1 DEF Raze
    <2>3. Fine(st, scenes) /\ st.do = "raze" BY DEF Fine, Phases, ApplyPhases
    <2> HIDE DEF st
    <2> QED BY <2>2, <2>3, <1>0, RazeOwes
  <1>17. /\ "clear" \notin ops /\ "unlist" \notin ops
         /\ \A S : MoveKind(S) \notin ops
    BY DEF JudgedOps, MoveKind
  <1> QED BY <1>1, <1>2, <1>3, <1>4, <1>5, <1>6, <1>7, <1>8, <1>13, <1>14, <1>15, <1>16,
             <1>17 DEF RequestOf

-----------------------------------------------------------------------------
(* A later stretch: it owes a judgement, or it is one, or it leaves one to  *)
(* the apply that has the fence up.                                         *)

Defers(c) ==
    /\ fence /\ Head(todo[c]).do = "judge"
    /\ Then(c, Tail(todo[c]))
    /\ UNCHANGED <<layout, scenes, badge, fence>>

LEMMA ResumeJudged ==
    ASSUME BadgeInv, NEW c \in Client, Resume(c)
    PROVE  Owes(c) \/ Judges(c) \/ Defers(c)
  <1> DEFINE st == Head(todo[c]) rest == Tail(todo[c])
  <1>q. todo[c] # <<>> /\ Sound(todo[c], scenes) /\ Shape(todo[c])
    BY DEF BadgeInv, Resume, Idle
  <1>h. Fine(st, scenes) /\ Sound(rest, scenes) BY <1>q, SoundTail
  <1>r. rest # <<>> => Ends(rest, Judging)
    BY <1>q, SoundTail DEF Shape
  <1>a. Ends(todo[c], ApplyPhases) /\ rest = <<>> => st.do \in ApplyPhases
    BY <1>q, SoundTail
  <1>b. Ends(todo[c], ApplyPhases) /\ rest # <<>> => Ends(rest, ApplyPhases)
    BY <1>q, SoundTail
  <1>k. st.do \notin Judging /\ st.do # "rejudge" => rest # <<>>
    BY <1>q, SoundTail DEF Shape
  <1>bg. Badged(badge, scenes) BY DEF BadgeInv
  <1> HIDE DEF st, rest
  <1> USE DEF Then
  <1>t. ASSUME st.do \notin ApplyPhases PROVE OwesWith(c, rest)
    BY <1>t, <1>h, <1>r, <1>a, <1>b DEF OwesWith, Ends
  (* The steps that only do their work: a judgement comes after them. *)
  <1>w. ASSUME st.do \notin Judging, st.do # "rejudge", todo' = [todo EXCEPT ![c] = rest],
               UNCHANGED <<scenes, badge, fence>>
        PROVE  Owes(c)
    <2>1. rest # <<>> BY <1>w, <1>k
    <2>2. Owing(c, rest) BY <2>1, <1>h, <1>r, <1>b DEF Owing
    <2> QED BY <1>w, <2>2, <1>bg DEF Owes
  (* The phases of an apply, each followed by a phase. *)
  <1>many. ASSUME NEW p, Sound(p, scenes), Ends(p, ApplyPhases) PROVE Owing(c, p \o rest)
    <2>1. Ends(p, Judging) BY <1>many DEF Ends, Judging
    <2>2. Sound(p \o rest, scenes) BY <1>many, <1>h, SoundConcat
    <2>3. CASE rest = <<>>
      BY <2>1, <2>2, <2>3, <1>many, <1>h, SoundConcat DEF Owing
    <2>4. CASE rest # <<>>
      BY <2>2, <2>4, <1>many, <1>h, <1>r, <1>b, SoundConcat DEF Owing
    <2> QED BY <2>3, <2>4
  <1>f. ASSUME NEW a, Fine(a, scenes), a.do \in ApplyPhases PROVE Owing(c, <<a>> \o rest)
    BY <1>f, <1>many, SoundOne
  <1>two. ASSUME NEW a, NEW b, Fine(a, scenes), Fine(b, scenes), b.do \in ApplyPhases
          PROVE  Owing(c, <<a, b>> \o rest)
    BY <1>two, <1>many, SoundTwo
  <1>o. ASSUME NEW q, Owing(c, q), todo' = [todo EXCEPT ![c] = q],
               UNCHANGED <<scenes, fence>>, Badged(badge', scenes)
        PROVE  Owes(c)
    BY <1>o DEF Owes
  <1>x. ASSUME NEW x, st.do \in Phases
        PROVE  Fine(Rest(st, x), scenes) /\ Owing(c, <<Rest(st, x)>> \o rest)
    <2>1. Fine(Rest(st, x), scenes) /\ Rest(st, x).do \in ApplyPhases
      BY <1>x, <1>h DEF Fine, Rest, Phases
    <2> QED BY <2>1, <1>f
  <1>p. ASSUME NEW name \in Phases, NEW left, st.do \in Phases
        PROVE  Owing(c, <<Phase(name, st, left)>> \o rest)
    <2>1. Fine(Phase(name, st, left), scenes) /\ Phase(name, st, left).do \in ApplyPhases
      BY <1>p, <1>h DEF Fine, Phase, Phases, ApplyPhases
    <2> QED BY <2>1, <1>f
  <1>e. ASSUME NEW name \in Phases, NEW left, st.do \in Phases, Enter(c, name, st, left, rest),
               UNCHANGED scenes
        PROVE  Owes(c)
    BY <1>e, <1>p, <1>o, <1>bg DEF Enter
  <1>s. ASSUME NEW x, st.do \in Phases, Skip(c, st, x, rest), UNCHANGED scenes PROVE Owes(c)
    BY <1>s, <1>x, <1>o, <1>bg DEF Skip
  <1>g. ASSUME NEW q, Owing(c, q), NEW pre, Sound(pre, scenes), Then(c, pre \o q),
               UNCHANGED <<scenes, badge, fence>>
        PROVE  Owes(c)
    BY <1>g, <1>o, <1>bg, OwingPushed
  <1>i. \A q : Owing(c, q) => OwesWith(c, q)
    BY DEF Owing, OwesWith
  <1>1. CASE st.do = "judge" /\ JudgeStep(c, rest)
    BY <1>1 DEF JudgeStep, Judges, Defers, st, rest
  <1>2. CASE st.do = "rejudge" /\ RejudgeStep(c, st, rest)
    BY <1>2 DEF RejudgeStep, Judges, st, rest
  <1>3. CASE st.do = "lower" /\ Lower(c, st, rest)
    BY <1>3 DEF Lower, Judges, st, rest
  <1>4. CASE st.do = "dissolve" /\ Dissolve(c, st, rest)
    <2>1. OwesWith(c, rest) BY <1>4, <1>t DEF ApplyPhases
    <2>2. UNCHANGED <<scenes, badge, fence>> BY <1>4 DEF Dissolve
    <2>3. CASE Walled(st.screen)
      <3> DEFINE p == <<Clear(WallOf(st.screen).members), Judge>>
      <3>1. Sound(p, scenes) /\ Ends(p, Judging)
        BY FineSteps, SoundTwo
      <3>2. todo' = [todo EXCEPT ![c] = p \o rest] BY <1>4, <2>3 DEF Dissolve
      <3> HIDE DEF p
      <3> QED BY <2>1, <2>2, <3>1, <3>2, <1>bg, OwesPushed
    <2>4. CASE ~Walled(st.screen)
      BY <1>4, <2>1, <2>2, <2>4, JudgeOwes DEF Dissolve
    <2> QED BY <2>3, <2>4
  <1>5. CASE st.do = "clear" /\ ClearStep(c, st, rest)
    BY <1>5, <1>w DEF ClearStep, Judging, ApplyPhases
  <1>6. CASE st.do = "forget" /\ ForgetStep(c, st, rest)
    BY <1>6, <1>w DEF ForgetStep, Judging, ApplyPhases
  <1>8. CASE st.do = "pack" /\ PackStep(c, st, rest)
    <2>1. OwesWith(c, rest) BY <1>8, <1>t DEF ApplyPhases
    <2> QED BY <1>8, <2>1, <1>h, PackOneOwes, NewWallOwes DEF PackStep
  <1>10. CASE st.do = "respan" /\ RespanStep(c, st, rest)
    <2>1. OwesWith(c, rest) BY <1>10, <1>t DEF ApplyPhases
    <2>2. CASE Then(c, rest) /\ UNCHANGED <<scenes, badge, fence>>
      BY <2>2, <1>10, <1>w DEF Judging, ApplyPhases
    <2>3. CASE \E w : SpanWall(c, w, st.what, rest)
      BY <2>1, <2>3, JudgeOwes DEF SpanWall
    <2> QED BY <1>10, <2>2, <2>3 DEF RespanStep
  <1>11. CASE st.do = "raze" /\ RazeStep(c, st, rest)
    <2>1. OwesWith(c, rest) BY <1>11, <1>t DEF ApplyPhases
    <2> QED BY <1>11, <2>1, <1>h, RazeOwes DEF RazeStep
  <1>12. CASE st.do = "evict" /\ EvictStep(c, st, rest)
    <2>1. OwesWith(c, rest) BY <1>12, <1>t DEF ApplyPhases
    <2> QED BY <1>12, <2>1, EvictOwes DEF EvictStep
  <1>13. CASE st.do = "close" /\ Close(c, st, rest)
    <2>1. OwesWith(c, rest) BY <1>13, <1>t DEF ApplyPhases
    <2> QED BY <1>13, <2>1, JudgeOwes DEF Close
  <1>14. CASE st.do = "resplit" /\ Resplit(c, st, rest) /\ UNCHANGED scenes
    <2>0. st.do \in Phases /\ "omit" \in Phases BY <1>14 DEF Phases, ApplyPhases
    <2>1. CASE \E id, w : SplitWall(c, w, <<Rest(st, id)>> \o rest)
      <3>1. PICK id, w : SplitWall(c, w, <<Rest(st, id)>> \o rest) BY <2>1
      <3>2. OwesWith(c, <<Rest(st, id)>> \o rest) BY <2>0, <1>x, <1>i
      <3> QED BY <3>1, <3>2, SplitWallOwes DEF SplitWall
    <2>2. CASE \E id \in st.left : Skip(c, st, id, rest)
      BY <2>0, <2>2, <1>14, <1>s
    <2>3. CASE Enter(c, "omit", st, OnMural(st.scene.mural) \ DOMAIN st.scene.at, rest)
      BY <2>0, <2>3, <1>14, <1>e
    <2> QED BY <1>14, <2>1, <2>2, <2>3 DEF Resplit
  <1>15. CASE st.do = "omit" /\ Omit(c, st, rest) /\ UNCHANGED scenes
    <2>0. st.do \in Phases /\ "lay" \in Phases BY <1>15 DEF Phases, ApplyPhases
    <2>1. CASE \E s \in st.left : /\ Then(c, <<[do |-> "dissolve", screen |-> s], Rest(st, s)>> \o rest)
                                  /\ UNCHANGED <<badge, fence>>
      <3>1. PICK s \in st.left : /\ Then(c, <<[do |-> "dissolve", screen |-> s], Rest(st, s)>> \o rest)
                                 /\ UNCHANGED <<badge, fence>>
        BY <2>1
      <3> DEFINE a == [do |-> "dissolve", screen |-> s]
      <3>2. Fine(a, scenes) /\ Fine(Rest(st, s), scenes) BY <2>0, <1>x, FineSteps
      <3>3. Rest(st, s).do \in ApplyPhases BY <2>0, <1>h DEF Rest, Phases, Fine
      <3> HIDE DEF a
      <3>4. Owing(c, <<a, Rest(st, s)>> \o rest) BY <3>2, <3>3, <1>two
      <3> QED BY <3>1, <3>4, <1>15, <1>o, <1>bg DEF a
    <2>2. CASE \E s \in st.left : Skip(c, st, s, rest)
      BY <2>0, <2>2, <1>15, <1>s
    <2>3. CASE Enter(c, "lay", st, DOMAIN st.scene.at, rest)
      BY <2>0, <2>3, <1>15, <1>e
    <2> QED BY <1>15, <2>1, <2>2, <2>3 DEF Omit
  <1>16. CASE st.do = "lay" /\ Lay(c, st, rest) /\ UNCHANGED scenes
    <2>0. st.do \in Phases /\ "regroup" \in Phases BY <1>16 DEF Phases, ApplyPhases
    <2>1. CASE \E s \in st.left : /\ Then(c, <<Judge, Rest(st, s)>> \o rest)
                                  /\ UNCHANGED <<badge, fence>>
      <3>1. PICK s \in st.left : /\ Then(c, <<Judge, Rest(st, s)>> \o rest)
                                 /\ UNCHANGED <<badge, fence>>
        BY <2>1
      <3>2. Fine(Judge, scenes) /\ Fine(Rest(st, s), scenes) BY <2>0, <1>x, FineSteps
      <3>3. Rest(st, s).do \in ApplyPhases BY <2>0, <1>h DEF Rest, Phases, Fine
      <3>4. Owing(c, <<Judge, Rest(st, s)>> \o rest) BY <3>2, <3>3, <1>two
      <3> QED BY <3>1, <3>4, <1>16, <1>o, <1>bg
    <2>2. CASE \E s \in st.left : Skip(c, st, s, rest)
      BY <2>0, <2>2, <1>16, <1>s
    <2>3. CASE Enter(c, "regroup", st, st.scene.walls, rest)
      BY <2>0, <2>3, <1>16, <1>e
    <2> QED BY <1>16, <2>1, <2>2, <2>3 DEF Lay
  <1>17. CASE st.do = "regroup" /\ Regroup(c, st, rest) /\ UNCHANGED scenes
    <2>0. st.do \in Phases /\ "dress" \in Phases BY <1>17 DEF Phases, ApplyPhases
    <2>1. CASE \E k \in st.left : \E m, S, id :
                    /\ NewWall(c, m, S, id, (IF k.what = Dark THEN <<>> ELSE <<Respan(id, k.what)>>)
                                               \o <<Rest(st, k)>> \o rest)
                    /\ UNCHANGED <<badge, fence>>
      <3>1. PICK k, m, S, id :
                    /\ k \in st.left
                    /\ NewWall(c, m, S, id, (IF k.what = Dark THEN <<>> ELSE <<Respan(id, k.what)>>)
                                               \o <<Rest(st, k)>> \o rest)
                    /\ UNCHANGED <<badge, fence>>
        BY <2>1
      <3>2. Fine(Rest(st, k), scenes) /\ Owing(c, <<Rest(st, k)>> \o rest) BY <2>0, <1>x
      <3>3. Rest(st, k).do \in ApplyPhases BY <2>0, <1>h DEF Rest, Phases, Fine
      <3>4. Owing(c, (IF k.what = Dark THEN <<>> ELSE <<Respan(id, k.what)>>) \o <<Rest(st, k)>> \o rest)
        <4> DEFINE r == Respan(id, k.what) z == Rest(st, k)
        <4>0. Fine(r, scenes) BY FineSteps
        <4>1. CASE k.what = Dark
          <5>1. <<>> \o <<z>> = <<z>> OBVIOUS
          <5> QED BY <4>1, <5>1, <3>2
        <4>2. CASE k.what # Dark
          <5> HIDE DEF r, z
          <5>1. Sound(<<z>>, scenes) /\ Ends(<<z>>, ApplyPhases) BY <3>2, <3>3, SoundOne DEF z
          <5>2. Sound(<<r>>, scenes) BY <4>0, SoundOne
          <5>3. Sound(<<r>> \o <<z>>, scenes) /\ Ends(<<r>> \o <<z>>, ApplyPhases)
            BY <5>1, <5>2, SoundConcat
          <5>4. Owing(c, (<<r>> \o <<z>>) \o rest) BY <5>3, <1>many
          <5> QED BY <4>2, <5>4 DEF r, z
        <4> QED BY <4>1, <4>2
      <3> QED BY <3>1, <3>4, <1>i, <1>17, NewWallOwes
    <2>2. CASE \E k \in st.left : Skip(c, st, k, rest)
      BY <2>0, <2>2, <1>17, <1>s
    <2>3. CASE Enter(c, "dress", st, DOMAIN st.scene.own, rest)
      BY <2>0, <2>3, <1>17, <1>e
    <2> QED BY <1>17, <2>1, <2>2, <2>3 DEF Regroup
  <1>18. CASE st.do = "dress" /\ Dress(c, st, rest) /\ UNCHANGED scenes
    <2>0. st.do \in Phases BY <1>18 DEF Phases, ApplyPhases
    <2>1. CASE \E s \in st.left : \E what : ShowOn(c, s, what, <<Rest(st, s)>> \o rest)
      <3>1. PICK s, what : s \in st.left /\ ShowOn(c, s, what, <<Rest(st, s)>> \o rest) BY <2>1
      <3>2. OwesWith(c, <<Rest(st, s)>> \o rest) BY <2>0, <1>x, <1>i
      <3> QED BY <3>1, <3>2, JudgeOwes DEF ShowOn
    <2>2. CASE \E s \in st.left : Skip(c, st, s, rest)
      BY <2>0, <2>2, <1>18, <1>s
    <2>3. CASE /\ badge' = [badge EXCEPT ![st.scene.mural] = st.id]
               /\ Then(c, <<[do |-> "lower", id |-> st.id]>> \o rest)
               /\ UNCHANGED <<layout, fence>>
      <3> DEFINE a == [do |-> "lower", id |-> st.id]
      <3>1. Fine(a, scenes) /\ a.do \in ApplyPhases BY FineSteps
      <3>2. Owing(c, <<a>> \o rest) BY <3>1, <1>f
      <3>3. st.id \in SceneId /\ scenes[st.id] \in {NoScene, st.scene}
        BY <2>0, <1>h DEF Fine
      <3>4. Badged(badge', scenes) BY <2>3, <3>3, <1>bg DEF Badged
      <3> QED BY <2>3, <3>2, <3>4, <1>18, <1>o
    <2> QED BY <1>18, <2>1, <2>2, <2>3 DEF Dress
  <1>19. st.do # "shift" /\ st.do # "unlist" BY <1>h DEF Fine
  <1> QED BY <1>1, <1>2, <1>3, <1>4, <1>5, <1>6, <1>8, <1>10, <1>11, <1>12,
             <1>13, <1>14, <1>15, <1>16, <1>17, <1>18, <1>19 DEF Resume, st, rest

-----------------------------------------------------------------------------
(* Each kind of step keeps the invariant. *)

LEMMA OwingKeeps ==
    ASSUME BadgeInv, NEW c \in Client, NEW q, Owing(c, q), todo' = [todo EXCEPT ![c] = q],
           Badged(badge', scenes), scenes' = scenes,
           fence' => fence \/ Ends(q, ApplyPhases)
    PROVE  BadgeInv'
  <1>1. todo' = [d \in Client |-> todo'[d]] BY DEF BadgeInv
  <1>2. todo'[c] = q /\ \A d \in Client \ {c} : todo'[d] = todo[d] BY DEF BadgeInv
  <1>3. \A d \in Client : Sound(todo'[d], scenes') /\ Shape(todo'[d])
    BY <1>2 DEF BadgeInv, Owing, Shape
  <1>4. fence' => \E d \in Client : Ends(todo'[d], ApplyPhases)
    BY <1>2 DEF BadgeInv, Owing
  <1>5. \A m \in Mural : Awaited(m)'
    BY <1>2 DEF Awaited, Owing
  <1> QED BY <1>1, <1>3, <1>4, <1>5 DEF BadgeInv

(* A badge whose scene and layout are as they were stands as it did. *)
LEMMA BadgeStays ==
    ASSUME UNCHANGED layout, NEW m, badge'[m] = badge[m], scenes'[badge[m]] = scenes[badge[m]],
           Stands(m, badge[m])
    PROVE  Stands(m, badge[m])'
  <1>1. PICK id : id = badge[m] OBVIOUS
  <1>2. Stands(m, id)' BY <1>1, StandsStays
  <1> QED BY <1>1, <1>2

LEMMA SavingKeeps ==
    ASSUME BadgeInv, SavesOrForgets
    PROVE  BadgeInv'
  <1>1. ASSUME NEW m \in Mural, badge'[m] # NoScene PROVE Stands(m, badge[m])' \/ Awaited(m)'
    <2>1. badge'[m] = badge[m] /\ scenes'[badge[m]] = scenes[badge[m]] BY <1>1 DEF SavesOrForgets
    <2>2. CASE Awaited(m)
      BY <2>1, <2>2 DEF Awaited, SavesOrForgets
    <2>3. CASE Stands(m, badge[m])
      BY <2>1, <2>3, BadgeStays DEF SavesOrForgets
    <2> QED BY <1>1, <2>1, <2>2, <2>3 DEF BadgeInv
  <1> QED BY <1>1 DEF BadgeInv, SavesOrForgets

(* The fence is up, so an apply is under way, and it will judge. *)
LEMMA DeferringKeeps ==
    ASSUME BadgeInv, NEW c \in Client, ~Idle(c), Defers(c)
    PROVE  BadgeInv'
  <1>1. PICK d \in Client : Ends(todo[d], ApplyPhases) BY DEF BadgeInv, Defers
  <1>q. todo[c] # <<>> /\ Sound(todo[c], scenes) /\ Shape(todo[c])
    BY DEF BadgeInv, Idle
  <1>2. Sound(Tail(todo[c]), scenes) BY <1>q, SoundTail
  <1>3. \A K : Ends(todo[c], K) /\ Tail(todo[c]) # <<>> => Ends(Tail(todo[c]), K)
    BY <1>q, SoundTail
  <1>4. Ends(todo[c], ApplyPhases) => Tail(todo[c]) # <<>>
    BY <1>q, SoundTail DEF Defers, ApplyPhases
  <1>5. Tail(todo[c]) # <<>> => Ends(Tail(todo[c]), Judging)
    BY <1>q, <1>3, SoundTail DEF Shape
  <1>6. /\ todo'[c] = Tail(todo[c]) /\ \A e \in Client \ {c} : todo'[e] = todo[e]
        /\ todo' = [e \in Client |-> todo'[e]]
    BY DEF BadgeInv, Defers, Then
  <1>7. Ends(todo'[d], ApplyPhases)
    BY <1>1, <1>3, <1>4, <1>6
  <1>8. \A m \in Mural : Awaited(m)'
    BY <1>7 DEF Awaited, Ends, Judging
  <1>9. \A e \in Client : Sound(todo'[e], scenes) /\ Shape(todo'[e])
    BY <1>2, <1>5, <1>6 DEF BadgeInv, Shape
  <1> QED BY <1>6, <1>7, <1>8, <1>9 DEF BadgeInv, Defers

(* A judgement: the badges it found standing stand, the one it cleared is   *)
(* gone, and those it has still to look at are in what it leaves.           *)
LEMMA JudgingKeeps ==
    ASSUME BadgeInv, NEW c \in Client, ~Idle(c), Judges(c)
    PROVE  BadgeInv'
  <1> DEFINE rest == Tail(todo[c])
             rec(m) == [mural |-> m, id |-> badge[m]]
  <1>q. todo[c] # <<>> /\ Sound(todo[c], scenes) /\ Shape(todo[c])
    BY DEF BadgeInv, Idle
  <1>1. Sound(rest, scenes) BY <1>q, SoundTail
  <1>2. \A K : Ends(todo[c], K) /\ rest # <<>> => Ends(rest, K)
    BY <1>q, SoundTail
  <1>3. rest # <<>> => Ends(rest, Judging)
    BY <1>q, SoundTail DEF Shape
  <1>4. Ends(todo[c], ApplyPhases) /\ rest = <<>> => Head(todo[c]).do \in ApplyPhases
    BY <1>q, SoundTail
  <1>5. Ends(todo[c], Judging) /\ rest = <<>> => Head(todo[c]).do \in Judging
    BY <1>q, SoundTail
  <1>6. todo[c][1] = Head(todo[c]) /\ (Len(todo[c]) = 1 <=> rest = <<>>)
    BY <1>q, SoundTail
  <1>7. PICK left : /\ Rejudge(c, left, rest)
                    /\ UNCHANGED <<layout, scenes>>
                    /\ \/ left = Badges /\ fence' = FALSE
                       \/ left = Head(todo[c]).left /\ Head(todo[c]).do = "rejudge" /\ fence' = fence
    BY DEF Judges
  <1>8. Badged(badge', scenes)
    BY <1>7 DEF Rejudge, Badged, BadgeInv
  <1>9. PICK q : /\ todo' = [todo EXCEPT ![c] = q]
                 /\ \/ q = rest /\ badge' = badge /\ \A b \in left : Stands(b.mural, b.id)
                    \/ \E b \in left, standing \in SUBSET left :
                         /\ badge' = [badge EXCEPT ![b.mural] = NoScene]
                         /\ \A x \in standing : Stands(x.mural, x.id)
                         /\ q = <<[do |-> "rejudge", left |-> left \ (standing \cup {b})]>> \o rest
    BY <1>7 DEF Rejudge, Then
  <1> HIDE DEF rest
  <1>10. \A x : /\ Sound(<<[do |-> "rejudge", left |-> x]>> \o rest, scenes)
                /\ \A K : Ends(rest, K) => Ends(<<[do |-> "rejudge", left |-> x]>> \o rest, K)
                /\ rest = <<>> => <<[do |-> "rejudge", left |-> x]>> \o rest = <<[do |-> "rejudge", left |-> x]>>
    <2> TAKE x
    <2> DEFINE a == [do |-> "rejudge", left |-> x]
    <2>1. Fine(a, scenes) BY FineSteps
    <2> HIDE DEF a
    <2>2. Sound(<<a>>, scenes) BY <2>1, SoundOne
    <2>3. /\ Sound(<<a>> \o rest, scenes)
          /\ \A K : Ends(rest, K) => Ends(<<a>> \o rest, K)
          /\ rest = <<>> => <<a>> \o rest = <<a>>
      BY <2>2, <1>1, SoundConcat
    <2> QED BY <2>3 DEF a
  <1>11. Sound(q, scenes) /\ \A K : Ends(rest, K) => Ends(q, K)
    BY <1>1, <1>9, <1>10
  <1>12. /\ todo'[c] = q /\ \A e \in Client \ {c} : todo'[e] = todo[e]
         /\ todo' = [e \in Client |-> todo'[e]]
    BY <1>9 DEF BadgeInv
  <1>13. Shape(q)
    <2>1. CASE rest # <<>> BY <2>1, <1>3, <1>11 DEF Shape
    <2>2. CASE rest = <<>> /\ q = rest BY <2>2 DEF Shape
    <2>3. CASE rest = <<>> /\ \E x : q = <<[do |-> "rejudge", left |-> x]>>
      BY <2>3 DEF Shape
    <2> QED BY <2>1, <2>2, <2>3, <1>9, <1>10
  <1>14. fence' => \E d \in Client : Ends(todo'[d], ApplyPhases)
    <2> SUFFICES ASSUME fence' PROVE \E d \in Client : Ends(todo'[d], ApplyPhases) OBVIOUS
    <2>1. Head(todo[c]).do = "rejudge" /\ fence BY <1>7
    <2>2. PICK d \in Client : Ends(todo[d], ApplyPhases) BY <2>1 DEF BadgeInv
    <2>3. CASE d = c
      <3>1. rest # <<>> BY <2>1, <2>2, <2>3, <1>4 DEF ApplyPhases
      <3> QED BY <3>1, <2>2, <2>3, <1>2, <1>11, <1>12
    <2>4. CASE d # c BY <2>2, <2>4, <1>12
    <2> QED BY <2>3, <2>4
  <1>15. ASSUME NEW m \in Mural, badge'[m] # NoScene PROVE Stands(m, badge[m])' \/ Awaited(m)'
    <2>1. badge'[m] = badge[m] BY <1>9, <1>15 DEF BadgeInv, Badged
    <2>2. CASE rest # <<>>
      <3>1. Ends(todo'[c], Judging) BY <2>2, <1>3, <1>11, <1>12
      <3> QED BY <3>1 DEF Awaited
    <2>3. CASE Stands(m, badge[m])
      BY <2>1, <2>3, <1>7, BadgeStays
    <2>4. CASE rest = <<>> /\ ~Stands(m, badge[m])
      <3>1. CASE rec(m) \in left
        <4>1. rec(m).mural = m /\ rec(m).id = badge[m] OBVIOUS
        <4>2. PICK b \in left, standing \in SUBSET left :
                  /\ badge' = [badge EXCEPT ![b.mural] = NoScene]
                  /\ \A x \in standing : Stands(x.mural, x.id)
                  /\ q = <<[do |-> "rejudge", left |-> left \ (standing \cup {b})]>> \o rest
          BY <2>4, <3>1, <4>1, <1>9
        <4>3. rec(m) \notin standing BY <2>4, <4>1, <4>2
        <4>4. b.mural # m BY <4>2, <1>15 DEF BadgeInv, Badged
        <4>5. rec(m) # b BY <4>1, <4>4
        <4> DEFINE a == [do |-> "rejudge", left |-> left \ (standing \cup {b})]
        <4>6. q = <<a>> BY <4>2, <2>4, <1>10
        <4>7. a.do = "rejudge" /\ rec(m) \in a.left BY <3>1, <4>3, <4>5
        <4> HIDE DEF a
        <4>8. Len(q) = 1 /\ q[1] = a BY <4>6
        <4>9. [mural |-> m, id |-> badge'[m]] \in a.left BY <2>1, <4>7
        <4> QED BY <4>7, <4>8, <4>9, <1>12 DEF Awaited
      <3>2. CASE rec(m) \notin left
        <4>1. badge[m] # NoScene BY <2>1, <1>15
        <4>2. left # Badges BY <3>2, <4>1 DEF Badges
        <4>3. left = Head(todo[c]).left /\ Head(todo[c]).do = "rejudge" BY <4>2, <1>7
        <4>4. PICK d \in Client :
                  \/ Ends(todo[d], Judging)
                  \/ /\ Len(todo[d]) = 1 /\ todo[d][1].do = "rejudge"
                     /\ rec(m) \in todo[d][1].left
          BY <4>1, <2>4 DEF BadgeInv, Awaited
        <4>5. d # c BY <4>3, <4>4, <3>2, <2>4, <1>5, <1>6 DEF Judging, ApplyPhases
        <4> QED BY <4>4, <4>5, <2>1, <1>12 DEF Awaited
      <3> QED BY <3>1, <3>2
    <2> QED BY <2>2, <2>3, <2>4
  <1>16. \A e \in Client : Sound(todo'[e], scenes) /\ Shape(todo'[e])
    BY <1>11, <1>12, <1>13 DEF BadgeInv
  <1> QED BY <1>7, <1>8, <1>12, <1>14, <1>15, <1>16 DEF BadgeInv

LEMMA BadgeInvStays ==
    ASSUME NEW ops, ops \subseteq JudgedOps, BadgeInv, [NextOf(ops)]_vars
    PROVE  BadgeInv'
  <1>1. ASSUME NEW c \in Client, Owes(c) PROVE BadgeInv'
    <2>1. PICK q : Owing(c, q) /\ todo' = [todo EXCEPT ![c] = q] BY <1>1 DEF Owes
    <2> QED BY <1>1, <2>1, OwingKeeps DEF Owes
  <1>2. ASSUME NEW c \in Client, Raises(c) PROVE BadgeInv'
    <2>1. PICK q : /\ Owing(c, q) /\ Ends(q, ApplyPhases)
                   /\ todo' = [todo EXCEPT ![c] = q]
                   /\ UNCHANGED <<scenes, badge>>
      BY <1>2 DEF Raises
    <2>2. Badged(badge', scenes) BY <2>1 DEF BadgeInv
    <2> QED BY <2>1, <2>2, OwingKeeps
  <1>3. ASSUME NEW c \in Client, RequestOf(c, ops) PROVE BadgeInv'
    BY <1>1, <1>2, <1>3, RequestJudged, SavingKeeps
  <1>4. ASSUME NEW c \in Client, Resume(c) PROVE BadgeInv'
    <2>1. ~Idle(c) BY <1>4 DEF Resume
    <2> QED BY <1>1, <1>4, <2>1, ResumeJudged, JudgingKeeps, DeferringKeeps
  <1>5. CASE UNCHANGED vars
    <2>1. ASSUME NEW m \in Mural, badge[m] # NoScene PROVE Stands(m, badge[m])' \/ Awaited(m)'
      <3>1. CASE Stands(m, badge[m]) BY <1>5, <3>1, BadgeStays DEF vars
      <3>2. CASE Awaited(m) BY <1>5, <3>2 DEF vars, Awaited
      <3> QED BY <2>1, <3>1, <3>2 DEF BadgeInv
    <2> QED BY <1>5, <2>1 DEF vars, BadgeInv
  <1>6. "fail" \notin ops BY DEF JudgedOps
  <1> QED BY <1>3, <1>4, <1>5, <1>6 DEF NextOf

LEMMA InitBadged ==
    ASSUME NEW M, NEW S, InitWith(M, S)
    PROVE  BadgeInv
  <1> USE DEF InitWith
  <1>1. Badged(badge, scenes) BY DEF Badged
  <1>2. \A c \in Client : Sound(todo[c], scenes) /\ Shape(todo[c])
    <2>1. <<>> \in Seq({}) OBVIOUS
    <2> QED BY <2>1 DEF Sound, Shape, IsSeq
  <1> QED BY <1>1, <1>2 DEF BadgeInv

LEMMA BadgeInvHonest == BadgeInv => BadgeHonest
  <1> SUFFICES ASSUME BadgeInv, Quiet, NEW m \in Mural, badge[m] # NoScene
               PROVE  Stands(m, badge[m]) /\ scenes[badge[m]].mural = m
    BY DEF BadgeHonest
  <1>1. \A c \in Client : todo[c] = <<>> BY DEF Quiet, Idle
  <1>2. Len(<<>>) = 0 OBVIOUS
  <1>3. ~Awaited(m) BY <1>1, <1>2 DEF Awaited, Ends
  <1>4. Stands(m, badge[m]) BY <1>3 DEF BadgeInv
  <1> QED BY <1>4 DEF BadgeInv, Badged, Stands

(* A badge never lies once the requests under way have finished, however    *)
(* many overlap, applies included (reconcileActiveScene, applyScene).       *)
THEOREM BadgesAreHonest ==
    ASSUME Ops \subseteq JudgedOps
    PROVE  Spec => []BadgeHonest
  <1>1. Init => BadgeInv BY InitBadged DEF Init
  <1>2. BadgeInv /\ [Next]_vars => BadgeInv' BY BadgeInvStays, NextIsOf
  <1> QED BY <1>1, <1>2, BadgeInvHonest, PTL DEF Spec

-----------------------------------------------------------------------------
(* Packing.  The library's induction theorems take an operator; a least     *)
(* element of a set of numbers does the same work without one.              *)

(* Cells are natural numbers below a bound, so a set of them has a least and *)
(* a greatest one (Min and Max choose them).                                *)
LEMMA LeastCell ==
    ASSUME NEW T, T \subseteq Nat, T # {}
    PROVE  Min(T) \in T /\ \A y \in T : Min(T) <= y
  <1>1. IsWellFoundedOn(OpToRel(<, Nat), Nat) BY NatLessThanWellFounded
  <1>2. PICK x \in T : \A y \in T : ~ (<<y, x>> \in OpToRel(<, Nat)) BY <1>1, WFMin
  <1>3. \A y \in T : ~ (y < x) BY <1>2 DEF OpToRel
  <1>4. \A y \in T : x <= y BY <1>3
  <1> QED BY <1>4 DEF Min

LEMMA GreatestCell ==
    ASSUME NEW T, NEW n \in Nat, T \subseteq 0..n, T # {}
    PROVE  Max(T) \in T /\ \A y \in T : y <= Max(T)
  <1> DEFINE D == {n - t : t \in T}
  <1>0. \A t \in T : t \in Nat /\ n - t \in Nat OBVIOUS
  <1>1. D \subseteq Nat /\ D # {} BY <1>0
  <1>2. Min(D) \in D /\ \A y \in D : Min(D) <= y BY <1>1, LeastCell
  <1>3. PICK x \in T : Min(D) = n - x BY <1>2
  <1>4. \A y \in T : n - x <= n - y BY <1>2, <1>3
  <1>5. \A y \in T : x >= y BY <1>0, <1>4
  <1>6. Max(T) \in T /\ \A y \in T : Max(T) >= y BY <1>5 DEF Max
  <1> QED BY <1>6

LEMMA IntervalContiguous ==
    ASSUME NEW a \in Nat, NEW b \in Nat, a <= b
    PROVE  Contiguous(a..b)
  <1>1. a..b \subseteq Nat /\ a..b # {} /\ a..b \subseteq 0..b OBVIOUS
  <1>2. Min(a..b) = a
    <2>1. Min(a..b) \in a..b /\ \A y \in a..b : Min(a..b) <= y BY <1>1, LeastCell
    <2> QED BY <2>1
  <1>3. Max(a..b) = b
    <2>1. Max(a..b) \in a..b /\ \A y \in a..b : y <= Max(a..b) BY <1>1, GreatestCell
    <2> QED BY <2>1
  <1> QED BY <1>2, <1>3 DEF Contiguous

(* How many cells of a row are before one of it. *)
Rank(C, x) == Cardinality({c \in C : c < x})

LEMMA RankSteps ==
    ASSUME NEW n \in Nat, NEW C, C \subseteq 0..n
    PROVE  /\ \A x \in Nat : Rank(C, x) \in Nat
           /\ \A x, y \in Nat : x <= y => Rank(C, x) <= Rank(C, y)
           /\ \A x \in C : Rank(C, x) > 0 =>
                  \E p \in C : p < x /\ Rank(C, x) = Rank(C, p) + 1
           /\ C # {} => \A x \in C : Min(C) + Rank(C, x) <= x
           /\ C # {} => Rank(C, Min(C)) = 0
  <1> DEFINE Below(x) == {c \in C : c < x}
  <1>t. \A c \in C : c \in Nat /\ c \in Int OBVIOUS
  <1>n. C \subseteq Nat BY <1>t
  <1>0. IsFiniteSet(C)
    <2>1. IsFiniteSet(0..n) BY FS_Interval
    <2> QED BY <2>1, FS_Subset
  <1>1. \A x : IsFiniteSet(Below(x)) /\ Rank(C, x) = Cardinality(Below(x)) /\ Rank(C, x) \in Nat
    <2> TAKE x
    <2>1. Below(x) \subseteq C OBVIOUS
    <2>2. IsFiniteSet(Below(x)) BY <1>0, <2>1, FS_Subset
    <2> QED BY <2>2, FS_CardinalityType DEF Rank
  <1>2. ASSUME NEW x \in Nat, NEW y \in Nat, x <= y PROVE Rank(C, x) <= Rank(C, y)
    <2>0. \A c \in C : c < x => c < y BY <1>2, <1>t
    <2>1. Below(x) \subseteq Below(y) BY <2>0
    <2>2. Cardinality(Below(x)) <= Cardinality(Below(y)) BY <1>1, <2>1, FS_Subset
    <2> QED BY <1>1, <2>2
  <1>3. ASSUME NEW x \in C, Rank(C, x) > 0
        PROVE  \E p \in C : p < x /\ Rank(C, x) = Rank(C, p) + 1
    <2>1. Below(x) # {} BY <1>1, <1>3, FS_EmptySet
    <2>2. Below(x) \subseteq 0..n OBVIOUS
    <2> DEFINE p == Max(Below(x))
    <2>3. p \in Below(x) /\ \A y \in Below(x) : y <= p BY <2>1, <2>2, GreatestCell
    <2> HIDE DEF p
    <2>4. p \in C /\ p < x /\ p \notin Below(p) BY <2>3, <1>t
    <2>7. \A y \in C : y < x <=> (y < p \/ y = p) BY <2>3, <2>4, <1>t
    <2>8. Below(x) = Below(p) \cup {p} BY <2>4, <2>7
    <2>5. Cardinality(Below(p) \cup {p}) = Cardinality(Below(p)) + 1
      BY <1>1, <2>4, FS_AddElement
    <2>6. Rank(C, x) = Rank(C, p) + 1 BY <1>1, <2>5, <2>8
    <2> QED BY <2>4, <2>6
  <1>4. ASSUME C # {} PROVE \A x \in C : Min(C) + Rank(C, x) <= x
    <2>1. Min(C) \in C /\ \A y \in C : Min(C) <= y BY <1>4, <1>n, LeastCell
    <2> SUFFICES ASSUME NEW x \in C PROVE Min(C) + Rank(C, x) <= x OBVIOUS
    <2> DEFINE a == Min(C) I == a..(x - 1)
    <2>2. a \in Nat /\ x \in Nat /\ a <= x BY <2>1, <1>t
    <2>9. \A c \in C : c < x => c \in I BY <2>1, <2>2, <1>t
    <2>3. Below(x) \subseteq I BY <2>9
    <2>4. IsFiniteSet(I) /\ Cardinality(I) = x - a
      <3>1. a \in Int /\ x - 1 \in Int BY <2>2
      <3>2. IsFiniteSet(I) /\ Cardinality(I) = IF a > x - 1 THEN 0 ELSE (x - 1) - a + 1
        BY <3>1, FS_Interval
      <3> QED BY <2>2, <3>2
    <2>5. Cardinality(Below(x)) <= Cardinality(I) BY <2>3, <2>4, FS_Subset
    <2>6. Rank(C, x) <= x - a BY <1>1, <2>4, <2>5
    <2>7. Rank(C, x) \in Nat BY <1>1
    <2> HIDE DEF a
    <2> QED BY <2>2, <2>6, <2>7 DEF a
  <1>5. ASSUME C # {} PROVE Rank(C, Min(C)) = 0
    <2>1. Min(C) \in C /\ \A y \in C : Min(C) <= y BY <1>5, <1>n, LeastCell
    <2> DEFINE a == Min(C)
    <2>a. a \in Nat /\ \A y \in C : a <= y BY <2>1, <1>t
    <2> HIDE DEF a
    <2>0. \A c \in C : ~ (c < a) BY <2>a, <1>t
    <2>2. Below(Min(C)) = {} BY <2>0 DEF a
    <2> QED BY <1>1, <2>2, FS_EmptySet
  <1> QED BY <1>1, <1>2, <1>3, <1>4, <1>5

(* Packing closes every gap (packRects). *)
LEMMA PackingIsContiguous ==
    ASSUME NEW S, S # {}, CellsOf(at, S) \subseteq Cell
    PROVE  /\ \A s \in S : Packed(S)[s] \in Cell
           /\ Contiguous({Packed(S)[s] : s \in S})
  <1> DEFINE C == CellsOf(at, S)
             lo == Min(C)
             hi == Max(C)
  <1>1. LastCell \in Nat /\ C \subseteq 0..LastCell /\ C # {} /\ C \subseteq Nat
    BY LineAssumption DEF Cell, CellsOf
  <1>2. lo \in C /\ \A y \in C : lo <= y BY <1>1, LeastCell
  <1>3. hi \in C /\ \A y \in C : y <= hi BY <1>1, GreatestCell
  <1>4. \A s \in S : at[s].cell \in C /\ Packed(S)[s] = lo + Rank(C, at[s].cell)
    BY DEF CellsOf, Packed, Rank
  <1>5. \A x \in C : \E s \in S : x = at[s].cell BY DEF CellsOf
  <1> HIDE DEF C
  <1>t. \A c \in C : c \in Nat /\ c <= LastCell BY <1>1
  <1> DEFINE P == {Packed(S)[s] : s \in S}
  <1>6. P = {lo + Rank(C, x) : x \in C} BY <1>4, <1>5
  <1>7. /\ \A x \in Nat : Rank(C, x) \in Nat
        /\ \A x, y \in Nat : x <= y => Rank(C, x) <= Rank(C, y)
        /\ \A x \in C : Rank(C, x) > 0 => \E p \in C : p < x /\ Rank(C, x) = Rank(C, p) + 1
        /\ \A x \in C : lo + Rank(C, x) <= x
        /\ Rank(C, lo) = 0
    BY <1>1, RankSteps
  <1> HIDE DEF lo, hi
  <1>8. \A x \in C : Rank(C, x) \in 0..Rank(C, hi)
    BY <1>1, <1>3, <1>7
  <1>9. ASSUME NEW k \in 0..Rank(C, hi) PROVE \E x \in C : Rank(C, x) = k
    <2> DEFINE T == {x \in C : Rank(C, x) >= k}
    <2>1. T \subseteq Nat /\ hi \in T BY <1>t, <1>3, <1>8
    <2>2. Min(T) \in T /\ \A y \in T : Min(T) <= y BY <2>1, LeastCell
    <2> DEFINE x == Min(T)
    <2> HIDE DEF x
    <2>3. x \in C /\ Rank(C, x) >= k /\ Rank(C, x) \in Nat /\ x \in Nat BY <2>2, <1>1, <1>7 DEF x
    <2>4. CASE Rank(C, x) = k BY <2>3, <2>4
    <2>5. CASE Rank(C, x) > k
      <3>1. PICK p \in C : p < x /\ Rank(C, x) = Rank(C, p) + 1 BY <2>3, <2>5, <1>7
      <3>2. Rank(C, p) \in Nat /\ p \in Nat BY <1>1, <1>7
      <3>3. p \in T BY <2>5, <3>1, <3>2
      <3>4. x <= p BY <2>2, <3>3 DEF x
      <3> QED BY <2>3, <3>1, <3>2, <3>4
    <2> QED BY <2>3, <2>4, <2>5
  <1>10. lo \in Nat /\ Rank(C, hi) \in Nat BY <1>1, <1>2, <1>3, <1>7
  <1>11. P = lo..(lo + Rank(C, hi))
    <2>1. ASSUME NEW y \in lo..(lo + Rank(C, hi)) PROVE y \in P
      <3>1. y - lo \in 0..Rank(C, hi) BY <1>10, <2>1
      <3>2. PICK x \in C : Rank(C, x) = y - lo BY <3>1, <1>9
      <3>3. y = lo + Rank(C, x) BY <3>2, <1>10, <2>1
      <3> QED BY <3>2, <3>3, <1>6
    <2>2. ASSUME NEW y \in P PROVE y \in lo..(lo + Rank(C, hi))
      BY <1>6, <1>8, <1>10
    <2> QED BY <2>1, <2>2
  <1>12. Contiguous(P)
    <2>1. lo + Rank(C, hi) \in Nat /\ lo <= lo + Rank(C, hi) BY <1>10
    <2> QED BY <2>1, <1>10, <1>11, IntervalContiguous
  <1>13. ASSUME NEW s \in S PROVE Packed(S)[s] \in Cell
    <2> DEFINE x == at[s].cell
    <2>1. x \in C /\ Packed(S)[s] = lo + Rank(C, x) BY <1>4
    <2> HIDE DEF x
    <2>2. x \in Nat /\ x <= LastCell /\ Rank(C, x) \in Nat /\ lo + Rank(C, x) <= x
      BY <2>1, <1>t, <1>7
    <2>3. lo + Rank(C, x) \in 0..LastCell BY <2>2, <1>1, <1>10
    <2> QED BY <2>1, <2>3 DEF Cell
  <1> QED BY <1>12, <1>13

-----------------------------------------------------------------------------
(* Types.  Beside the variables, what a continuation carries is typed: a    *)
(* phase its scene, a pack its cells, a shift its spots.                    *)

Elems(q) == {q[i] : i \in 1..Len(q)}

StepTyped(a) ==
    /\ "do" \in DOMAIN a
    /\ a.do \in Phases => /\ {"id", "scene", "left"} \subseteq DOMAIN a
                          /\ a.id \in SceneId /\ IsScene(a.scene)
    /\ a.do = "lay" => a.left \subseteq DOMAIN a.scene.at
    /\ a.do = "regroup" => a.left \subseteq a.scene.walls
    /\ a.do = "dress" => a.left \subseteq DOMAIN a.scene.own
    /\ a.do = "respan" => a.what \in What
    /\ a.do = "pack" => /\ {"mural", "members", "to", "left"} \subseteq DOMAIN a
                        /\ a.mural \in Mural /\ a.members \subseteq Screen
                        /\ \A s \in a.left : a.to[s] \in Cell
    /\ a.do = "shift" => \A s \in a.left : a.to[s] \in Spot

Typed(q) == IsSeq(q) /\ \A a \in Elems(q) : StepTyped(a)

LayoutTyped ==
    /\ murals \subseteq Mural
    /\ screens \subseteq Screen
    /\ at \in [Screen -> Spot]
    /\ walls \subseteq Wall
    /\ slice \in [Screen -> Shown]
    /\ library \subseteq Source

SavedTyped ==
    /\ DOMAIN scenes = SceneId
    /\ \A id \in SceneId : scenes[id] = NoScene \/ IsScene(scenes[id])
    /\ badge \in [Mural -> SceneId \cup {NoScene}]
    /\ fence \in BOOLEAN

TypeInv ==
    /\ LayoutTyped /\ SavedTyped
    /\ todo = [c \in Client |-> todo[c]]
    /\ \A c \in Client : Typed(todo[c])

LEMMA ElemsPushed ==
    ASSUME NEW r, IsSeq(r)
    PROVE  /\ IsSeq(<<>>) /\ Elems(<<>>) = {}
           /\ \A a : IsSeq(<<a>>) /\ Elems(<<a>>) = {a}
           /\ \A a, b : IsSeq(<<a, b>>) /\ Elems(<<a, b>>) = {a, b}
           /\ r # <<>> => /\ IsSeq(Tail(r)) /\ Elems(Tail(r)) \subseteq Elems(r)
                          /\ Head(r) \in Elems(r)
  <1>1. IsSeq(<<>>) /\ Elems(<<>>) = {}
    <2>1. <<>> \in Seq({}) /\ Len(<<>>) = 0 OBVIOUS
    <2> QED BY <2>1 DEF IsSeq, Elems
  <1>2. \A a : IsSeq(<<a>>) /\ Elems(<<a>>) = {a}
    <2> TAKE a
    <2>1. <<a>> \in Seq({a}) /\ Len(<<a>>) = 1 /\ <<a>>[1] = a OBVIOUS
    <2>2. \A i \in 1..Len(<<a>>) : i = 1 BY <2>1
    <2>3. 1 \in 1..Len(<<a>>) BY <2>1
    <2>4. Elems(<<a>>) = {a} BY <2>1, <2>2, <2>3 DEF Elems
    <2> QED BY <2>1, <2>4 DEF IsSeq
  <1>3. \A a, b : IsSeq(<<a, b>>) /\ Elems(<<a, b>>) = {a, b}
    <2> TAKE a, b
    <2>1. /\ <<a, b>> \in Seq({a, b}) /\ Len(<<a, b>>) = 2
          /\ <<a, b>>[1] = a /\ <<a, b>>[2] = b
      OBVIOUS
    <2>2. \A i \in 1..Len(<<a, b>>) : i = 1 \/ i = 2 BY <2>1
    <2>3. 1 \in 1..Len(<<a, b>>) /\ 2 \in 1..Len(<<a, b>>) BY <2>1
    <2>4. Elems(<<a, b>>) = {a, b} BY <2>1, <2>2, <2>3 DEF Elems
    <2> QED BY <2>1, <2>4 DEF IsSeq
  <1>4. ASSUME r # <<>>
        PROVE  IsSeq(Tail(r)) /\ Elems(Tail(r)) \subseteq Elems(r) /\ Head(r) \in Elems(r)
    <2>1. PICK S : r \in Seq(S) BY DEF IsSeq
    <2>2. Tail(r) \in Seq(S) /\ Len(r) \in Nat /\ Len(r) >= 1 /\ Len(Tail(r)) = Len(r) - 1
      BY <2>1, <1>4
    <2>3. \A i \in 1..Len(Tail(r)) : Tail(r)[i] = r[i + 1] /\ i + 1 \in 1..Len(r)
      BY <2>1, <2>2, <1>4
    <2>4. Head(r) = r[1] /\ 1 \in 1..Len(r) BY <2>1, <2>2, <1>4
    <2> QED BY <2>2, <2>3, <2>4 DEF IsSeq, Elems
  <1> QED BY <1>1, <1>2, <1>3, <1>4

LEMMA ElemsConcat ==
    ASSUME NEW p, NEW r, IsSeq(p), IsSeq(r)
    PROVE  IsSeq(p \o r) /\ Elems(p \o r) \subseteq Elems(p) \cup Elems(r)
  <1>1. PICK S : p \in Seq(S) BY DEF IsSeq
  <1>2. PICK T : r \in Seq(T) BY DEF IsSeq
  <1>3. p \in Seq(S \cup T) /\ r \in Seq(S \cup T) BY <1>1, <1>2
  <1>4. /\ p \o r \in Seq(S \cup T)
        /\ Len(p \o r) = Len(p) + Len(r) /\ Len(p) \in Nat /\ Len(r) \in Nat
    BY <1>3
  <1>5. \A i \in 1..Len(p) + Len(r) :
            (p \o r)[i] = IF i <= Len(p) THEN p[i] ELSE r[i - Len(p)]
    BY <1>3
  <1>6. \A i \in 1..Len(p) + Len(r) : i \in 1..Len(p) \/ (~(i <= Len(p)) /\ i - Len(p) \in 1..Len(r))
    BY <1>4
  <1>7. \A i \in 1..Len(p) : i <= Len(p) BY <1>4
  <1> QED BY <1>4, <1>5, <1>6, <1>7 DEF IsSeq, Elems

LEMMA TypedPushed ==
    ASSUME NEW r, Typed(r)
    PROVE  /\ Typed(<<>>)
           /\ \A a : StepTyped(a) => Typed(<<a>>) /\ Typed(<<a>> \o r)
           /\ \A a, b : StepTyped(a) /\ StepTyped(b) =>
                  Typed(<<a, b>>) /\ Typed(<<a, b>> \o r) /\ Typed((<<a>> \o <<b>>) \o r)
           /\ \A p : Typed(p) => Typed(p \o r)
           /\ r # <<>> => Typed(Tail(r)) /\ StepTyped(Head(r))
  <1>1. \A p, q : Typed(p) /\ Typed(q) => Typed(p \o q) BY ElemsConcat DEF Typed
  <1>0. IsSeq(r) BY DEF Typed
  <1>2. ASSUME NEW a, StepTyped(a) PROVE Typed(<<a>>)
    <2>1. IsSeq(<<a>>) /\ Elems(<<a>>) = {a} BY <1>0, ElemsPushed
    <2> QED BY <1>2, <2>1 DEF Typed
  <1>3. ASSUME NEW a, NEW b, StepTyped(a), StepTyped(b) PROVE Typed(<<a, b>>)
    <2>1. IsSeq(<<a, b>>) /\ Elems(<<a, b>>) = {a, b} BY <1>0, ElemsPushed
    <2> QED BY <1>3, <2>1 DEF Typed
  <1>4. Typed(<<>>) BY ElemsPushed DEF Typed
  <1>5. r # <<>> => Typed(Tail(r)) /\ StepTyped(Head(r)) BY ElemsPushed DEF Typed
  <1> QED BY <1>1, <1>2, <1>3, <1>4, <1>5

LEMMA StepsTyped ==
    /\ StepTyped(Judge)
    /\ \A S : StepTyped(Clear(S))
    /\ \A s : StepTyped([do |-> "dissolve", screen |-> s])
    /\ \A s, M : StepTyped([do |-> "forget", screen |-> s, members |-> M])
    /\ \A id, what : what \in What => StepTyped(Respan(id, what))
    /\ \A m : StepTyped([do |-> "close", mural |-> m])
    /\ \A m, L : StepTyped([do |-> "evict", mural |-> m, left |-> L])
    /\ \A L : StepTyped([do |-> "rejudge", left |-> L])
    /\ \A id, L : StepTyped([do |-> "unlist", source |-> id, left |-> L])
    /\ \A id : StepTyped([do |-> "lower", id |-> id])
    /\ \A to, L : (\A s \in L : to[s] \in Spot) => StepTyped([do |-> "shift", to |-> to, left |-> L])
  BY DEF StepTyped, Judge, Clear, Respan, Phases, ApplyPhases

LEMMA SlicesTyped ==
    ASSUME LayoutTyped
    PROVE  /\ \A S : Blanked(S) \in [Screen -> Shown]
           /\ \A s : \A what \in What :
                [slice EXCEPT ![s] = [what |-> what, wall |-> NoWall, piece |-> Whole]] \in [Screen -> Shown]
           /\ \A w \in walls, what \in What : Spanned(w, what) \in [Screen -> Shown]
  <1>0. LastCell \in Nat BY LineAssumption
  <1>1. Whole \in Cell \X (1..LastCell + 1) BY <1>0 DEF Whole, Cell
  <1>2. \A what \in What : [what |-> what, wall |-> NoWall, piece |-> Whole] \in Shown
    BY <1>1 DEF Shown
  <1>3. Blank \in Shown BY <1>1 DEF Shown, Blank, What
  <1>4. \A S : Blanked(S) \in [Screen -> Shown]
    BY <1>3 DEF Blanked, LayoutTyped
  <1>5. \A s : \A what \in What :
            [slice EXCEPT ![s] = [what |-> what, wall |-> NoWall, piece |-> Whole]] \in [Screen -> Shown]
    BY <1>2 DEF LayoutTyped
  <1>6. ASSUME NEW w \in walls, NEW what \in What PROVE Spanned(w, what) \in [Screen -> Shown]
    <2> DEFINE here == {s \in w.members : at[s].mural = w.mural}
               C == CellsOf(at, here)
               from == Min(C)
               top == Max(C)
               size == top - from + 1
    <2>1. w \in Wall BY DEF LayoutTyped
    <2>2. w.id \in WallId /\ w.members \subseteq Screen /\ w.mural \in Mural BY <2>1 DEF Wall
    <2>3. \A s \in here : at[s].cell \in Cell
      BY <2>2, <1>0 DEF LayoutTyped, Spot, Tray, Cell
    <2>4. C \subseteq Cell /\ C \subseteq Nat /\ C \subseteq 0..LastCell BY <2>3, <1>0 DEF CellsOf, Cell
    <2>5. ASSUME NEW s \in here
          PROVE  <<at[s].cell - from, size>> \in Cell \X (1..LastCell + 1)
      <3> DEFINE x == at[s].cell
      <3>1. x \in C BY DEF CellsOf
      <3> HIDE DEF C
      <3>2. C # {} BY <3>1
      <3>3. from \in C /\ \A y \in C : from <= y BY <2>4, <3>2, LeastCell
      <3>4. top \in C /\ \A y \in C : y <= top BY <1>0, <2>4, <3>2, GreatestCell
      <3> HIDE DEF from, top, x
      <3>5. /\ from \in Nat /\ top \in Nat /\ x \in Nat
            /\ from <= x /\ x <= top /\ top <= LastCell
        BY <2>4, <3>1, <3>3, <3>4
      <3>6. x - from \in 0..LastCell /\ size \in 1..LastCell + 1 BY <3>5, <1>0
      <3> QED BY <3>6 DEF Cell, x
    <2> HIDE DEF from, top, C
    <2>6. ASSUME NEW s \in here
          PROVE  [what |-> what, wall |-> w.id, piece |-> <<at[s].cell - from, size>>] \in Shown
      BY <2>2, <2>5, <2>6 DEF Shown
    <2>7. Spanned(w, what) = [s \in Screen |->
              IF s \in here
              THEN [what |-> what, wall |-> w.id, piece |-> <<at[s].cell - from, size>>]
              ELSE slice[s]]
      BY DEF Spanned, from, top, C
    <2> QED BY <2>6, <2>7 DEF LayoutTyped
  <1> QED BY <1>4, <1>5, <1>6

LEMMA SpotsTyped ==
    /\ Tray \in Spot
    /\ \A m \in Mural, cell \in Cell : [mural |-> m, cell |-> cell] \in Spot
  BY DEF Spot, Tray

LEMMA CellsTyped ==
    ASSUME LayoutTyped, NEW s \in Screen
    PROVE  at[s].cell \in Cell /\ at[s].mural \in Mural \cup {NoMural}
  <1>1. at[s] \in Spot BY DEF LayoutTyped
  <1>2. 0 \in Cell BY LineAssumption DEF Cell
  <1>3. Tray.cell = 0 /\ Tray.mural = NoMural BY DEF Tray
  <1> QED BY <1>1, <1>2, <1>3 DEF Spot

LEMMA WallsTyped ==
    ASSUME LayoutTyped
    PROVE  /\ \A w \in walls, x \in What : (walls \ {w}) \cup {[w EXCEPT !.source = x]} \subseteq Wall
           /\ \A id \in WallId, m \in Mural, S \in SUBSET Screen :
                  walls \cup {[id |-> id, mural |-> m, members |-> S, source |-> Dark]} \subseteq Wall
           /\ \A w \in walls : w \in Wall /\ w.source \in What /\ w.members \subseteq Screen
                               /\ w.mural \in Mural /\ w.id \in WallId
  <1>1. \A w \in Wall, x \in What : [w EXCEPT !.source = x] \in Wall BY DEF Wall
  <1>2. \A id \in WallId, m \in Mural, S \in SUBSET Screen :
            [id |-> id, mural |-> m, members |-> S, source |-> Dark] \in Wall
    BY DEF Wall, What
  <1>3. \A w \in Wall : w.source \in What /\ w.members \subseteq Screen
                        /\ w.mural \in Mural /\ w.id \in WallId
    BY DEF Wall
  <1>4. walls \subseteq Wall BY DEF LayoutTyped
  <1> QED BY <1>1, <1>2, <1>3, <1>4

LEMMA CaptureTyped ==
    ASSUME LayoutTyped, NEW m \in Mural
    PROVE  IsScene(Capture(m))
  <1> DEFINE sc == Capture(m)
             walled == UNION {w.members : w \in WallsOn(m)}
  <1>1. \A s \in Screen : slice[s].what \in What BY DEF LayoutTyped, Shown
  <1>2. Dark \in What /\ AdHoc \in What BY DEF What
  <1>3. \A s \in Screen : Own(s) \in What BY <1>1, <1>2 DEF Own
  <1>4. \A w \in walls : WallContent(w) \in What BY <1>2, WallsTyped DEF WallContent
  <1>5. /\ sc.mural = m
        /\ sc.at = [s \in OnMural(m) |-> at[s].cell]
        /\ sc.walls = {[members |-> w.members, what |-> WallContent(w)] : w \in WallsOn(m)}
        /\ sc.own = [s \in OnMural(m) \ walled |-> Own(s)]
    BY DEF Capture
  <1> HIDE DEF sc, walled
  <1>6. OnMural(m) \subseteq Screen BY DEF OnMural
  <1>7. sc.at \in [DOMAIN sc.at -> Cell] /\ DOMAIN sc.at = OnMural(m)
    BY <1>5, <1>6, CellsTyped
  <1>8. sc.own \in [DOMAIN sc.own -> What] /\ DOMAIN sc.own \subseteq OnMural(m)
    BY <1>3, <1>5, <1>6
  <1>9. sc.walls \subseteq [members : SUBSET Screen, what : What]
    BY <1>4, <1>5, WallsTyped DEF WallsOn
  <1>10. IsScene(sc) BY <1>5, <1>6, <1>7, <1>8, <1>9 DEF IsScene
  <1> QED BY <1>10 DEF sc

-----------------------------------------------------------------------------
(* Every handler keeps the types. *)

TypeKept(c) ==
    /\ \/ todo' = todo
       \/ \E q : Typed(q) /\ todo' = [todo EXCEPT ![c] = q]
    /\ LayoutTyped' /\ SavedTyped'

LEMMA PackOneTyped ==
    ASSUME LayoutTyped, SavedTyped, NEW c, NEW st, NEW r, StepTyped(st), Typed(r), st.do = "pack", PackOne(c, st, r)
    PROVE  TypeKept(c)
  <1>1. PICK s \in st.left :
            /\ at' = [at EXCEPT ![s] = [mural |-> st.mural, cell |-> st.to[s]]]
            /\ Then(c, <<[st EXCEPT !.left = @ \ {s}]>> \o r)
            /\ UNCHANGED <<murals, screens, walls, slice, library, scenes, badge, fence>>
    BY DEF PackOne
  <1> DEFINE a == [st EXCEPT !.left = @ \ {s}]
  <1>2. StepTyped(a) BY DEF StepTyped, Phases, ApplyPhases
  <1> HIDE DEF a
  <1>3. Typed(<<a>> \o r) BY <1>2, TypedPushed
  <1>4. [mural |-> st.mural, cell |-> st.to[s]] \in Spot
    BY SpotsTyped DEF StepTyped
  <1>5. LayoutTyped' BY <1>1, <1>4 DEF LayoutTyped
  <1> QED BY <1>1, <1>3, <1>5 DEF a, Then, TypeKept, SavedTyped

LEMMA NewWallTyped ==
    ASSUME LayoutTyped, SavedTyped, NEW c, NEW m \in Mural, NEW S \in SUBSET Screen, NEW id \in FreshWall,
           NEW r, Typed(r), NewWall(c, m, S, id, r),
           UNCHANGED <<murals, screens, at, slice, library, scenes, badge, fence>>
    PROVE  TypeKept(c)
  <1>1. id \in WallId BY DEF FreshWall
  <1>2. walls' \subseteq Wall BY <1>1, WallsTyped DEF NewWall
  <1>3. Typed(<<Clear(S), Judge>> \o r) BY StepsTyped, TypedPushed
  <1> QED BY <1>2, <1>3 DEF NewWall, Then, TypeKept, SavedTyped, LayoutTyped

LEMMA SplitWallTyped ==
    ASSUME LayoutTyped, SavedTyped, NEW c, NEW w, NEW r, Typed(r), SplitWall(c, w, r),
           UNCHANGED <<scenes, badge, fence>>
    PROVE  TypeKept(c)
  <1>1. Typed(<<Clear(w.members), Judge>> \o r) BY StepsTyped, TypedPushed
  <1> QED BY <1>1 DEF SplitWall, Then, TypeKept, SavedTyped, LayoutTyped

LEMMA SpanWallTyped ==
    ASSUME LayoutTyped, SavedTyped, NEW c, NEW w \in walls, NEW what \in What, NEW r, Typed(r),
           SpanWall(c, w, what, r), UNCHANGED <<scenes, badge, fence>>
    PROVE  TypeKept(c)
  <1>1. Typed(<<Judge>> \o r) BY StepsTyped, TypedPushed
  <1>2. slice' \in [Screen -> Shown] BY SlicesTyped DEF SpanWall
  <1>3. (IF what \in Source THEN what ELSE Dark) \in What BY DEF What
  <1>4. walls' \subseteq Wall BY <1>3, WallsTyped DEF SpanWall
  <1> QED BY <1>1, <1>2, <1>4 DEF SpanWall, Then, TypeKept, SavedTyped, LayoutTyped

LEMMA ShowOnTyped ==
    ASSUME LayoutTyped, SavedTyped, NEW c, NEW s, NEW what \in What, NEW r, Typed(r),
           ShowOn(c, s, what, r), UNCHANGED <<scenes, badge, fence>>
    PROVE  TypeKept(c)
  <1>1. Typed(<<Judge>> \o r) BY StepsTyped, TypedPushed
  <1>a. [slice EXCEPT ![s] = [what |-> what, wall |-> NoWall, piece |-> Whole]] \in [Screen -> Shown]
    BY SlicesTyped
  <1>2. slice' \in [Screen -> Shown] BY <1>a DEF ShowOn
  <1> QED BY <1>1, <1>2 DEF ShowOn, Then, TypeKept, SavedTyped, LayoutTyped

LEMMA UnspanTyped ==
    ASSUME LayoutTyped, SavedTyped, NEW c, NEW id, NEW left, NEW blanked, NEW r, Typed(r),
           Unspan(c, id, left, blanked, r), UNCHANGED <<murals, screens, at, scenes, badge, fence>>
    PROVE  TypeKept(c)
  <1>0. Dark \in What BY DEF What
  <1>a. \A S : Blanked(S) \in [Screen -> Shown] BY SlicesTyped
  <1>1. slice' \in [Screen -> Shown] BY <1>a DEF Unspan
  <1>2. walls' \subseteq Wall
    <2>1. walls \subseteq Wall BY DEF LayoutTyped
    <2> QED BY <1>0, <2>1, WallsTyped DEF Unspan
  <1>3. library' \subseteq Source BY DEF Unspan, LayoutTyped
  <1>4. \E q : Typed(q) /\ todo' = [todo EXCEPT ![c] = q]
    <2>1. \A x : Typed(<<[do |-> "unlist", source |-> id, left |-> x]>> \o r)
      BY StepsTyped, TypedPushed
    <2> QED BY <2>1 DEF Unspan, Then
  <1> QED BY <1>1, <1>2, <1>3, <1>4 DEF TypeKept, SavedTyped, LayoutTyped

LEMMA ShiftTyped ==
    ASSUME LayoutTyped, SavedTyped, NEW c, NEW to, NEW left, NEW r, Typed(r), \A s \in left : to[s] \in Spot,
           Shift(c, to, left, r)
    PROVE  TypeKept(c)
  <1>1. PICK s \in left :
            /\ at' = [at EXCEPT ![s] = to[s]]
            /\ Then(c, (IF left = {s} THEN <<>>
                        ELSE <<[do |-> "shift", to |-> to, left |-> left \ {s}]>>) \o r)
            /\ UNCHANGED <<murals, screens, walls, slice, library, scenes, badge, fence>>
    BY DEF Shift
  <1> DEFINE a == [do |-> "shift", to |-> to, left |-> left \ {s}]
  <1>2. StepTyped(a) BY StepsTyped
  <1> HIDE DEF a
  <1>3. Typed(<<a>>) /\ Typed(<<>>) BY <1>2, TypedPushed
  <1>4. Typed((IF left = {s} THEN <<>> ELSE <<a>>) \o r)
    <2>1. Typed(IF left = {s} THEN <<>> ELSE <<a>>) BY <1>3
    <2> QED BY <2>1, TypedPushed
  <1>5. LayoutTyped' BY <1>1 DEF LayoutTyped
  <1> QED BY <1>1, <1>4, <1>5 DEF a, Then, TypeKept, SavedTyped

LEMMA EvictTyped ==
    ASSUME LayoutTyped, SavedTyped, NEW c, NEW m, NEW placed, NEW r, Typed(r), Evict(c, m, placed, r),
           walls' \subseteq Wall, slice' \in [Screen -> Shown],
           UNCHANGED <<screens, library, scenes, fence>>
    PROVE  TypeKept(c)
  <1>1. at' \in [Screen -> Spot]
    BY SpotsTyped DEF Evict, LayoutTyped
  <1>2. murals' \subseteq Mural BY DEF Evict, LayoutTyped
  <1>3. badge' \in [Mural -> SceneId \cup {NoScene}] BY DEF Evict, SavedTyped
  <1>4. \E q : Typed(q) /\ todo' = [todo EXCEPT ![c] = q]
    <2>1. /\ \A x : Typed(<<[do |-> "evict", mural |-> m, left |-> x]>> \o r)
          /\ Typed(<<[do |-> "close", mural |-> m]>> \o r) /\ Typed(<<Judge>> \o r)
      BY StepsTyped, TypedPushed
    <2> QED BY <2>1 DEF Evict, Then
  <1> QED BY <1>1, <1>2, <1>3, <1>4 DEF TypeKept, SavedTyped, LayoutTyped

LEMMA RazeTyped ==
    ASSUME LayoutTyped, SavedTyped, NEW c, NEW st, NEW r, Typed(r), StepTyped(st), st.do = "raze",
           RazeWalls(c, st, r), UNCHANGED <<screens, library, scenes, fence>>
    PROVE  TypeKept(c)
  <1>1. CASE \E w : /\ walls' = {v \in walls : v.id # w.id}
                    /\ Then(c, <<[st EXCEPT !.left = @ \ {w}, !.members = @ \cup w.members]>> \o r)
                    /\ UNCHANGED <<murals, slice, at, badge>>
    <2>1. PICK w : /\ walls' = {v \in walls : v.id # w.id}
                   /\ Then(c, <<[st EXCEPT !.left = @ \ {w}, !.members = @ \cup w.members]>> \o r)
                   /\ UNCHANGED <<murals, slice, at, badge>>
      BY <1>1
    <2> DEFINE a == [st EXCEPT !.left = @ \ {w}, !.members = @ \cup w.members]
    <2>2. StepTyped(a) BY DEF StepTyped, Phases, ApplyPhases
    <2> HIDE DEF a
    <2>3. Typed(<<a>> \o r) BY <2>2, TypedPushed
    <2>4. walls' \subseteq Wall BY <2>1 DEF LayoutTyped
    <2> QED BY <2>1, <2>3, <2>4 DEF a, Then, TypeKept, SavedTyped, LayoutTyped
  <1>2. CASE /\ slice' = Blanked(st.members)
             /\ Evict(c, st.mural, OnMural(st.mural), r)
             /\ UNCHANGED walls
    <2>1. slice' \in [Screen -> Shown] BY <1>2, SlicesTyped
    <2>2. walls' \subseteq Wall BY <1>2 DEF LayoutTyped
    <2> QED BY <1>2, <2>1, <2>2, EvictTyped
  <1> QED BY <1>1, <1>2 DEF RazeWalls

LEMMA GoneTyped ==
    ASSUME LayoutTyped, NEW c, NEW s, NEW M, Gone(c, s, M)
    PROVE  /\ slice' \in [Screen -> Shown] /\ at' \in [Screen -> Spot] /\ screens' \subseteq Screen
  BY SlicesTyped, SpotsTyped DEF Gone, LayoutTyped

LEMMA RequestTyped ==
    ASSUME TypeInv, NEW ops, NEW c \in Client, RequestOf(c, ops)
    PROVE  TypeKept(c)
  <1>t. LayoutTyped /\ SavedTyped BY DEF TypeInv
  <1>e. Typed(<<>>) /\ \A r : Typed(r) => Typed(r \o <<>>)
    <2>1. Typed(todo[c]) BY DEF TypeInv
    <2> QED BY <2>1, TypedPushed
  <1>o. \A a : StepTyped(a) => Typed(<<a>>) BY <1>e, TypedPushed
  <1>j. Typed(<<Judge>>) BY <1>o, StepsTyped
  <1> USE <1>t DEF TypeKept, Then
  <1>1. CASE \E s \in Screen, m \in Mural, cell \in Cell : Place(c, s, m, cell)
    <2>1. PICK s \in Screen, m \in Mural, cell \in Cell : Place(c, s, m, cell) BY <1>1
    <2>2. at' \in [Screen -> Spot] BY <2>1, SpotsTyped DEF Place, LayoutTyped
    <2> QED BY <2>1, <2>2, <1>j DEF Place, LayoutTyped, SavedTyped
  <1>2. CASE \E s \in Screen : Unplace(c, s)
    <2>1. PICK s \in Screen : Unplace(c, s) BY <1>2
    <2>2. at' \in [Screen -> Spot] BY <2>1, SpotsTyped DEF Unplace, LayoutTyped
    <2>3. Typed(<<[do |-> "dissolve", screen |-> s]>>) BY <1>o, StepsTyped
    <2> QED BY <2>1, <2>2, <2>3 DEF Unplace, LayoutTyped, SavedTyped
  <1>3. CASE \E s \in Screen : Forget(c, s)
    <2>1. PICK s \in Screen : Forget(c, s) BY <1>3
    <2>2. CASE Walled(s)
      <3> DEFINE w == WallOf(s)
                 a == [do |-> "forget", screen |-> s, members |-> w.members]
      <3>1. Typed(<<a, Judge>>) BY StepsTyped, <1>e, TypedPushed
      <3>2. walls' \subseteq Wall BY <2>1, <2>2 DEF Forget, LayoutTyped
      <3> QED BY <2>1, <2>2, <3>1, <3>2 DEF Forget, LayoutTyped, SavedTyped
    <2>3. CASE ~Walled(s)
      <3>1. Gone(c, s, {}) BY <2>1, <2>3 DEF Forget
      <3> QED BY <2>1, <2>3, <3>1, <1>j, GoneTyped DEF Forget, LayoutTyped, SavedTyped
    <2> QED BY <2>2, <2>3
  <1>4. CASE \E m \in Mural, S \in SUBSET Screen : Combine(c, m, S)
    <2>1. PICK m \in Mural, S \in SUBSET Screen, id \in FreshWall :
              /\ NewWall(c, m, S, id, <<>>)
              /\ UNCHANGED <<murals, screens, at, slice, library, scenes, badge, fence>>
      BY <1>4 DEF Combine
    <2> QED BY <2>1, <1>e, NewWallTyped
  <1>5. CASE \E m \in Mural, S \in SUBSET Screen : Pack(c, m, S)
    <2>1. PICK m \in Mural, S \in SUBSET Screen : Pack(c, m, S) BY <1>5
    <2> DEFINE st == [do |-> "pack", mural |-> m, to |-> Packed(S), members |-> S, left |-> S]
    <2>2. PackOne(c, st, <<>>) BY <2>1 DEF Pack
    <2>3. S # {} BY <2>2 DEF PackOne
    <2>4. CellsOf(at, S) \subseteq Cell BY CellsTyped DEF CellsOf
    <2>5. \A s \in S : Packed(S)[s] \in Cell BY <2>3, <2>4, PackingIsContiguous
    <2>6. StepTyped(st) BY <2>5 DEF StepTyped, Phases, ApplyPhases
    <2>7. st.do = "pack" OBVIOUS
    <2> HIDE DEF st
    <2> QED BY <2>2, <2>6, <2>7, <1>e, PackOneTyped
  <1>6. CASE \E w \in walls : Split(c, w)
    BY <1>6, <1>e, SplitWallTyped DEF Split, SplitWall
  <1>7. CASE \E s \in Screen, what \in What : AssignScreen(c, s, what)
    BY <1>7, <1>e, ShowOnTyped DEF AssignScreen, ShowOn
  <1>8. CASE \E w \in walls, what \in What : AssignWall(c, w, what)
    BY <1>8, <1>e, SpanWallTyped DEF AssignWall, SpanWall
  <1>9. CASE \E s \in Screen : ClearScreen(c, s)
    BY <1>9, SlicesTyped DEF ClearScreen, LayoutTyped, SavedTyped
  <1>10. CASE \E w \in walls : ClearWall(c, w)
    <2>1. PICK w \in walls : ClearWall(c, w) BY <1>10
    <2>2. walls' \subseteq Wall BY <2>1, WallsTyped DEF ClearWall, What
    <2> QED BY <2>1, <2>2, SlicesTyped DEF ClearWall, LayoutTyped, SavedTyped
  <1>11. CASE \E id \in Source : Unlist(c, id)
    BY <1>11, <1>e, UnspanTyped DEF Unlist
  <1>12. CASE \E m \in Mural, S \in SUBSET Screen, dx \in {-1, 1} : Move(c, m, S, dx)
    <2>1. PICK m \in Mural, S \in SUBSET Screen, dx \in {-1, 1} : Move(c, m, S, dx) BY <1>12
    <2> DEFINE to == [s \in S |-> [mural |-> m, cell |-> at[s].cell + dx]]
    <2>2. Shift(c, to, S, <<>>) /\ \A s \in S : to[s].cell \in Cell BY <2>1 DEF Move
    <2>3. \A s \in S : to[s] \in Spot BY <2>2, SpotsTyped
    <2> HIDE DEF to
    <2> QED BY <2>2, <2>3, <1>e, ShiftTyped
  <1>13. CASE \E m \in Mural, id \in SceneId : Snapshot(c, m, id)
    <2>1. PICK m \in Mural, id \in SceneId : Snapshot(c, m, id) BY <1>13
    <2>2. IsScene(Capture(m)) BY CaptureTyped
    <2>3. SavedTyped' BY <2>1, <2>2 DEF Snapshot, SavedTyped
    <2> QED BY <2>1, <2>3 DEF Snapshot, layout, LayoutTyped
  <1>14. CASE \E id \in SceneId : Apply(c, id)
    <2>1. PICK id \in SceneId : Apply(c, id) BY <1>14
    <2> DEFINE a == [do |-> "resplit", id |-> id, scene |-> scenes[id],
                     left |-> {w.id : w \in WallsOn(scenes[id].mural)}]
    <2>2. IsScene(scenes[id]) BY <2>1 DEF Apply, SavedTyped
    <2>3. StepTyped(a) BY <2>2 DEF StepTyped, Phases, ApplyPhases
    <2>4. Typed(<<a>>) BY <2>3, <1>o
    <2> QED BY <2>1, <2>4 DEF Apply, layout, LayoutTyped, SavedTyped
  <1>15. CASE \E id \in SceneId : Unsave(c, id)
    <2>1. PICK id \in SceneId : Unsave(c, id) BY <1>15
    <2>2. SavedTyped' BY <2>1 DEF Unsave, SavedTyped
    <2> QED BY <2>1, <2>2 DEF Unsave, layout, LayoutTyped
  <1>16. CASE \E m \in Mural : Raze(c, m)
    <2>1. PICK m \in Mural : Raze(c, m) BY <1>16
    <2> DEFINE st == [do |-> "raze", mural |-> m, left |-> WallsOn(m), members |-> {}]
    <2>2. RazeWalls(c, st, <<>>) /\ UNCHANGED <<screens, library, scenes, fence>> BY <2>1 DEF Raze
    <2>3. StepTyped(st) /\ st.do = "raze" BY DEF StepTyped, Phases, ApplyPhases
    <2> HIDE DEF st
    <2> QED BY <2>2, <2>3, <1>e, RazeTyped
  <1> QED BY <1>1, <1>2, <1>3, <1>4, <1>5, <1>6, <1>7, <1>8, <1>9, <1>10, <1>11,
             <1>12, <1>13, <1>14, <1>15, <1>16 DEF RequestOf

LEMMA ResumeTyped ==
    ASSUME TypeInv, NEW c \in Client, Resume(c)
    PROVE  TypeKept(c)
  <1> DEFINE st == Head(todo[c]) rest == Tail(todo[c])
  <1>t. LayoutTyped /\ SavedTyped BY DEF TypeInv
  <1>h. StepTyped(st) /\ Typed(rest)
    <2>1. Typed(todo[c]) /\ todo[c] # <<>> BY DEF TypeInv, Resume, Idle
    <2> QED BY <2>1, TypedPushed
  <1> HIDE DEF st, rest
  <1>o. \A a : StepTyped(a) => Typed(<<a>> \o rest) BY <1>h, TypedPushed
  <1>j. Typed(<<Judge>> \o rest) BY <1>o, StepsTyped
  <1>c. \A S : Typed(<<Clear(S), Judge>> \o rest) BY <1>h, TypedPushed, StepsTyped
  <1>x. ASSUME st.do \in Phases, NEW x
        PROVE  StepTyped(Rest(st, x)) /\ Typed(<<Rest(st, x)>> \o rest)
    <2>1. StepTyped(Rest(st, x)) BY <1>x, <1>h DEF StepTyped, Rest, Phases
    <2> QED BY <2>1, <1>o
  <1> USE <1>t DEF TypeKept, Then
  <1>u. ASSUME UNCHANGED layout, UNCHANGED <<scenes, badge, fence>>
        PROVE  LayoutTyped' /\ SavedTyped'
    BY <1>u DEF layout, LayoutTyped, SavedTyped
  <1>s. ASSUME st.do \in Phases, NEW x, Skip(c, st, x, rest), UNCHANGED scenes PROVE TypeKept(c)
    BY <1>s, <1>x, <1>u DEF Skip
  <1>f. ASSUME NEW name, NEW left, Enter(c, name, st, left, rest), UNCHANGED scenes,
               StepTyped(Phase(name, st, left))
        PROVE  TypeKept(c)
    BY <1>f, <1>o, <1>u DEF Enter
  <1>v. ASSUME NEW left, Rejudge(c, left, rest), UNCHANGED layout, UNCHANGED scenes, fence' \in BOOLEAN
        PROVE  TypeKept(c)
    <2>1. badge' \in [Mural -> SceneId \cup {NoScene}] BY <1>v DEF Rejudge, SavedTyped
    <2>2. LayoutTyped' /\ SavedTyped' BY <2>1, <1>v DEF layout, LayoutTyped, SavedTyped
    <2>3. \A x : Typed(<<[do |-> "rejudge", left |-> x]>> \o rest) BY <1>o, StepsTyped
    <2> QED BY <1>v, <1>h, <2>2, <2>3 DEF Rejudge
  <1>1. CASE JudgeStep(c, rest)
    BY <1>1, <1>v, <1>h, <1>u DEF JudgeStep, SavedTyped
  <1>2. CASE RejudgeStep(c, st, rest)
    BY <1>2, <1>v DEF RejudgeStep, SavedTyped
  <1>3. CASE Lower(c, st, rest)
    BY <1>3, <1>v DEF Lower
  <1>4. CASE Dissolve(c, st, rest)
    BY <1>4, <1>c, <1>j DEF Dissolve, LayoutTyped, SavedTyped
  <1>5. CASE ClearStep(c, st, rest)
    BY <1>5, <1>h, SlicesTyped DEF ClearStep, LayoutTyped, SavedTyped
  <1>6. CASE ForgetStep(c, st, rest)
    BY <1>6, <1>h, GoneTyped DEF ForgetStep, LayoutTyped, SavedTyped
  <1>7. CASE st.do = "shift" /\ Shift(c, st.to, st.left, rest)
    BY <1>7, <1>h, ShiftTyped DEF StepTyped
  <1>8. CASE st.do = "pack" /\ PackStep(c, st, rest)
    <2>1. CASE PackOne(c, st, rest)
      BY <1>8, <2>1, <1>h, PackOneTyped
    <2>2. CASE /\ \E id \in FreshWall : NewWall(c, st.mural, st.members, id, rest)
               /\ UNCHANGED <<murals, screens, at, slice, library, scenes, badge, fence>>
      BY <1>8, <2>2, <1>h, NewWallTyped DEF StepTyped
    <2> QED BY <1>8, <2>1, <2>2 DEF PackStep
  <1>9. CASE UnlistStep(c, st, rest)
    BY <1>9, <1>h, UnspanTyped DEF UnlistStep
  <1>10. CASE st.do = "respan" /\ RespanStep(c, st, rest)
    <2>1. CASE Then(c, rest) /\ UNCHANGED <<layout, scenes, badge, fence>>
      BY <2>1, <1>h, <1>u
    <2>2. CASE \E w \in HasId(st.wall) : SpanWall(c, w, st.what, rest)
      <3>1. PICK w \in walls : SpanWall(c, w, st.what, rest) BY <2>2 DEF HasId
      <3>2. st.what \in What BY <1>10, <1>h DEF StepTyped
      <3> QED BY <3>1, <3>2, <1>h, SpanWallTyped DEF SpanWall
    <2> QED BY <1>10, <2>1, <2>2 DEF RespanStep
  <1>11. CASE st.do = "raze" /\ RazeStep(c, st, rest)
    BY <1>11, <1>h, RazeTyped DEF RazeStep
  <1>12. CASE EvictStep(c, st, rest)
    BY <1>12, <1>h, EvictTyped DEF EvictStep, LayoutTyped
  <1>13. CASE Close(c, st, rest)
    BY <1>13, <1>j DEF Close, LayoutTyped, SavedTyped
  <1>14. CASE st.do = "resplit" /\ Resplit(c, st, rest) /\ UNCHANGED scenes
    <2>0. st.do \in Phases BY <1>14 DEF Phases, ApplyPhases
    <2>1. CASE \E id \in st.left : \E w \in HasId(id) : SplitWall(c, w, <<Rest(st, id)>> \o rest)
      <3>1. PICK id \in st.left, w \in walls : SplitWall(c, w, <<Rest(st, id)>> \o rest)
        BY <2>1 DEF HasId
      <3> QED BY <3>1, <2>0, <1>x, <1>14, SplitWallTyped DEF SplitWall
    <2>2. CASE \E id \in st.left : Skip(c, st, id, rest)
      BY <1>14, <2>0, <2>2, <1>s
    <2>3. CASE Enter(c, "omit", st, OnMural(st.scene.mural) \ DOMAIN st.scene.at, rest)
      <3> DEFINE L == OnMural(st.scene.mural) \ DOMAIN st.scene.at
      <3> HIDE DEF L
      <3>1. StepTyped(Phase("omit", st, L)) BY <2>0, <1>h DEF StepTyped, Phase, Phases, ApplyPhases
      <3> QED BY <2>3, <3>1, <1>14, <1>f DEF L
    <2> QED BY <1>14, <2>1, <2>2, <2>3 DEF Resplit
  <1>15. CASE st.do = "omit" /\ Omit(c, st, rest) /\ UNCHANGED scenes
    <2>0. st.do \in Phases BY <1>15 DEF Phases, ApplyPhases
    <2>1. CASE \E s \in st.left :
                  /\ at' = [at EXCEPT ![s] = Tray]
                  /\ Then(c, <<[do |-> "dissolve", screen |-> s], Rest(st, s)>> \o rest)
                  /\ UNCHANGED <<murals, screens, walls, slice, library, badge, fence>>
      <3>1. PICK s \in st.left :
                  /\ at' = [at EXCEPT ![s] = Tray]
                  /\ Then(c, <<[do |-> "dissolve", screen |-> s], Rest(st, s)>> \o rest)
                  /\ UNCHANGED <<murals, screens, walls, slice, library, badge, fence>>
        BY <2>1
      <3>2. Typed(<<[do |-> "dissolve", screen |-> s], Rest(st, s)>> \o rest)
        BY <2>0, <1>h, <1>x, StepsTyped, TypedPushed
      <3>3. at' \in [Screen -> Spot] BY <3>1, SpotsTyped DEF LayoutTyped
      <3> QED BY <3>1, <3>2, <3>3, <1>15 DEF LayoutTyped, SavedTyped
    <2>2. CASE \E s \in st.left : Skip(c, st, s, rest)
      BY <1>15, <2>0, <2>2, <1>s
    <2>3. CASE Enter(c, "lay", st, DOMAIN st.scene.at, rest)
      <3>1. StepTyped(Phase("lay", st, DOMAIN st.scene.at))
        BY <2>0, <1>h DEF StepTyped, Phase, Phases, ApplyPhases
      <3> QED BY <2>3, <3>1, <1>15, <1>f
    <2> QED BY <1>15, <2>1, <2>2, <2>3 DEF Omit
  <1>16. CASE st.do = "lay" /\ Lay(c, st, rest) /\ UNCHANGED scenes
    <2>0. st.do \in Phases BY <1>16 DEF Phases, ApplyPhases
    <2>1. CASE \E s \in st.left :
                  /\ at' = [at EXCEPT ![s] = [mural |-> st.scene.mural, cell |-> st.scene.at[s]]]
                  /\ Then(c, <<Judge, Rest(st, s)>> \o rest)
                  /\ UNCHANGED <<murals, screens, walls, slice, library, badge, fence>>
      <3>1. PICK s \in st.left :
                  /\ at' = [at EXCEPT ![s] = [mural |-> st.scene.mural, cell |-> st.scene.at[s]]]
                  /\ Then(c, <<Judge, Rest(st, s)>> \o rest)
                  /\ UNCHANGED <<murals, screens, walls, slice, library, badge, fence>>
        BY <2>1
      <3>2. Typed(<<Judge, Rest(st, s)>> \o rest)
        BY <2>0, <1>h, <1>x, StepsTyped, TypedPushed
      <3>3. IsScene(st.scene) /\ s \in DOMAIN st.scene.at BY <1>16, <2>0, <1>h DEF StepTyped
      <3>4. st.scene.mural \in Mural /\ st.scene.at[s] \in Cell BY <3>3 DEF IsScene
      <3>5. at' \in [Screen -> Spot] BY <3>1, <3>4, SpotsTyped DEF LayoutTyped
      <3> QED BY <3>1, <3>2, <3>5, <1>16 DEF LayoutTyped, SavedTyped
    <2>2. CASE \E s \in st.left : Skip(c, st, s, rest)
      BY <1>16, <2>0, <2>2, <1>s
    <2>3. CASE Enter(c, "regroup", st, st.scene.walls, rest)
      <3>1. StepTyped(Phase("regroup", st, st.scene.walls))
        BY <2>0, <1>h DEF StepTyped, Phase, Phases, ApplyPhases
      <3> QED BY <2>3, <3>1, <1>16, <1>f
    <2> QED BY <1>16, <2>1, <2>2, <2>3 DEF Lay
  <1>17. CASE st.do = "regroup" /\ Regroup(c, st, rest) /\ UNCHANGED scenes
    <2>0. st.do \in Phases BY <1>17 DEF Phases, ApplyPhases
    <2>1. CASE \E k \in st.left, id \in FreshWall :
                    /\ NewWall(c, st.scene.mural, k.members \cap OnMural(st.scene.mural) \cap screens, id,
                               (IF k.what = Dark THEN <<>> ELSE <<Respan(id, k.what)>>)
                                   \o <<Rest(st, k)>> \o rest)
                    /\ UNCHANGED <<murals, screens, at, slice, library, badge, fence>>
      <3>1. PICK k \in st.left, id \in FreshWall :
                    /\ NewWall(c, st.scene.mural, k.members \cap OnMural(st.scene.mural) \cap screens, id,
                               (IF k.what = Dark THEN <<>> ELSE <<Respan(id, k.what)>>)
                                   \o <<Rest(st, k)>> \o rest)
                    /\ UNCHANGED <<murals, screens, at, slice, library, badge, fence>>
        BY <2>1
      <3> DEFINE z == Rest(st, k) p == Respan(id, k.what)
      <3>2. IsScene(st.scene) /\ k \in st.scene.walls BY <1>17, <2>0, <1>h DEF StepTyped
      <3>3. st.scene.mural \in Mural /\ k.what \in What BY <3>2 DEF IsScene
      <3>4. StepTyped(z) /\ Typed(<<z>> \o rest) BY <2>0, <1>x
      <3>5. StepTyped(p) BY <3>3, StepsTyped
      <3> HIDE DEF z, p
      <3>6. Typed(<<p>>) /\ Typed(<<>>) BY <3>5, <1>h, TypedPushed
      <3>7. Typed(<<p>> \o <<z>> \o rest) BY <3>4, <3>5, <1>h, TypedPushed
      <3>8. Typed(<<>> \o <<z>> \o rest)
        <4>1. <<>> \o <<z>> = <<z>> OBVIOUS
        <4> QED BY <4>1, <3>4
      <3>9. Typed((IF k.what = Dark THEN <<>> ELSE <<p>>) \o <<z>> \o rest) BY <3>7, <3>8
      <3>10. k.members \cap OnMural(st.scene.mural) \cap screens \in SUBSET Screen BY DEF LayoutTyped
      <3> QED BY <3>1, <3>3, <3>9, <3>10, <1>17, NewWallTyped DEF z, p
    <2>2. CASE \E k \in st.left : Skip(c, st, k, rest)
      BY <1>17, <2>0, <2>2, <1>s
    <2>3. CASE Enter(c, "dress", st, DOMAIN st.scene.own, rest)
      <3>1. StepTyped(Phase("dress", st, DOMAIN st.scene.own))
        BY <2>0, <1>h DEF StepTyped, Phase, Phases, ApplyPhases
      <3> QED BY <2>3, <3>1, <1>17, <1>f
    <2> QED BY <1>17, <2>1, <2>2, <2>3 DEF Regroup
  <1>18. CASE st.do = "dress" /\ Dress(c, st, rest) /\ UNCHANGED scenes
    <2>0. st.do \in Phases BY <1>18 DEF Phases, ApplyPhases
    <2>d. Dark \in What BY DEF What
    <2>1. CASE \E s \in st.left :
                  ShowOn(c, s, IF Resolves(st.scene.own[s]) THEN st.scene.own[s] ELSE Dark, <<Rest(st, s)>> \o rest)
      <3>1. PICK s \in st.left :
                  ShowOn(c, s, IF Resolves(st.scene.own[s]) THEN st.scene.own[s] ELSE Dark, <<Rest(st, s)>> \o rest)
        BY <2>1
      <3>2. IsScene(st.scene) /\ s \in DOMAIN st.scene.own BY <1>18, <2>0, <1>h DEF StepTyped
      <3>3. st.scene.own[s] \in What BY <3>2 DEF IsScene
      <3> QED BY <3>1, <3>3, <2>0, <2>d, <1>x, <1>18, ShowOnTyped DEF ShowOn
    <2>2. CASE \E s \in st.left : Skip(c, st, s, rest)
      BY <1>18, <2>0, <2>2, <1>s
    <2>3. CASE /\ badge' = [badge EXCEPT ![st.scene.mural] = st.id]
               /\ Then(c, <<[do |-> "lower", id |-> st.id]>> \o rest)
               /\ UNCHANGED <<layout, fence>>
      <3>1. st.id \in SceneId BY <2>0, <1>h DEF StepTyped
      <3>2. Typed(<<[do |-> "lower", id |-> st.id]>> \o rest) BY <1>o, StepsTyped
      <3>3. SavedTyped' BY <2>3, <3>1, <1>18 DEF SavedTyped
      <3> QED BY <2>3, <3>2, <3>3 DEF layout, LayoutTyped
    <2> QED BY <1>18, <2>1, <2>2, <2>3 DEF Dress
  <1> QED BY <1>1, <1>2, <1>3, <1>4, <1>5, <1>6, <1>7, <1>8, <1>9, <1>10, <1>11, <1>12,
             <1>13, <1>14, <1>15, <1>16, <1>17, <1>18 DEF Resume, st, rest

LEMMA TypeInvStays ==
    ASSUME NEW ops, TypeInv, [NextOf(ops)]_vars
    PROVE  TypeInv'
  <1>1. ASSUME NEW c \in Client, RequestOf(c, ops) \/ Resume(c) PROVE TypeInv'
    <2>1. TypeKept(c) BY <1>1, RequestTyped, ResumeTyped
    <2> QED BY <2>1 DEF TypeInv, TypeKept
  <1>2. ASSUME NEW c \in Client, Fail(c) PROVE TypeInv'
    <2>1. Typed(<<>>)
      <3>1. Typed(todo[c]) BY DEF TypeInv
      <3> QED BY <3>1, TypedPushed
    <2> QED BY <1>2, <2>1 DEF TypeInv, Fail, Then, layout, LayoutTyped, SavedTyped
  <1>3. CASE UNCHANGED vars
    BY <1>3 DEF vars, layout, TypeInv, LayoutTyped, SavedTyped
  <1> QED BY <1>1, <1>2, <1>3 DEF NextOf

LEMMA InitTyped ==
    ASSUME NEW M, NEW S, M \subseteq Mural, S \subseteq Screen, InitWith(M, S)
    PROVE  TypeInv
  <1> USE DEF InitWith
  <1>1. <<>> \in Seq({}) OBVIOUS
  <1>2. Elems(<<>>) = {}
    <2>1. Len(<<>>) = 0 OBVIOUS
    <2> QED BY <2>1 DEF Elems
  <1>3. \A c \in Client : Typed(todo[c]) BY <1>1, <1>2 DEF Typed, IsSeq
  <1>4. Blank \in Shown
    <2>1. Whole \in Cell \X (1..LastCell + 1) BY LineAssumption DEF Whole, Cell
    <2> QED BY <2>1 DEF Blank, Shown, What
  <1>5. LayoutTyped BY <1>4, SpotsTyped DEF LayoutTyped
  <1> QED BY <1>3, <1>5 DEF TypeInv, SavedTyped

(* Every variable is always what it should be: the packed cells of a row stay *)
(* on the line (packRects), a wall's pieces within it (computeWallSlices),    *)
(* and what is captured is a scene (snapshotScene).                          *)
THEOREM MuralsTypeCorrect == Spec => []TypeOK
  <1>2. TypeInv => TypeOK
    <2> SUFFICES ASSUME TypeInv PROVE TypeOK OBVIOUS
    <2>1. DOMAIN todo = Client BY DEF TypeInv
    <2> QED BY <2>1 DEF TypeInv, LayoutTyped, SavedTyped, TypeOK
  <1>3. Init => TypeInv BY InitTyped DEF Init
  <1>4. TypeInv /\ [Next]_vars => TypeInv' BY TypeInvStays, NextIsOf
  <1> QED BY <1>2, <1>3, <1>4, PTL DEF Spec

-----------------------------------------------------------------------------
(* When a badge goes.  A judgement that has to clear several badges awaits  *)
(* the store after each, and goes on with those it read at its start.  With  *)
(* one mural it has none left; with one request at a time they are current. *)

OneRequest == \A c, d \in Client : c = d
OneMural   == \A m, n \in Mural : m = n

Current(q) ==
    q # <<>> /\ Head(q).do = "rejudge" =>
        Head(q).left \subseteq Badges /\ (OneMural => Head(q).left = {})

JudgeInv ==
    /\ TypeInv
    /\ \A c \in Client : todo[c] # <<>> => Without(Tail(todo[c]), "rejudge")
    /\ \A c \in Client : Current(todo[c])

LEMMA HeadPushed ==
    ASSUME NEW a, NEW r, IsSeq(r)
    PROVE  <<a>> \o r # <<>> /\ Head(<<a>> \o r) = a /\ Tail(<<a>> \o r) = r
  <1>1. PICK S : r \in Seq(S) BY DEF IsSeq
  <1>2. r \in Seq(S \cup {a}) /\ <<a>> \in Seq(S \cup {a}) BY <1>1
  <1>3. /\ <<a>> \o r \in Seq(S \cup {a})
        /\ Len(<<a>> \o r) = Len(r) + 1 /\ Len(r) \in Nat /\ (<<a>> \o r)[1] = a
    BY <1>2
  <1>4. <<a>> \o r # <<>> /\ Head(<<a>> \o r) = a BY <1>3
  <1>5. /\ Tail(<<a>> \o r) \in Seq(S \cup {a}) /\ Len(Tail(<<a>> \o r)) = Len(r)
        /\ \A i \in 1..Len(r) : Tail(<<a>> \o r)[i] = r[i]
    BY <1>2, <1>3, <1>4
  <1>6. Tail(<<a>> \o r) = r BY <1>2, <1>5
  <1> QED BY <1>4, <1>6

LEMMA RequestUnbadges ==
    ASSUME JudgeInv, NEW c \in Client, Request(c),
           NEW m \in Mural, badge[m] # NoScene, badge'[m] = NoScene
    PROVE  scenes'[badge[m]] = NoScene \/ RazesMural(c, m)'
  <1>s. badge[m] \in SceneId /\ DOMAIN scenes = SceneId
    BY DEF JudgeInv, TypeInv, SavedTyped
  <1>1. CASE badge' = badge BY <1>1
  <1>2. CASE \E id \in SceneId : Unsave(c, id)
    <2>1. PICK id \in SceneId : Unsave(c, id) BY <1>2
    <2>2. badge[m] = id BY <2>1 DEF Unsave
    <2> QED BY <1>s, <2>1, <2>2 DEF Unsave
  <1>3. CASE \E k \in Mural : Raze(c, k)
    <2>1. PICK k, left : k \in Mural /\ (Evict(c, k, left, <<>>) \/ badge' = badge)
      BY <1>3 DEF Raze, RazeWalls
    <2> DEFINE a == [do |-> "close", mural |-> k]
    <2>2. CASE badge' = [badge EXCEPT ![k] = NoScene] /\ Then(c, <<a>> \o <<>>)
      <3>1. m = k BY <2>2
      <3>2. <<a>> \o <<>> # <<>> /\ Head(<<a>> \o <<>>) = a
        <4>1. IsSeq(<<>>)
          <5>1. <<>> \in Seq({}) OBVIOUS
          <5> QED BY <5>1 DEF IsSeq
        <4> HIDE DEF a
        <4> QED BY <4>1, HeadPushed
      <3>3. todo'[c] = <<a>> \o <<>> BY <2>2 DEF JudgeInv, TypeInv, Then
      <3> QED BY <3>1, <3>2, <3>3 DEF RazesMural, Idle
    <2> QED BY <1>1, <2>1, <2>2 DEF Evict
  <1> QED BY <1>1, <1>2, <1>3
          DEF Request, RequestOf, Place, Unplace, Forget, Combine, Pack, PackOne, Split, SplitWall,
              AssignScreen, ShowOn, AssignWall, SpanWall, ClearScreen, ClearWall, Unlist, Move,
              Shift, Snapshot, Apply

LEMMA ResumeUnbadges ==
    ASSUME JudgeInv, NEW c \in Client, Resume(c),
           NEW m \in Mural, badge[m] # NoScene, badge'[m] = NoScene
    PROVE  RazesMural(c, m)' \/ Judges(c)
  <1> DEFINE st == Head(todo[c]) rest == Tail(todo[c])
  <1>h. StepTyped(st) /\ IsSeq(rest) /\ todo = [d \in Client |-> todo[d]]
    <2>1. Typed(todo[c]) /\ todo[c] # <<>> BY DEF JudgeInv, TypeInv, Resume, Idle
    <2> QED BY <2>1, TypedPushed DEF JudgeInv, TypeInv, Typed
  <1> HIDE DEF st, rest
  <1>1. CASE badge' = badge BY <1>1
  <1>2. CASE JudgeStep(c, rest)
    <2>1. CASE fence BY <1>1, <1>2, <2>1 DEF JudgeStep
    <2>2. CASE ~fence
      <3>1. Rejudge(c, Badges, rest) /\ UNCHANGED <<layout, scenes>> /\ fence' = FALSE
        BY <1>2, <2>2 DEF JudgeStep
      <3> QED BY <3>1 DEF Judges, rest
    <2> QED BY <2>1, <2>2
  <1>3. CASE st.do = "rejudge" /\ RejudgeStep(c, st, rest)
    BY <1>3 DEF RejudgeStep, Judges, st, rest
  <1>4. CASE Lower(c, st, rest)
    BY <1>4 DEF Lower, Judges, rest
  <1>5. CASE RazeStep(c, st, rest) \/ EvictStep(c, st, rest)
    <2>1. PICK k, left : Evict(c, k, left, rest) \/ badge' = badge
      BY <1>5 DEF RazeStep, RazeWalls, EvictStep
    <2> DEFINE a == [do |-> "close", mural |-> k]
    <2>2. CASE badge' = [badge EXCEPT ![k] = NoScene] /\ Then(c, <<a>> \o rest)
      <3>1. m = k BY <2>2
      <3>2. <<a>> \o rest # <<>> /\ Head(<<a>> \o rest) = a
        <4> HIDE DEF a
        <4> QED BY <1>h, HeadPushed
      <3>3. todo'[c] = <<a>> \o rest BY <2>2, <1>h DEF Then
      <3> QED BY <3>1, <3>2, <3>3 DEF RazesMural, Idle
    <2> QED BY <1>1, <2>1, <2>2 DEF Evict
  <1>6. CASE st.do = "dress" /\ Dress(c, st, rest)
    <2>1. CASE badge' = [badge EXCEPT ![st.scene.mural] = st.id]
      <3>1. st.id \in SceneId BY <1>6, <1>h DEF StepTyped, Phases, ApplyPhases
      <3>2. st.id # NoScene BY <3>1, NullAssumption
      <3> QED BY <2>1, <3>2
    <2> QED BY <1>1, <1>6, <2>1 DEF Dress, ShowOn, Skip
  <1> QED BY <1>1, <1>2, <1>3, <1>4, <1>5, <1>6
          DEF Resume, st, rest, Dissolve, ClearStep, ForgetStep, Shift, PackStep, PackOne, NewWall,
              UnlistStep, RespanStep, SpanWall, Close, Resplit, SplitWall, Omit, Lay, Regroup, Skip,
              Enter

LEMMA JudgementDiverged ==
    ASSUME JudgeInv, NEW c \in Client, todo[c] # <<>>, Judges(c),
           NEW m \in Mural, badge[m] # NoScene, badge'[m] = NoScene
    PROVE  ~ Stands(m, badge[m])
  <1>1. PICK left : /\ Rejudge(c, left, Tail(todo[c]))
                    /\ left = Badges \/ (left = Head(todo[c]).left /\ Head(todo[c]).do = "rejudge")
    BY DEF Judges
  <1>2. left \subseteq Badges BY <1>1 DEF JudgeInv, Current
  <1>3. PICK b \in left : ~Stands(b.mural, b.id) /\ badge' = [badge EXCEPT ![b.mural] = NoScene]
    BY <1>1 DEF Rejudge
  <1>4. b.mural = m BY <1>3
  <1>5. b.id = badge[b.mural] BY <1>2 DEF Badges
  <1> QED BY <1>3, <1>4, <1>5

LEMMA JudgeInvStays ==
    ASSUME JudgeInv, OneRequest \/ OneMural, [Next]_vars
    PROVE  JudgeInv'
  <1>t. TypeInv' BY TypeInvStays, NextIsOf DEF JudgeInv
  <1>d. todo = [d \in Client |-> todo[d]] BY DEF JudgeInv, TypeInv
  <1>b. badge = [m \in Mural |-> badge[m]] BY DEF JudgeInv, TypeInv, SavedTyped
  <1>o. ASSUME OneMural, NEW c \in Client, todo'[c] = todo[c] PROVE Current(todo[c])'
    BY <1>o DEF JudgeInv, Current, OneMural
  <1>p. ASSUME NEW c \in Client, Pushes(c, "rejudge"), Idle(c) \/ Head(todo[c]).do # "rejudge"
        PROVE  JudgeInv'
    <2>1. \A d \in Client \ {c} : todo'[d] = todo[d]
      BY <1>p, <1>d DEF Pushes
    <2>2. /\ todo'[c] # <<>> => Without(Tail(todo'[c]), "rejudge")
          /\ Current(todo[c])'
      <3>1. CASE todo' = todo BY <1>p, <3>1 DEF JudgeInv, Current, Idle
      <3>2. CASE \E q : Without(q, "rejudge") /\ todo' = [todo EXCEPT ![c] = q]
        <4>1. PICK q : Without(q, "rejudge") /\ todo'[c] = q BY <3>2, <1>d
        <4>2. q # <<>> => Without(Tail(q), "rejudge") /\ Head(q).do # "rejudge"
          BY <4>1, WithoutTail DEF Other
        <4> QED BY <4>1, <4>2 DEF Current
      <3> QED BY <1>p, <3>1, <3>2 DEF Pushes
    <2>3. \A d \in Client \ {c} : Current(todo[d])' BY <2>1, <1>o DEF OneRequest
    <2> QED BY <1>t, <2>1, <2>2, <2>3 DEF JudgeInv
  <1>j. ASSUME NEW c \in Client, todo[c] # <<>>, Judges(c) PROVE JudgeInv'
    <2> DEFINE rest == Tail(todo[c])
    <2>0. Without(rest, "rejudge") /\ IsSeq(rest) BY <1>j DEF JudgeInv, Without
    <2> HIDE DEF rest
    <2>1. PICK left : /\ Rejudge(c, left, rest)
                      /\ \/ left = Badges
                         \/ left = Head(todo[c]).left /\ Head(todo[c]).do = "rejudge"
      BY <1>j DEF Judges, rest
    <2>2. left \subseteq Badges BY <2>1, <1>j DEF JudgeInv, Current
    <2>3. CASE Then(c, rest)
      <3>1. todo'[c] = rest /\ \A d \in Client \ {c} : todo'[d] = todo[d]
        BY <2>3, <1>d DEF Then
      <3>2. rest # <<>> => Without(Tail(rest), "rejudge") /\ Head(rest).do # "rejudge"
        BY <2>0, WithoutTail DEF Other
      <3>3. Current(todo[c])' BY <3>1, <3>2 DEF Current
      <3>4. \A d \in Client \ {c} : Current(todo[d])' BY <3>1, <1>o DEF OneRequest
      <3> QED BY <1>t, <3>1, <3>2, <3>3, <3>4 DEF JudgeInv
    <2>4. CASE \E b \in left, standing \in SUBSET left :
                    /\ badge' = [badge EXCEPT ![b.mural] = NoScene]
                    /\ Then(c, <<[do |-> "rejudge", left |-> left \ (standing \cup {b})]>> \o rest)
      <3>1. PICK b \in left, standing \in SUBSET left :
                    /\ badge' = [badge EXCEPT ![b.mural] = NoScene]
                    /\ Then(c, <<[do |-> "rejudge", left |-> left \ (standing \cup {b})]>> \o rest)
        BY <2>4
      <3> DEFINE more == left \ (standing \cup {b})
                 a == [do |-> "rejudge", left |-> more]
      <3>2. ASSUME NEW x \in more PROVE x \in Badges'
        <4>1. x \in Badges /\ b \in Badges /\ x # b BY <2>2
        <4>2. x = [mural |-> x.mural, id |-> badge[x.mural]] /\ x.mural \in Mural
              /\ badge[x.mural] # NoScene
          BY <4>1 DEF Badges
        <4>3. b = [mural |-> b.mural, id |-> badge[b.mural]] BY <4>1 DEF Badges
        <4>4. x.mural # b.mural BY <4>1, <4>2, <4>3
        <4>5. badge'[x.mural] = badge[x.mural] BY <3>1, <4>4
        <4> QED BY <4>2, <4>5 DEF Badges
      <3>3. OneMural => more = {}
        <4> SUFFICES ASSUME OneMural, NEW x \in more PROVE FALSE OBVIOUS
        <4>1. x \in Badges /\ b \in Badges /\ x # b BY <2>2
        <4>2. PICK m \in Mural : x = [mural |-> m, id |-> badge[m]] BY <4>1 DEF Badges
        <4>3. PICK n \in Mural : b = [mural |-> n, id |-> badge[n]] BY <4>1 DEF Badges
        <4> QED BY <4>1, <4>2, <4>3 DEF OneMural
      <3>4. a.do = "rejudge" /\ a.left = more OBVIOUS
      <3>5. todo'[c] = <<a>> \o rest /\ \A d \in Client \ {c} : todo'[d] = todo[d]
        BY <3>1, <1>d DEF Then
      <3> HIDE DEF more, a
      <3>6. Head(todo'[c]) = a /\ Tail(todo'[c]) = rest BY <3>5, <2>0, HeadPushed
      <3>7. Current(todo[c])' BY <3>2, <3>3, <3>4, <3>6 DEF Current, OneMural
      <3>8. \A d \in Client \ {c} : Current(todo[d])' BY <3>5, <1>o DEF OneRequest
      <3> QED BY <1>t, <2>0, <3>5, <3>6, <3>7, <3>8 DEF JudgeInv
    <2> QED BY <2>1, <2>3, <2>4 DEF Rejudge
  <1>1. ASSUME NEW c \in Client, Request(c) PROVE JudgeInv'
    <2>1. Idle(c) BY <1>1 DEF Request, RequestOf, Place, Unplace, Forget, Combine, Pack, Split,
              AssignScreen, AssignWall, ClearScreen, ClearWall, Unlist, Move, Snapshot, Apply,
              Unsave, Raze
    <2>2. Pushes(c, "rejudge") BY <1>1, RequestPushes DEF Kept
    <2> QED BY <2>1, <2>2, <1>p
  <1>2. ASSUME NEW c \in Client, Resume(c) PROVE JudgeInv'
    <2>1. todo[c] # <<>> BY <1>2 DEF Resume, Idle
    <2>2. Without(Tail(todo[c]), "rejudge") /\ "do" \in DOMAIN Head(todo[c])
      <3>1. Typed(todo[c]) BY DEF JudgeInv, TypeInv
      <3>2. StepTyped(Head(todo[c])) BY <2>1, <3>1, TypedPushed
      <3> QED BY <2>1, <3>2 DEF JudgeInv, StepTyped
    <2>3. CASE Head(todo[c]).do = "rejudge"
      <3>1. RejudgeStep(c, Head(todo[c]), Tail(todo[c])) BY <1>2, <2>3 DEF Resume
      <3>2. Judges(c) BY <3>1, <2>3 DEF RejudgeStep, Judges
      <3> QED BY <2>1, <3>2, <1>j
    <2>4. CASE Head(todo[c]).do # "rejudge"
      <3>1. Other(Head(todo[c]), "rejudge") BY <2>2, <2>4 DEF Other
      <3>2. Pushes(c, "rejudge") \/ Judges(c) BY <1>2, <2>2, <3>1, ResumePushes DEF Kept
      <3> QED BY <2>1, <2>4, <3>2, <1>j, <1>p
    <2> QED BY <2>3, <2>4
  <1>3. ASSUME NEW c \in Client, Fail(c) PROVE JudgeInv'
    <2>1. todo' = [todo EXCEPT ![c] = <<>>] /\ badge' = badge BY <1>3 DEF Fail, Then
    <2>2. \A d \in Client : todo'[d] = <<>> \/ todo'[d] = todo[d] BY <2>1, <1>d
    <2> QED BY <1>t, <2>1, <2>2 DEF JudgeInv, Current, Badges
  <1>4. CASE UNCHANGED vars
    BY <1>t, <1>4 DEF vars, JudgeInv, Current, Badges
  <1> QED BY <1>1, <1>2, <1>3, <1>4 DEF Next

(* A badge is cleared only when its mural has stopped being the scene, or the *)
(* scene or the mural is deleted: with one request at a time, or with any     *)
(* number of them on one mural (reconcileActiveScene, deleteScene,           *)
(* deleteMural).                                                             *)
THEOREM BadgesFallWhenDiverged ==
    ASSUME OneRequest \/ OneMural
    PROVE  Spec => BadgeOnlyWhenDiverged
  <1> DEFINE Step == \A m \in Mural : badge[m] # NoScene /\ badge'[m] = NoScene =>
                        \/ ~(scenes[badge[m]] # NoScene /\ Identical(scenes[badge[m]]))
                        \/ scenes'[badge[m]] = NoScene
                        \/ \E c \in Client : RazesMural(c, m)'
  <1>1. Init => JudgeInv
    <2> SUFFICES ASSUME Init PROVE JudgeInv OBVIOUS
    <2>1. TypeInv BY InitTyped DEF Init
    <2>2. \A c \in Client : todo[c] = <<>> BY DEF Init, InitWith
    <2> QED BY <2>1, <2>2 DEF JudgeInv, Current
  <1>2. JudgeInv /\ [Next]_vars => Step
    <2> SUFFICES ASSUME JudgeInv, [Next]_vars, NEW m \in Mural, badge[m] # NoScene, badge'[m] = NoScene
                 PROVE  \/ ~Stands(m, badge[m])
                        \/ scenes'[badge[m]] = NoScene
                        \/ \E c \in Client : RazesMural(c, m)'
      BY DEF Stands
    <2>1. ASSUME NEW c \in Client, Request(c) PROVE scenes'[badge[m]] = NoScene \/ RazesMural(c, m)'
      BY <2>1, RequestUnbadges
    <2>2. ASSUME NEW c \in Client, Resume(c) PROVE ~Stands(m, badge[m]) \/ RazesMural(c, m)'
      <3>1. todo[c] # <<>> BY <2>2 DEF Resume, Idle
      <3>2. RazesMural(c, m)' \/ Judges(c) BY <2>2, ResumeUnbadges
      <3> QED BY <3>1, <3>2, JudgementDiverged
    <2>3. badge' # badge OBVIOUS
    <2> QED BY <2>1, <2>2, <2>3 DEF Next, Fail, vars
  <1>3. Spec => [][Step]_vars
    BY <1>1, <1>2, JudgeInvStays, PTL DEF Spec
  <1> QED BY <1>3 DEF BadgeOnlyWhenDiverged

-----------------------------------------------------------------------------
(* No wall with a hole.  With one request at a time every wall is whole      *)
(* whenever a handler begins; what may be missing while one is under way is  *)
(* told by the step its continuation begins with.                           *)

Whole3(w, f, S) ==
    /\ w.members \subseteq S
    /\ \A s \in w.members : f[s].mural = w.mural
    /\ Contiguous(CellsOf(f, w.members))

AllWhole == \A w \in walls : Whole3(w, at, screens)

(* What a continuation begins with at most, and what it ends with at most. *)
Heads == {"dissolve", "shift", "forget", "pack", "raze", "evict", "close"}
Lone  == ApplyPhases \cup {"pack"}

(* The first phases of an apply take the walls W away; until they have, what *)
(* they have left is all of them.                                           *)
Phased(a, W) ==
    /\ a.do \in ApplyPhases => OneMural
    /\ a.do = "resplit" => \A w \in W : w.id \in a.left
    /\ a.do \in {"omit", "lay"} => W = {}

Later(q, W) ==
    /\ IsSeq(q)
    /\ \A i \in 1..Len(q) : /\ Phased(q[i], W)
                            /\ q[i].do \in Lone => i = Len(q)
                            /\ q[i].do \notin Heads

Line(q, W) ==
    /\ IsSeq(q) /\ q # <<>>
    /\ Phased(Head(q), W)
    /\ Head(q).do \in Lone => Tail(q) = <<>>
    /\ Later(Tail(q), W)

(* The layout is as the step that comes next expects it. *)
Ready(a) ==
    /\ a.do \notin {"dissolve", "shift"} => AllWhole
    /\ a.do = "dissolve" => \A w \in walls : a.screen \in w.members \/ Whole3(w, at, screens)
    /\ a.do = "shift" =>
           LET then == [s \in Screen |-> IF s \in a.left THEN a.to[s] ELSE at[s]]
           IN  /\ \A w \in walls : Whole3(w, then, screens)
               /\ \A s \in a.left : a.to[s].mural \in murals
    /\ a.do = "forget" => ~Walled(a.screen)
    /\ a.do = "pack" => /\ Combinable(a.mural, a.members) /\ a.left \subseteq a.members
                        /\ \A s \in a.members \ a.left : at[s].cell = a.to[s]
                        /\ Contiguous({a.to[s] : s \in a.members})
    /\ a.do = "raze" => /\ {"mural", "left"} \subseteq DOMAIN a
                        /\ a.mural \in Mural /\ WallsOn(a.mural) \subseteq a.left
    /\ a.do = "evict" => a.mural \in Mural /\ WallsOn(a.mural) = {} /\ OnMural(a.mural) = a.left
    /\ a.do = "close" => WallsOn(a.mural) = {} /\ OnMural(a.mural) = {}

Staged(q) ==
    /\ q = <<>> => AllWhole
    /\ q # <<>> => Line(q, walls) /\ Ready(Head(q))

(* Nothing is on a mural that does not exist. *)
Grounded ==
    /\ \A s \in Screen : at[s].mural \in murals \cup {NoMural}
    /\ \A w \in walls : w.mural \in murals

WholeInv ==
    /\ TypeInv /\ Apart(walls) /\ Grounded
    /\ \A c \in Client : Staged(todo[c])
    /\ Quiet => AllWhole

WholeKept(c) ==
    Apart(walls') /\ Grounded' /\ \E q : todo' = [todo EXCEPT ![c] = q] /\ Staged(q)'

-----------------------------------------------------------------------------
(* Continuations again. *)

LEMMA Glued ==
    ASSUME NEW r, IsSeq(r)
    PROVE  /\ <<>> \o r = r
           /\ \A a : IsSeq(<<a>> \o r) /\ <<a>> \o <<>> = <<a>>
  <1>1. PICK S : r \in Seq(S) BY DEF IsSeq
  <1>2. <<>> \o r = r BY <1>1
  <1>3. \A a : IsSeq(<<a>> \o r) /\ <<a>> \o <<>> = <<a>>
    <2> TAKE a
    <2>1. r \in Seq(S \cup {a}) /\ <<a>> \in Seq(S \cup {a}) BY <1>1
    <2> QED BY <2>1 DEF IsSeq
  <1> QED BY <1>2, <1>3

LEMMA Pair ==
    ASSUME NEW a, NEW b
    PROVE  <<a, b>> = <<a>> \o <<b>>
  <1> DEFINE p == <<a, b>>
             q == <<a>> \o <<b>>
  <1>1. p \in Seq({a, b}) /\ Len(p) = 2 /\ p[1] = a /\ p[2] = b OBVIOUS
  <1>2. <<a>> \in Seq({a, b}) /\ <<b>> \in Seq({a, b}) OBVIOUS
  <1>3. q \in Seq({a, b}) /\ Len(q) = 2 /\ q[1] = a /\ q[2] = b BY <1>2
  <1> HIDE DEF p, q
  <1>4. \A i \in 1..2 : p[i] = q[i] BY <1>1, <1>3
  <1>5. p = q BY <1>1, <1>3, <1>4
  <1> QED BY <1>5 DEF p, q

LEMMA PairGlued ==
    ASSUME NEW r, IsSeq(r), NEW a, NEW b
    PROVE  /\ <<a, b>> \o r = <<a>> \o (<<b>> \o r)
           /\ (<<a>> \o <<b>>) \o r = <<a>> \o (<<b>> \o r)
  <1>p. PICK S : r \in Seq(S) BY DEF IsSeq
  <1> DEFINE T == S \cup {a, b}
             x == <<a, b>> \o r
             z == <<b>> \o r
             y == <<a>> \o z
  <1>1. <<a, b>> = <<a>> \o <<b>> BY Pair
  <1>2. r \in Seq(T) /\ <<a, b>> \in Seq(T) /\ <<a>> \in Seq(T) /\ <<b>> \in Seq(T) BY <1>p
  <1>3. /\ x \in Seq(T) /\ Len(x) = Len(r) + 2 /\ Len(r) \in Nat
        /\ \A i \in 1..Len(r) + 2 : x[i] = IF i = 1 THEN a ELSE IF i = 2 THEN b ELSE r[i - 2]
    BY <1>2
  <1>4. /\ z \in Seq(T) /\ Len(z) = Len(r) + 1
        /\ \A i \in 1..Len(r) + 1 : z[i] = IF i = 1 THEN b ELSE r[i - 1]
    BY <1>2
  <1> HIDE DEF z, T
  <1>5. /\ y \in Seq(T) /\ Len(y) = Len(r) + 2
        /\ \A i \in 1..Len(r) + 2 : y[i] = IF i = 1 THEN a ELSE z[i - 1]
    <2>1. z \in Seq(T) /\ <<a>> \in Seq(T) BY <1>2, <1>4
    <2>2. y \in Seq(T) /\ Len(y) = Len(z) + 1 BY <2>1
    <2>3. \A i \in 1..Len(z) + 1 : y[i] = IF i = 1 THEN a ELSE z[i - 1] BY <2>1
    <2>4. Len(z) + 1 = Len(r) + 2 BY <1>3, <1>4
    <2> QED BY <2>2, <2>3, <2>4
  <1> HIDE DEF x, y
  <1>6. ASSUME NEW i \in 1..Len(r) + 2 PROVE x[i] = y[i]
    <2> DEFINE n == Len(r)
    <2>0. n \in Nat BY <1>3
    <2> HIDE DEF n
    <2>1. i \in 1..n + 2 BY DEF n
    <2>2. i # 1 => i - 1 \in 1..n + 1 /\ (i - 1 = 1 <=> i = 2) /\ (i - 1) - 1 = i - 2 BY <2>0, <2>1
    <2>3. i # 1 => z[i - 1] = IF i = 2 THEN b ELSE r[i - 2] BY <2>2, <1>4 DEF n
    <2> QED BY <1>3, <1>5, <2>3
  <1>7. x = y BY <1>3, <1>5, <1>6
  <1> QED BY <1>1, <1>7 DEF x, y, z

LEMMA LaterPush ==
    ASSUME NEW W, NEW r, Later(r, W), NEW a, Phased(a, W), a.do \in Lone => r = <<>>
    PROVE  /\ Line(<<a>> \o r, W)
           /\ Head(<<a>> \o r) = a
           /\ a.do \notin Heads => Later(<<a>> \o r, W)
  <1>0. IsSeq(r) BY DEF Later
  <1>1. <<a>> \o r # <<>> /\ Head(<<a>> \o r) = a /\ Tail(<<a>> \o r) = r
    BY <1>0, HeadPushed
  <1>2. IsSeq(<<a>> \o r) BY <1>0, Glued
  <1>3. Line(<<a>> \o r, W) BY <1>1, <1>2 DEF Line
  <1>4. ASSUME a.do \notin Heads PROVE Later(<<a>> \o r, W)
    <2>1. PICK S : r \in Seq(S) BY <1>0 DEF IsSeq
    <2>2. r \in Seq(S \cup {a}) /\ <<a>> \in Seq(S \cup {a}) BY <2>1
    <2>3. /\ Len(<<a>> \o r) = Len(r) + 1 /\ Len(r) \in Nat
          /\ \A i \in 1..Len(r) + 1 : (<<a>> \o r)[i] = IF i = 1 THEN a ELSE r[i - 1]
      BY <2>2
    <2>4. r = <<>> => Len(r) = 0 OBVIOUS
    <2>5. \A i \in 1..Len(r) + 1 : i # 1 => i - 1 \in 1..Len(r) BY <2>3
    <2> QED BY <1>2, <1>4, <2>3, <2>4, <2>5 DEF Later
  <1> QED BY <1>1, <1>3, <1>4

LEMMA LaterHead ==
    ASSUME NEW W, NEW r, Later(r, W), r # <<>>
    PROVE  Line(r, W) /\ Head(r).do \notin Heads
  <1>1. PICK S : r \in Seq(S) BY DEF Later, IsSeq
  <1>2. /\ Len(r) \in Nat /\ Len(r) >= 1 /\ Head(r) = r[1] /\ 1 \in 1..Len(r)
        /\ Tail(r) \in Seq(S) /\ Len(Tail(r)) = Len(r) - 1
    BY <1>1
  <1>3. \A i \in 1..Len(Tail(r)) : Tail(r)[i] = r[i + 1] /\ i + 1 \in 1..Len(r)
    BY <1>1, <1>2
  <1>4. Phased(Head(r), W) /\ Head(r).do \notin Heads /\ (Head(r).do \in Lone => Len(r) = 1)
    BY <1>2 DEF Later
  <1>5. Len(r) = 1 => Tail(r) = <<>>
    <2>1. Len(r) = 1 => Len(Tail(r)) = 0 BY <1>2
    <2>2. \A t \in Seq(S) : Len(t) = 0 => t = <<>> OBVIOUS
    <2>3. Tail(r) \in Seq(S) BY <1>2
    <2> QED BY <2>1, <2>2, <2>3
  <1>6. Later(Tail(r), W)
    <2>1. IsSeq(Tail(r)) BY <1>2 DEF IsSeq
    <2>2. ASSUME NEW i \in 1..Len(Tail(r))
          PROVE  /\ Phased(Tail(r)[i], W) /\ Tail(r)[i].do \notin Heads
                 /\ Tail(r)[i].do \in Lone => i = Len(Tail(r))
      <3> DEFINE n == Len(r) k == Len(Tail(r))
      <3>0. n \in Nat /\ n >= 1 /\ k = n - 1 BY <1>2
      <3> HIDE DEF n, k
      <3>1. i \in 1..k BY DEF k
      <3>2. i \in Nat /\ (i + 1 = n => i = k) BY <3>0, <3>1
      <3>3. i + 1 = Len(r) => i = Len(Tail(r)) BY <3>2 DEF n, k
      <3>4. i + 1 \in 1..Len(r) /\ Tail(r)[i] = r[i + 1] BY <1>3
      <3> QED BY <3>3, <3>4 DEF Later
    <2> QED BY <2>1, <2>2 DEF Later
  <1>7. IsSeq(r) BY DEF Later
  <1> QED BY <1>4, <1>5, <1>6, <1>7 DEF Line

LEMMA LaterFewer ==
    ASSUME NEW W, NEW V, \A v \in V : \E w \in W : w.id = v.id
    PROVE  /\ \A r : Later(r, W) => Later(r, V)
           /\ \A a : Phased(a, W) => Phased(a, V)
  <1>1. \A a : Phased(a, W) => Phased(a, V) BY DEF Phased
  <1> QED BY <1>1 DEF Later

LEMMA LaterNone ==
    ASSUME NEW W
    PROVE  Later(<<>>, W)
  <1>1. <<>> \in Seq({}) /\ Len(<<>>) = 0 OBVIOUS
  <1> QED BY <1>1 DEF Later, IsSeq

Plain(a) == a.do \in {"judge", "clear", "rejudge", "respan", "unlist"}

LEMMA PlainSteps ==
    /\ Plain(Judge) /\ \A S : Plain(Clear(S))
    /\ \A id, x : Plain(Respan(id, x))
    /\ \A x : Plain([do |-> "rejudge", left |-> x])
    /\ \A id, x : Plain([do |-> "unlist", source |-> id, left |-> x])
    /\ \A a : Plain(a) => /\ \A W : Phased(a, W)
                          /\ a.do \notin Lone /\ a.do \notin Heads
                          /\ AllWhole' => Ready(a)'
  BY DEF Plain, Judge, Clear, Respan, Phased, Lone, Heads, ApplyPhases, Ready

LEMMA LaterPlain ==
    ASSUME NEW W, NEW r, Later(r, W), NEW a, Plain(a)
    PROVE  Later(<<a>> \o r, W)
  <1>1. Phased(a, W) /\ a.do \notin Lone /\ a.do \notin Heads BY PlainSteps
  <1> QED BY <1>1, LaterPush

(* A continuation with nothing particular at its head needs every wall whole. *)
LEMMA StagedLater ==
    ASSUME NEW q, Later(q, walls'), AllWhole'
    PROVE  Staged(q)'
  <1>1. CASE q = <<>> BY <1>1 DEF Staged
  <1>2. CASE q # <<>>
    <2>1. Line(q, walls') /\ Head(q).do \notin Heads BY <1>2, LaterHead
    <2>2. Ready(Head(q))' BY <2>1 DEF Ready, Heads
    <2> QED BY <1>2, <2>1, <2>2 DEF Staged
  <1> QED BY <1>1, <1>2

LEMMA StagedHead ==
    ASSUME NEW r, Later(r, walls'), NEW a, Phased(a, walls'), a.do \in Lone => r = <<>>, Ready(a)'
    PROVE  Staged(<<a>> \o r)'
  <1>1. Line(<<a>> \o r, walls') /\ Head(<<a>> \o r) = a BY LaterPush
  <1>2. <<a>> \o r # <<>> BY <1>1 DEF Line
  <1> QED BY <1>1, <1>2 DEF Staged

-----------------------------------------------------------------------------
(* What keeps walls whole. *)

LEMMA WholeMoved ==
    ASSUME NEW w, NEW f, NEW g, NEW S, NEW T, Whole3(w, f, S),
           \A s \in w.members : g[s] = f[s], w.members \subseteq T
    PROVE  Whole3(w, g, T)
  <1>1. CellsOf(g, w.members) = CellsOf(f, w.members) BY DEF CellsOf
  <1> QED BY <1>1 DEF Whole3

LEMMA WallOfMember ==
    ASSUME Apart(walls)
    PROVE  /\ \A w \in walls : \A s \in w.members : Walled(s) /\ WallOf(s) = w
           /\ \A s : Walled(s) => /\ WallOf(s) \in walls /\ s \in WallOf(s).members
                                  /\ \A w \in walls \ {WallOf(s)} : s \notin w.members
  <1>1. ASSUME NEW w \in walls, NEW s \in w.members PROVE Walled(s) /\ WallOf(s) = w
    <2>1. \A v \in walls : s \in v.members => v = w BY DEF Apart
    <2>2. WallsOf(s) = {w} BY <2>1 DEF WallsOf
    <2> QED BY <2>2 DEF Walled, WallOf
  <1>2. ASSUME NEW s, Walled(s)
        PROVE  WallOf(s) \in walls /\ s \in WallOf(s).members
               /\ \A w \in walls \ {WallOf(s)} : s \notin w.members
    <2>1. WallOf(s) \in WallsOf(s) BY <1>2 DEF Walled, WallOf
    <2>2. \A w \in walls : s \in w.members => WallOf(s) = w BY <1>1
    <2> QED BY <2>1, <2>2 DEF WallsOf
  <1> QED BY <1>1, <1>2

LEMMA FewerWalls ==
    ASSUME Apart(walls), Grounded, walls' \subseteq walls, UNCHANGED <<murals, screens, at>>
    PROVE  /\ Apart(walls') /\ Grounded'
           /\ AllWhole => AllWhole'
           /\ \A r : Later(r, walls) => Later(r, walls')
           /\ \A a : Phased(a, walls) => Phased(a, walls')
  <1>1. Apart(walls') BY ApartFewer
  <1>2. Grounded' BY DEF Grounded
  <1>3. AllWhole => AllWhole' BY DEF AllWhole
  <1>4. \A v \in walls' : \E w \in walls : w.id = v.id OBVIOUS
  <1> QED BY <1>1, <1>2, <1>3, <1>4, LaterFewer

LEMMA WallResourced ==
    ASSUME Apart(walls), Grounded, NEW w \in walls, NEW x \in What,
           walls' = (walls \ {w}) \cup {[w EXCEPT !.source = x]}, UNCHANGED <<murals, screens, at>>
    PROVE  /\ Apart(walls') /\ Grounded'
           /\ AllWhole => AllWhole'
           /\ \A r : Later(r, walls) => Later(r, walls')
  <1> DEFINE v == [w EXCEPT !.source = x]
  <1>1. w \in Wall BY DEF Apart
  <1>2. v.id = w.id /\ v.members = w.members /\ v.mural = w.mural BY <1>1 DEF Wall
  <1>3. Apart(walls') BY ApartResourced
  <1> HIDE DEF v
  <1>4. walls' = (walls \ {w}) \cup {v} BY DEF v
  <1>5. Grounded' BY <1>2, <1>4 DEF Grounded
  <1>6. AllWhole => AllWhole' BY <1>2, <1>4 DEF AllWhole, Whole3
  <1>7. \A u \in walls' : \E z \in walls : z.id = u.id BY <1>2, <1>4
  <1> QED BY <1>3, <1>5, <1>6, <1>7, LaterFewer

LEMMA WallAdded ==
    ASSUME TypeInv, Apart(walls), Grounded, AllWhole, NEW m, NEW S, NEW id \in FreshWall,
           Combinable(m, S), Contiguous(CellsOf(at, S)),
           walls' = walls \cup {[id |-> id, mural |-> m, members |-> S, source |-> Dark]},
           UNCHANGED <<murals, screens, at>>
    PROVE  Apart(walls') /\ Grounded' /\ AllWhole'
  <1> DEFINE n == [id |-> id, mural |-> m, members |-> S, source |-> Dark]
  <1>1. Apart(walls')
    <2>1. murals \subseteq Mural BY DEF TypeInv, LayoutTyped
    <2> QED BY <2>1, ApartWithNew
  <1>2. n.mural \in murals /\ Whole3(n, at, screens)
    BY DEF Combinable, OnMural, Whole3
  <1> HIDE DEF n
  <1>3. walls' = walls \cup {n} BY DEF n
  <1> QED BY <1>1, <1>2, <1>3 DEF Grounded, AllWhole

(* A screen in no wall may go anywhere. *)
LEMMA LooseMoved ==
    ASSUME TypeInv, Grounded, NEW s, NEW x, at' = [at EXCEPT ![s] = x],
           x.mural \in murals \cup {NoMural}, UNCHANGED <<murals, walls>>
    PROVE  /\ Grounded'
           /\ \A w \in walls : s \notin w.members /\ Whole3(w, at, screens) /\ w.members \subseteq screens'
                  => Whole3(w, at', screens')
  <1>1. screens \subseteq Screen /\ at = [t \in Screen |-> at[t]] BY DEF TypeInv, LayoutTyped
  <1>2. \A t \in Screen : at'[t] = IF t = s THEN x ELSE at[t] BY <1>1
  <1>3. Grounded' BY <1>2 DEF Grounded
  <1>4. ASSUME NEW w \in walls, s \notin w.members, Whole3(w, at, screens), w.members \subseteq screens'
        PROVE  Whole3(w, at', screens')
    <2>1. \A t \in w.members : at'[t] = at[t] BY <1>1, <1>2, <1>4 DEF Whole3
    <2> QED BY <1>4, <2>1, WholeMoved
  <1> QED BY <1>3, <1>4

LEMMA LaterJudged ==
    ASSUME NEW W, NEW r, Later(r, W)
    PROVE  /\ Later(<<Judge>> \o r, W)
           /\ \A S : Later(<<Clear(S), Judge>> \o r, W)
           /\ Later(<<Judge>>, W)
  <1>0. IsSeq(r) BY DEF Later
  <1>1. \A q : Later(q, W) => Later(<<Judge>> \o q, W) BY LaterPlain, PlainSteps
  <1>2. \A S : Later(<<Clear(S)>> \o (<<Judge>> \o r), W) BY <1>1, LaterPlain, PlainSteps
  <1>3. \A S : <<Clear(S), Judge>> \o r = <<Clear(S)>> \o (<<Judge>> \o r) BY <1>0, PairGlued
  <1>4. <<Judge>> \o <<>> = <<Judge>> BY <1>0, Glued
  <1> QED BY <1>1, <1>2, <1>3, <1>4, LaterNone

LEMMA PackOneWhole ==
    ASSUME TypeInv, Apart(walls), Grounded, NEW c, NEW st, st.do = "pack",
           {"do", "mural", "members", "to", "left"} \subseteq DOMAIN st,
           Ready(st), PackOne(c, st, <<>>)
    PROVE  WholeKept(c)
  <1>1. PICK s \in st.left :
            /\ at' = [at EXCEPT ![s] = [mural |-> st.mural, cell |-> st.to[s]]]
            /\ Then(c, <<[st EXCEPT !.left = @ \ {s}]>> \o <<>>)
            /\ UNCHANGED <<murals, screens, walls, slice, library, scenes, badge, fence>>
    BY DEF PackOne
  <1> DEFINE a == [st EXCEPT !.left = @ \ {s}]
             x == [mural |-> st.mural, cell |-> st.to[s]]
  <1>2. /\ a.do = "pack" /\ a.mural = st.mural /\ a.members = st.members /\ a.to = st.to
        /\ a.left = st.left \ {s}
    OBVIOUS
  <1>3. /\ AllWhole /\ Combinable(st.mural, st.members) /\ st.left \subseteq st.members
        /\ \A t \in st.members \ st.left : at[t].cell = st.to[t]
        /\ Contiguous({st.to[t] : t \in st.members})
    BY DEF Ready
  <1>4. s \in st.members /\ s \in Screen /\ st.mural \in murals /\ at = [t \in Screen |-> at[t]]
    BY <1>1, <1>3 DEF Combinable, OnMural, TypeInv, LayoutTyped
  <1>5. \A w \in walls : s \notin w.members BY <1>3, <1>4 DEF Combinable, Walled, WallsOf
  <1>6. x.mural = st.mural /\ x.cell = st.to[s] /\ at' = [at EXCEPT ![s] = x] BY <1>1
  <1> HIDE DEF a, x
  <1>7. Grounded' /\ AllWhole'
    <2>1. \A w \in walls : w.members \subseteq screens' BY <1>1, <1>3 DEF AllWhole, Whole3
    <2> QED BY <1>1, <1>3, <1>4, <1>5, <1>6, <2>1, LooseMoved DEF AllWhole
  <1>8. \A t \in Screen : at'[t] = IF t = s THEN x ELSE at[t] BY <1>4, <1>6
  <1>9. Combinable(st.mural, st.members)'
    <2>1. OnMural(st.mural) \subseteq OnMural(st.mural)' BY <1>6, <1>8 DEF OnMural
    <2> QED BY <1>1, <1>3, <2>1 DEF Combinable, Walled, WallsOf
  <1>10. \A t \in a.members \ a.left : at'[t].cell = a.to[t]
    <2>1. st.members \subseteq Screen BY <1>3 DEF Combinable, OnMural
    <2> QED BY <1>2, <1>3, <1>6, <1>8, <2>1
  <1>11. Ready(a)' BY <1>2, <1>3, <1>7, <1>9, <1>10 DEF Ready
  <1>12. Later(<<>>, walls') /\ Phased(a, walls') BY <1>2, LaterNone DEF Phased, ApplyPhases
  <1>13. Staged(<<a>> \o <<>>)' BY <1>11, <1>12, StagedHead
  <1> QED BY <1>1, <1>7, <1>13 DEF WholeKept, Then, a

LEMMA ShiftWhole ==
    ASSUME TypeInv, Apart(walls), Grounded, NEW c, NEW to, NEW left, NEW r, Later(r, walls),
           \A w \in walls : Whole3(w, [s \in Screen |-> IF s \in left THEN to[s] ELSE at[s]], screens),
           \A s \in left : to[s].mural \in murals,
           Shift(c, to, left, r)
    PROVE  WholeKept(c)
  <1> DEFINE then == [t \in Screen |-> IF t \in left THEN to[t] ELSE at[t]]
  <1>1. PICK s \in left :
            /\ at' = [at EXCEPT ![s] = to[s]]
            /\ Then(c, (IF left = {s} THEN <<>>
                        ELSE <<[do |-> "shift", to |-> to, left |-> left \ {s}]>>) \o r)
            /\ UNCHANGED <<murals, screens, walls, slice, library, scenes, badge, fence>>
    BY DEF Shift
  <1>2. screens \subseteq Screen /\ at = [t \in Screen |-> at[t]] BY DEF TypeInv, LayoutTyped
  <1>3. \A t \in Screen : at'[t] = IF t = s THEN to[s] ELSE at[t] BY <1>1, <1>2
  <1>4. Grounded' BY <1>1, <1>3 DEF Grounded
  <1>5. Later(r, walls') BY <1>1
  <1>6. CASE left = {s}
    <2>1. \A w \in walls : Whole3(w, at', screens')
      <3> TAKE w \in walls
      <3>1. Whole3(w, then, screens) OBVIOUS
      <3>2. w.members \subseteq screens' /\ w.members \subseteq Screen BY <1>1, <1>2, <3>1 DEF Whole3
      <3>3. \A t \in w.members : at'[t] = then[t] BY <1>3, <1>6, <3>2
      <3> HIDE DEF then
      <3> QED BY <3>1, <3>2, <3>3, WholeMoved
    <2>2. AllWhole' BY <1>1, <2>1 DEF AllWhole
    <2>3. <<>> \o r = r
      <3>1. IsSeq(r) BY DEF Later
      <3> QED BY <3>1, Glued
    <2>4. Staged(r)' BY <1>5, <2>2, StagedLater
    <2> QED BY <1>1, <1>4, <1>6, <2>3, <2>4 DEF WholeKept, Then
  <1>7. CASE left # {s}
    <2> DEFINE a == [do |-> "shift", to |-> to, left |-> left \ {s}]
               next == [t \in Screen |-> IF t \in left \ {s} THEN to[t] ELSE at'[t]]
    <2>1. next = then
      <3>1. \A t \in Screen : next[t] = then[t] BY <1>3
      <3> QED BY <3>1
    <2>2. \A w \in walls : Whole3(w, next, screens) BY <2>1
    <2>3. a.do = "shift" /\ a.to = to /\ a.left = left \ {s} OBVIOUS
    <2> HIDE DEF a
    <2>4. Ready(a)' BY <1>1, <2>2, <2>3 DEF Ready
    <2>5. Phased(a, walls') /\ a.do \notin Lone BY <2>3 DEF Phased, Lone, ApplyPhases
    <2>6. Staged(<<a>> \o r)' BY <1>5, <2>4, <2>5, StagedHead
    <2> QED BY <1>1, <1>4, <1>7, <2>6 DEF WholeKept, Then, a
  <1> QED BY <1>6, <1>7

LEMMA EvictWhole ==
    ASSUME TypeInv, Apart(walls), Grounded, AllWhole, NEW c, NEW m \in Mural, NEW r, Later(r, walls),
           WallsOn(m) = {}, Evict(c, m, OnMural(m), r), UNCHANGED <<screens, walls>>
    PROVE  WholeKept(c)
  <1>t. screens \subseteq Screen /\ at = [t \in Screen |-> at[t]] BY DEF TypeInv, LayoutTyped
  <1>r. Later(r, walls') OBVIOUS
  <1>1. CASE OnMural(m) # {}
    <2>1. PICK s \in OnMural(m) :
              /\ at' = [at EXCEPT ![s] = Tray]
              /\ Then(c, <<[do |-> "evict", mural |-> m, left |-> OnMural(m) \ {s}]>> \o r)
              /\ UNCHANGED <<murals, badge>>
      BY <1>1 DEF Evict
    <2>3. s \in Screen /\ at[s].mural = m /\ Tray.mural = NoMural /\ NoMural # m
      BY NullAssumption DEF OnMural, Tray
    <2>4. \A w \in walls : s \notin w.members
      BY <2>3 DEF AllWhole, Whole3, WallsOn
    <2>5. Grounded' /\ AllWhole'
      <3>1. \A w \in walls : w.members \subseteq screens' BY DEF AllWhole, Whole3
      <3> QED BY <2>1, <2>3, <2>4, <3>1, LooseMoved DEF AllWhole
    <2>6. \A t \in Screen : at'[t] = IF t = s THEN Tray ELSE at[t] BY <1>t, <2>1
    <2>7. OnMural(m)' = OnMural(m) \ {s} BY <2>3, <2>6 DEF OnMural
    <2>8. WallsOn(m)' = {} BY DEF WallsOn
    <2>9. ASSUME NEW L, L = OnMural(m)'
          PROVE  Staged(<<[do |-> "evict", mural |-> m, left |-> L]>> \o r)'
      <3> DEFINE a == [do |-> "evict", mural |-> m, left |-> L]
      <3>1. a.do = "evict" /\ a.mural = m /\ a.left = L OBVIOUS
      <3> HIDE DEF a
      <3>2. Ready(a)' BY <2>5, <2>8, <2>9, <3>1 DEF Ready
      <3>3. Phased(a, walls') /\ a.do \notin Lone BY <3>1 DEF Phased, Lone, ApplyPhases
      <3>4. Staged(<<a>> \o r)' BY <1>r, <3>2, <3>3, StagedHead
      <3> QED BY <3>4 DEF a
    <2>10. \E q : todo' = [todo EXCEPT ![c] = q] /\ Staged(q)'
      <3>1. PICK L : L = OnMural(m) \ {s} OBVIOUS
      <3>2. Staged(<<[do |-> "evict", mural |-> m, left |-> L]>> \o r)' BY <2>7, <2>9, <3>1
      <3>3. todo' = [todo EXCEPT ![c] = <<[do |-> "evict", mural |-> m, left |-> L]>> \o r]
        BY <2>1, <3>1 DEF Then
      <3> QED BY <3>2, <3>3
    <2> QED BY <2>5, <2>10 DEF WholeKept
  <1>2. CASE OnMural(m) = {} /\ badge[m] # NoScene
    <2> DEFINE a == [do |-> "close", mural |-> m]
    <2>1. /\ UNCHANGED <<at, murals>> /\ Then(c, <<a>> \o r)
      BY <1>2 DEF Evict
    <2>2. a.do = "close" /\ a.mural = m OBVIOUS
    <2>3. Apart(walls') /\ Grounded' /\ AllWhole' BY <2>1, FewerWalls
    <2>4. WallsOn(m)' = {} /\ OnMural(m)' = {} BY <1>2, <2>1 DEF WallsOn, OnMural
    <2> HIDE DEF a
    <2>5. Ready(a)' BY <2>2, <2>3, <2>4 DEF Ready
    <2>6. Phased(a, walls') /\ a.do \notin Lone BY <2>2 DEF Phased, Lone, ApplyPhases
    <2>7. Staged(<<a>> \o r)' BY <1>r, <2>5, <2>6, StagedHead
    <2> QED BY <2>1, <2>3, <2>7 DEF WholeKept, Then
  <1>3. CASE OnMural(m) = {} /\ badge[m] = NoScene
    <2>1. UNCHANGED at /\ murals' = murals \ {m} /\ Then(c, <<Judge>> \o r)
      BY <1>3 DEF Evict
    <2>2. Grounded' BY <1>3, <2>1 DEF Grounded, OnMural, WallsOn
    <2>3. AllWhole' BY <2>1 DEF AllWhole
    <2>4. Staged(<<Judge>> \o r)' BY <1>r, <2>3, LaterJudged, StagedLater
    <2> QED BY <2>1, <2>2, <2>4 DEF WholeKept, Then
  <1> QED BY <1>1, <1>2, <1>3

LEMMA RazeWhole ==
    ASSUME TypeInv, Apart(walls), Grounded, NEW c, NEW st, NEW r, Later(r, walls), st.do = "raze",
           "do" \in DOMAIN st, Ready(st), RazeWalls(c, st, r), UNCHANGED screens
    PROVE  WholeKept(c)
  <1>0. /\ AllWhole /\ {"mural", "left"} \subseteq DOMAIN st
        /\ st.mural \in Mural /\ WallsOn(st.mural) \subseteq st.left
    BY DEF Ready
  <1>1. CASE \E w \in st.left :
                /\ walls' = {v \in walls : v.id # w.id}
                /\ Then(c, <<[st EXCEPT !.left = @ \ {w}, !.members = @ \cup w.members]>> \o r)
                /\ UNCHANGED <<murals, slice, at, badge>>
    <2>1. PICK w \in st.left :
                /\ walls' = {v \in walls : v.id # w.id}
                /\ Then(c, <<[st EXCEPT !.left = @ \ {w}, !.members = @ \cup w.members]>> \o r)
                /\ UNCHANGED <<murals, slice, at, badge>>
      BY <1>1
    <2> DEFINE a == [st EXCEPT !.left = @ \ {w}, !.members = @ \cup w.members]
    <2>2. /\ a.do = "raze" /\ a.mural = st.mural /\ a.left = st.left \ {w}
          /\ {"mural", "left"} \subseteq DOMAIN a
      BY <1>0
    <2>3. Apart(walls') /\ Grounded' /\ AllWhole' /\ Later(r, walls')
      BY <1>0, <2>1, FewerWalls
    <2>4. WallsOn(st.mural)' \subseteq st.left \ {w} BY <1>0, <2>1 DEF WallsOn
    <2> HIDE DEF a
    <2>5. Ready(a)' BY <1>0, <2>2, <2>3, <2>4 DEF Ready
    <2>6. Phased(a, walls') /\ a.do \notin Lone BY <2>2 DEF Phased, Lone, ApplyPhases
    <2>7. Staged(<<a>> \o r)' BY <2>3, <2>5, <2>6, StagedHead
    <2> QED BY <2>1, <2>3, <2>7 DEF WholeKept, Then, a
  <1>2. CASE st.left = {} /\ Evict(c, st.mural, OnMural(st.mural), r) /\ UNCHANGED walls
    BY <1>0, <1>2, EvictWhole
  <1> QED BY <1>1, <1>2 DEF RazeWalls

(* A handler that leaves every wall whole may go on as it likes. *)
LEMMA AllWholeKept ==
    ASSUME NEW c, NEW q, todo' = [todo EXCEPT ![c] = q], Later(q, walls'),
           Apart(walls'), Grounded', AllWhole'
    PROVE  WholeKept(c)
  BY StagedLater DEF WholeKept

LEMMA NothingMoved ==
    ASSUME Apart(walls), Grounded, AllWhole, walls' \subseteq walls,
           UNCHANGED <<murals, screens, at>>,
           NEW c, NEW q, todo' = [todo EXCEPT ![c] = q], Later(q, walls')
    PROVE  WholeKept(c)
  BY FewerWalls, AllWholeKept

LEMMA PlaceWhole ==
    ASSUME TypeInv, Apart(walls), Grounded, AllWhole, NEW c, NEW s \in Screen, NEW m \in Mural,
           NEW cell \in Cell, PlaceKind(s, m) = "transfer" => OneMural, Place(c, s, m, cell)
    PROVE  WholeKept(c)
  <1> DEFINE x == [mural |-> m, cell |-> cell]
  <1>1. /\ m \in murals /\ s \in screens
        /\ at' = [at EXCEPT ![s] = x] /\ Then(c, <<Judge>>)
        /\ UNCHANGED <<murals, screens, walls>>
    BY DEF Place
  <1>2. x.mural = m /\ x.cell = cell OBVIOUS
  <1>3. screens \subseteq Screen /\ at = [t \in Screen |-> at[t]] /\ walls \subseteq Wall
    BY DEF TypeInv, LayoutTyped
  <1> HIDE DEF x
  <1>4. \A t \in Screen : at'[t] = IF t = s THEN x ELSE at[t] BY <1>1, <1>3
  <1>5. Grounded' BY <1>1, <1>2, LooseMoved
  <1>6. ASSUME NEW w \in walls PROVE Whole3(w, at', screens')
    <2>1. Whole3(w, at, screens) BY DEF AllWhole
    <2>2. w.members \subseteq Screen /\ w.mural \in Mural BY <1>3 DEF Wall
    <2>3. CASE s \notin w.members
      <3>1. \A t \in w.members : at'[t] = at[t] BY <1>4, <2>2, <2>3
      <3> QED BY <1>1, <2>1, <3>1, WholeMoved DEF Whole3
    <2>4. CASE s \in w.members
      <3>1. Walled(s) /\ WallOf(s) = w BY <2>4, WallOfMember
      <3>2. PlaceKind(s, m) \in {"nudge", "transfer"} /\ (PlaceKind(s, m) = "nudge" => m = w.mural)
        BY <3>1 DEF PlaceKind
      <3>3. m = w.mural BY <2>2, <3>2 DEF OneMural
      <3>4. \A t \in w.members : at[t] # Tray
        BY <2>1, <2>2, NullAssumption DEF Whole3, Tray
      <3>5. {t \in w.members \ {s} : at[t] # Tray} = w.members \ {s} BY <3>4
      <3>6. Contiguous({cell} \cup CellsOf(at, w.members \ {s})) BY <3>1, <3>5 DEF Place
      <3>7. CellsOf(at', w.members) = {cell} \cup CellsOf(at, w.members \ {s})
        BY <1>2, <1>4, <2>2, <2>4 DEF CellsOf
      <3>8. \A t \in w.members : at'[t].mural = w.mural
        BY <1>2, <1>4, <2>1, <2>2, <3>3 DEF Whole3
      <3> QED BY <1>1, <2>1, <3>6, <3>7, <3>8 DEF Whole3
    <2> QED BY <2>3, <2>4
  <1>7. AllWhole' BY <1>1, <1>6 DEF AllWhole
  <1>8. Later(<<Judge>>, walls') BY LaterNone, LaterJudged
  <1> QED BY <1>1, <1>5, <1>7, <1>8, AllWholeKept DEF Then

LEMMA UnplacedReady ==
    ASSUME TypeInv, Grounded, AllWhole, NEW s, at' = [at EXCEPT ![s] = Tray],
           UNCHANGED <<murals, screens, walls>>, NEW r, Later(r, walls)
    PROVE  Grounded' /\ Staged(<<[do |-> "dissolve", screen |-> s]>> \o r)'
  <1> DEFINE a == [do |-> "dissolve", screen |-> s]
  <1>1. a.do = "dissolve" /\ a.screen = s OBVIOUS
  <1>2. Tray.mural = NoMural BY DEF Tray
  <1> HIDE DEF a
  <1>3. Grounded' BY <1>2, LooseMoved
  <1>4. \A w \in walls : w.members \subseteq screens' BY DEF AllWhole, Whole3
  <1>5. \A w \in walls' : s \in w.members \/ Whole3(w, at', screens')
    BY <1>2, <1>4, LooseMoved DEF AllWhole
  <1>6. Ready(a)' BY <1>1, <1>5 DEF Ready
  <1>7. Phased(a, walls') /\ a.do \notin Lone BY <1>1 DEF Phased, Lone, ApplyPhases
  <1>8. Later(r, walls') OBVIOUS
  <1>9. Staged(<<a>> \o r)' BY <1>6, <1>7, <1>8, StagedHead
  <1> QED BY <1>3, <1>9 DEF a

(* A screen that is in no wall goes from the tray and from the registry. *)
LEMMA GoneWhole ==
    ASSUME TypeInv, Apart(walls), Grounded, AllWhole, NEW s, ~Walled(s), NEW M, Gone(0, s, M),
           UNCHANGED <<murals, walls>>
    PROVE  Apart(walls') /\ Grounded' /\ AllWhole'
  <1>1. at' = [at EXCEPT ![s] = Tray] /\ screens' = screens \ {s} /\ Tray.mural = NoMural
    BY DEF Gone, Tray
  <1>2. \A w \in walls : s \notin w.members BY DEF Walled, WallsOf
  <1>3. \A w \in walls : w.members \subseteq screens' BY <1>1, <1>2 DEF AllWhole, Whole3
  <1> QED BY <1>1, <1>2, <1>3, LooseMoved DEF AllWhole

LEMMA ForgetWhole ==
    ASSUME TypeInv, Apart(walls), Grounded, AllWhole, NEW c, NEW s, Forget(c, s)
    PROVE  WholeKept(c)
  <1>0. Later(<<Judge>>, walls') BY LaterNone, LaterJudged
  <1>1. CASE Walled(s)
    <2>1. /\ walls' = walls \ {WallOf(s)}
          /\ Then(c, <<[do |-> "forget", screen |-> s, members |-> WallOf(s).members], Judge>>)
          /\ UNCHANGED <<murals, screens, at>>
      BY <1>1 DEF Forget
    <2>2. \A v \in walls' : s \notin v.members BY <1>1, <2>1, WallOfMember
    <2>3. Apart(walls') /\ Grounded' /\ AllWhole' BY <2>1, FewerWalls
    <2>4. ASSUME NEW M
          PROVE  Staged(<<[do |-> "forget", screen |-> s, members |-> M], Judge>>)'
      <3> DEFINE a == [do |-> "forget", screen |-> s, members |-> M]
      <3>1. a.do = "forget" /\ a.screen = s OBVIOUS
      <3> HIDE DEF a
      <3>2. Ready(a)' BY <2>2, <2>3, <3>1 DEF Ready, Walled, WallsOf
      <3>3. Phased(a, walls') /\ a.do \notin Lone BY <3>1 DEF Phased, Lone, ApplyPhases
      <3>4. Staged(<<a>> \o <<Judge>>)' BY <1>0, <3>2, <3>3, StagedHead
      <3>5. <<a, Judge>> = <<a>> \o <<Judge>> BY Pair
      <3> QED BY <3>4, <3>5 DEF a
    <2>5. \E q : todo' = [todo EXCEPT ![c] = q] /\ Staged(q)'
      <3>1. PICK M : M = WallOf(s).members OBVIOUS
      <3>2. todo' = [todo EXCEPT ![c] = <<[do |-> "forget", screen |-> s, members |-> M], Judge>>]
        BY <2>1, <3>1 DEF Then
      <3> QED BY <2>4, <3>2
    <2> QED BY <2>3, <2>5 DEF WholeKept
  <1>2. CASE ~Walled(s)
    <2>1. Gone(c, s, {}) /\ Then(c, <<Judge>>) /\ UNCHANGED <<murals, walls>>
      BY <1>2 DEF Forget
    <2>2. Apart(walls') /\ Grounded' /\ AllWhole' BY <1>2, <2>1, GoneWhole DEF Gone
    <2> QED BY <1>0, <2>1, <2>2, AllWholeKept DEF Then
  <1> QED BY <1>1, <1>2

LEMMA MoveWhole ==
    ASSUME TypeInv, Apart(walls), Grounded, AllWhole, NEW c, NEW m, NEW S, NEW dx, Move(c, m, S, dx)
    PROVE  WholeKept(c)
  <1> DEFINE to == [s \in S |-> [mural |-> m, cell |-> at[s].cell + dx]]
             then == [s \in Screen |-> IF s \in S THEN to[s] ELSE at[s]]
  <1>1. /\ m \in murals /\ S \subseteq screens \cap OnMural(m)
        /\ \A w \in walls : w.members \cap S # {} =>
               Contiguous(CellsOf(then, {s \in w.members : at[s] # Tray}))
        /\ Shift(c, to, S, <<>>)
    BY DEF Move
  <1>2. screens \subseteq Screen /\ walls \subseteq Wall BY DEF TypeInv, LayoutTyped
  <1>3. \A s \in S : to[s].mural = m /\ at[s].mural = m BY <1>1 DEF OnMural
  <1> HIDE DEF to
  <1>4. \A s \in Screen : then[s] = IF s \in S THEN to[s] ELSE at[s] OBVIOUS
  <1>5. ASSUME NEW w \in walls PROVE Whole3(w, then, screens)
    <2> HIDE DEF then
    <2>1. Whole3(w, at, screens) BY DEF AllWhole
    <2>2. w.members \subseteq Screen /\ w.mural \in Mural BY <1>2 DEF Wall
    <2>3. CASE w.members \cap S = {}
      <3>1. \A t \in w.members : then[t] = at[t] BY <1>4, <2>2, <2>3
      <3>2. w.members \subseteq screens BY <2>1 DEF Whole3
      <3> QED BY <2>1, <3>1, <3>2, WholeMoved
    <2>4. CASE w.members \cap S # {}
      <3>1. \A t \in w.members : at[t] # Tray
        BY <2>1, <2>2, NullAssumption DEF Whole3, Tray
      <3>2. {t \in w.members : at[t] # Tray} = w.members BY <3>1
      <3>3. Contiguous(CellsOf(then, w.members)) BY <1>1, <2>4, <3>2 DEF then
      <3>4. w.mural = m BY <1>3, <2>1, <2>4 DEF Whole3
      <3>5. \A t \in w.members : then[t].mural = w.mural
        BY <1>3, <1>4, <2>1, <2>2, <3>4 DEF Whole3
      <3> QED BY <2>1, <3>3, <3>5 DEF Whole3
    <2> QED BY <2>3, <2>4
  <1>6. \A s \in S : to[s].mural \in murals BY <1>1, <1>3
  <1> QED BY <1>1, <1>5, <1>6, LaterNone, ShiftWhole

LEMMA PackWhole ==
    ASSUME TypeInv, Apart(walls), Grounded, AllWhole, NEW c, NEW m, NEW S, Pack(c, m, S)
    PROVE  WholeKept(c)
  <1> DEFINE a == [do |-> "pack", mural |-> m, to |-> Packed(S), members |-> S, left |-> S]
  <1>1. Combinable(m, S) /\ PackOne(c, a, <<>>) BY DEF Pack
  <1>2. /\ a.do = "pack" /\ a.mural = m /\ a.to = Packed(S) /\ a.members = S /\ a.left = S
        /\ {"do", "mural", "members", "to", "left"} \subseteq DOMAIN a
    OBVIOUS
  <1> HIDE DEF a
  <1>3. S # {} /\ S \subseteq Screen
    BY <1>1, FS_EmptySet DEF Combinable, OnMural
  <1>4. CellsOf(at, S) \subseteq Cell BY <1>3, CellsTyped DEF CellsOf, TypeInv
  <1>5. Contiguous({Packed(S)[s] : s \in S}) BY <1>3, <1>4, PackingIsContiguous
  <1>6. Ready(a) BY <1>1, <1>2, <1>5 DEF Ready
  <1> QED BY <1>1, <1>2, <1>6, PackOneWhole

LEMMA UnspanWhole ==
    ASSUME Apart(walls), Grounded, AllWhole, NEW c, NEW id, NEW left, NEW B, NEW r, Later(r, walls),
           Unspan(c, id, left, B, r), UNCHANGED <<murals, screens, at>>
    PROVE  WholeKept(c)
  <1>1. CASE \E w \in walls :
                /\ walls' = (walls \ {w}) \cup {[w EXCEPT !.source = Dark]}
                /\ Then(c, <<[do |-> "unlist", source |-> id, left |-> left \ {w.id}]>> \o r)
    <2>1. PICK w \in walls :
                /\ walls' = (walls \ {w}) \cup {[w EXCEPT !.source = Dark]}
                /\ Then(c, <<[do |-> "unlist", source |-> id, left |-> left \ {w.id}]>> \o r)
      BY <1>1
    <2>2. Dark \in What BY DEF What
    <2>3. Apart(walls') /\ Grounded' /\ AllWhole' /\ Later(r, walls') BY <2>1, <2>2, WallResourced
    <2>4. Later(<<[do |-> "unlist", source |-> id, left |-> left \ {w.id}]>> \o r, walls')
      BY <2>3, LaterPlain, PlainSteps
    <2> QED BY <2>1, <2>3, <2>4, AllWholeKept DEF Then
  <1>2. CASE walls' = walls /\ Then(c, r)
    BY <1>2, NothingMoved DEF Then
  <1> QED BY <1>1, <1>2 DEF Unspan

LEMMA SpanWhole ==
    ASSUME Apart(walls), Grounded, AllWhole, NEW c, NEW w \in walls, NEW what \in What, NEW r,
           Later(r, walls), SpanWall(c, w, what, r)
    PROVE  WholeKept(c)
  <1> DEFINE x == IF what \in Source THEN what ELSE Dark
  <1>1. x \in What BY DEF What
  <1> HIDE DEF x
  <1>2. /\ walls' = (walls \ {w}) \cup {[w EXCEPT !.source = x]}
        /\ Then(c, <<Judge>> \o r) /\ UNCHANGED <<murals, screens, at>>
    BY DEF SpanWall, x
  <1>3. Apart(walls') /\ Grounded' /\ AllWhole' /\ Later(r, walls') BY <1>1, <1>2, WallResourced
  <1>4. Later(<<Judge>> \o r, walls') BY <1>3, LaterJudged
  <1> QED BY <1>2, <1>3, <1>4, AllWholeKept DEF Then

LEMMA ApplyWhole ==
    ASSUME TypeInv, Apart(walls), Grounded, AllWhole, NEW c, NEW id, OneMural, Apply(c, id)
    PROVE  WholeKept(c)
  <1>1. /\ scenes[id].mural \in murals
        /\ Then(c, <<[do |-> "resplit", id |-> id, scene |-> scenes[id],
                       left |-> {w.id : w \in WallsOn(scenes[id].mural)}]>>)
        /\ UNCHANGED <<murals, screens, at, walls>>
    BY DEF Apply, layout
  <1>2. \A w \in walls : w \in WallsOn(scenes[id].mural)
    <2>1. \A w \in walls : w.mural \in Mural BY WallsTyped DEF TypeInv
    <2>2. scenes[id].mural \in Mural BY <1>1 DEF TypeInv, LayoutTyped
    <2> QED BY <2>1, <2>2 DEF OneMural, WallsOn
  <1>3. ASSUME NEW sc, NEW L, \A w \in walls : w.id \in L
        PROVE  Staged(<<[do |-> "resplit", id |-> id, scene |-> sc, left |-> L]>>)'
    <2> DEFINE a == [do |-> "resplit", id |-> id, scene |-> sc, left |-> L]
    <2>1. a.do = "resplit" /\ a.left = L OBVIOUS
    <2> HIDE DEF a
    <2>2. AllWhole' BY <1>1 DEF AllWhole
    <2>3. Ready(a)' BY <2>1, <2>2 DEF Ready
    <2>4. Phased(a, walls') BY <1>1, <1>3, <2>1 DEF Phased
    <2>5. Staged(<<a>> \o <<>>)' BY <2>3, <2>4, LaterNone, StagedHead
    <2>6. <<a>> \o <<>> = <<a>> OBVIOUS
    <2> QED BY <2>5, <2>6 DEF a
  <1>4. Apart(walls') /\ Grounded' BY <1>1, FewerWalls
  <1>5. \E q : todo' = [todo EXCEPT ![c] = q] /\ Staged(q)'
    <2>1. PICK sc : sc = scenes[id] OBVIOUS
    <2>2. PICK L : L = {w.id : w \in WallsOn(scenes[id].mural)} OBVIOUS
    <2>3. Staged(<<[do |-> "resplit", id |-> id, scene |-> sc, left |-> L]>>)' BY <1>2, <1>3, <2>2
    <2>4. todo' = [todo EXCEPT ![c] = <<[do |-> "resplit", id |-> id, scene |-> sc, left |-> L]>>]
      BY <1>1, <2>1, <2>2 DEF Then
    <2> QED BY <2>3, <2>4
  <1> QED BY <1>4, <1>5 DEF WholeKept

LEMMA NewWallWhole ==
    ASSUME TypeInv, Apart(walls), Grounded, AllWhole, NEW c, NEW m, NEW S, NEW id \in FreshWall,
           Combinable(m, S), Contiguous(CellsOf(at, S)), NEW r, \A W : Later(r, W),
           NewWall(c, m, S, id, r), UNCHANGED <<murals, screens, at>>
    PROVE  WholeKept(c)
  <1>1. /\ walls' = walls \cup {[id |-> id, mural |-> m, members |-> S, source |-> Dark]}
        /\ Then(c, <<Clear(S), Judge>> \o r)
    BY DEF NewWall
  <1>2. Apart(walls') /\ Grounded' /\ AllWhole' BY <1>1, WallAdded
  <1>3. Later(r, walls') OBVIOUS
  <1>4. Later(<<Clear(S), Judge>> \o r, walls') BY <1>3, LaterJudged
  <1> QED BY <1>1, <1>2, <1>4, AllWholeKept DEF Then

LEMMA SplitWhole ==
    ASSUME Apart(walls), Grounded, AllWhole, NEW c, NEW w, NEW r, Later(r, walls \ {w}),
           SplitWall(c, w, r)
    PROVE  WholeKept(c)
  <1>1. /\ walls' = walls \ {w} /\ UNCHANGED <<murals, screens, at>>
        /\ Then(c, <<Clear(w.members), Judge>> \o r)
    BY DEF SplitWall
  <1>2. Later(<<Clear(w.members), Judge>> \o r, walls') BY <1>1, LaterJudged
  <1> QED BY <1>1, <1>2, NothingMoved DEF Then

WholeOps(ops) == "fail" \notin ops /\ (OneMural \/ ops \cap {"transfer", "apply"} = {})

LEMMA RequestWhole ==
    ASSUME TypeInv, Apart(walls), Grounded, NEW c \in Client, Staged(todo[c]),
           NEW ops, WholeOps(ops), RequestOf(c, ops)
    PROVE  WholeKept(c)
  <1>i. Idle(c) => todo[c] = <<>> BY DEF Idle
  <1>t. todo = [d \in Client |-> todo[d]] BY DEF TypeInv
  <1>n. \A W : Later(<<>>, W) BY LaterNone
  <1>w. Idle(c) => AllWhole BY <1>i DEF Staged
  <1>j. /\ \A W : Later(<<Judge>> \o <<>>, W)
        /\ \A W, S : Later(<<Clear(S), Judge>> \o <<>>, W)
        /\ \A W : Later(<<Judge>>, W)
    BY <1>n, LaterJudged
  <1>k. ASSUME Idle(c), UNCHANGED <<murals, screens, at, walls, todo>> PROVE WholeKept(c)
    <2>1. todo' = [todo EXCEPT ![c] = <<>>] BY <1>k, <1>i, <1>t
    <2> QED BY <1>k, <1>w, <1>n, <2>1, NothingMoved
  <1>1. ASSUME NEW s \in Screen, NEW m \in Mural, NEW cell \in Cell,
               PlaceKind(s, m) \in ops, Place(c, s, m, cell)
        PROVE  WholeKept(c)
    <2>1. AllWhole BY <1>1, <1>w DEF Place
    <2>2. PlaceKind(s, m) = "transfer" => OneMural BY <1>1 DEF WholeOps
    <2> QED BY <1>1, <2>1, <2>2, PlaceWhole
  <1>2. ASSUME NEW s \in Screen, Unplace(c, s) PROVE WholeKept(c)
    <2> DEFINE a == [do |-> "dissolve", screen |-> s]
    <2>1. /\ AllWhole /\ at' = [at EXCEPT ![s] = Tray] /\ UNCHANGED <<murals, screens, walls>>
          /\ Then(c, <<a>>)
      BY <1>2, <1>w DEF Unplace
    <2>2. Grounded' /\ Staged(<<a>> \o <<>>)' BY <2>1, <1>n, UnplacedReady
    <2>3. <<a>> \o <<>> = <<a>> OBVIOUS
    <2> QED BY <2>1, <2>2, <2>3 DEF WholeKept, Then
  <1>3. ASSUME NEW s \in Screen, Forget(c, s) PROVE WholeKept(c)
    BY <1>3, <1>w, ForgetWhole DEF Forget
  <1>4. ASSUME NEW m \in Mural, NEW S \in SUBSET Screen, Combine(c, m, S) PROVE WholeKept(c)
    <2>1. PICK id \in FreshWall : NewWall(c, m, S, id, <<>>) BY <1>4 DEF Combine
    <2>2. /\ AllWhole /\ Combinable(m, S) /\ Contiguous(CellsOf(at, S))
          /\ UNCHANGED <<murals, screens, at>>
      BY <1>4, <1>w DEF Combine
    <2> QED BY <2>1, <2>2, <1>n, NewWallWhole
  <1>5. ASSUME NEW m \in Mural, NEW S \in SUBSET Screen, Pack(c, m, S) PROVE WholeKept(c)
    BY <1>5, <1>w, PackWhole DEF Pack
  <1>6. ASSUME NEW w \in walls, Split(c, w) PROVE WholeKept(c)
    BY <1>6, <1>w, <1>n, SplitWhole DEF Split
  <1>7. ASSUME NEW s \in Screen, NEW what \in What, AssignScreen(c, s, what) PROVE WholeKept(c)
    <2>1. /\ AllWhole /\ Then(c, <<Judge>> \o <<>>) /\ UNCHANGED <<murals, screens, at, walls>>
      BY <1>7, <1>w DEF AssignScreen, ShowOn
    <2> QED BY <2>1, <1>j, NothingMoved DEF Then
  <1>8. ASSUME NEW w \in walls, NEW what \in What, AssignWall(c, w, what) PROVE WholeKept(c)
    BY <1>8, <1>w, <1>n, SpanWhole DEF AssignWall
  <1>9. ASSUME NEW s \in Screen, ClearScreen(c, s) PROVE WholeKept(c)
    BY <1>9, <1>k DEF ClearScreen
  <1>10. ASSUME NEW w \in walls, ClearWall(c, w) PROVE WholeKept(c)
    <2>1. /\ AllWhole /\ Dark \in What /\ UNCHANGED <<murals, screens, at, todo>>
          /\ walls' = (walls \ {w}) \cup {[w EXCEPT !.source = Dark]}
      BY <1>10, <1>w DEF ClearWall, What
    <2>2. Apart(walls') /\ Grounded' /\ AllWhole' BY <2>1, WallResourced
    <2>3. todo' = [todo EXCEPT ![c] = <<>>] BY <1>10, <2>1, <1>i, <1>t DEF ClearWall
    <2> QED BY <2>2, <2>3, <1>n, AllWholeKept
  <1>11. ASSUME NEW id \in Source, Unlist(c, id) PROVE WholeKept(c)
    <2>1. /\ AllWhole /\ UNCHANGED <<murals, screens, at>>
          /\ Unspan(c, id, {w.id : w \in {v \in walls : v.source = id}},
                     {s \in Screen : slice[s].what = id /\ slice[s].wall = NoWall}, <<>>)
      BY <1>11, <1>w DEF Unlist
    <2> QED BY <2>1, <1>n, UnspanWhole
  <1>12. ASSUME NEW m \in Mural, NEW S \in SUBSET Screen, NEW dx \in {-1, 1}, Move(c, m, S, dx)
         PROVE  WholeKept(c)
    <2>1. AllWhole BY <1>12, <1>w DEF Move
    <2> QED BY <1>12, <2>1, MoveWhole
  <1>13. ASSUME NEW m \in Mural, NEW id \in SceneId, Snapshot(c, m, id) PROVE WholeKept(c)
    BY <1>13, <1>k DEF Snapshot, layout
  <1>14. ASSUME "apply" \in ops, NEW id \in SceneId, Apply(c, id) PROVE WholeKept(c)
    <2>1. OneMural BY <1>14 DEF WholeOps
    <2> QED BY <1>14, <1>w, <2>1, ApplyWhole DEF Apply
  <1>15. ASSUME NEW id \in SceneId, Unsave(c, id) PROVE WholeKept(c)
    BY <1>15, <1>k DEF Unsave, layout
  <1>16. ASSUME NEW m \in Mural, Raze(c, m) PROVE WholeKept(c)
    <2> DEFINE a == [do |-> "raze", mural |-> m, left |-> WallsOn(m), members |-> {}]
    <2>1. AllWhole /\ RazeWalls(c, a, <<>>) /\ UNCHANGED screens BY <1>16, <1>w DEF Raze
    <2>2. /\ a.do = "raze" /\ a.mural = m /\ a.left = WallsOn(m)
          /\ {"do", "mural", "left"} \subseteq DOMAIN a
      OBVIOUS
    <2> HIDE DEF a
    <2>3. Ready(a) BY <2>1, <2>2 DEF Ready
    <2> QED BY <2>1, <2>2, <2>3, <1>n, RazeWhole
  <1> QED BY <1>1, <1>2, <1>3, <1>4, <1>5, <1>6, <1>7, <1>8, <1>9, <1>10, <1>11, <1>12,
             <1>13, <1>14, <1>15, <1>16 DEF RequestOf

LEMMA DissolveWhole ==
    ASSUME TypeInv, Apart(walls), Grounded, NEW c, NEW st, st.do = "dissolve", Ready(st),
           NEW r, Later(r, walls), Dissolve(c, st, r)
    PROVE  WholeKept(c)
  <1>1. UNCHANGED <<murals, screens, at>> BY DEF Dissolve
  <1>2. \A w \in walls : st.screen \in w.members \/ Whole3(w, at, screens) BY DEF Ready
  <1>3. CASE Walled(st.screen)
    <2>1. /\ walls' = walls \ {WallOf(st.screen)}
          /\ Then(c, <<Clear(WallOf(st.screen).members), Judge>> \o r)
      BY <1>3 DEF Dissolve
    <2>2. Apart(walls') /\ Grounded' /\ Later(r, walls') BY <1>1, <2>1, FewerWalls
    <2>3. \A w \in walls' : w \in walls /\ st.screen \notin w.members
      BY <1>3, <2>1, WallOfMember
    <2>4. AllWhole' BY <1>1, <1>2, <2>3 DEF AllWhole
    <2>5. Later(<<Clear(WallOf(st.screen).members), Judge>> \o r, walls') BY <2>2, LaterJudged
    <2> QED BY <2>1, <2>2, <2>4, <2>5, AllWholeKept DEF Then
  <1>4. CASE ~Walled(st.screen)
    <2>1. UNCHANGED walls /\ Then(c, <<Judge>> \o r) BY <1>4 DEF Dissolve
    <2>2. AllWhole BY <1>2, <1>4 DEF AllWhole, Walled, WallsOf
    <2>3. Later(<<Judge>> \o r, walls') BY <2>1, LaterJudged
    <2> QED BY <1>1, <2>1, <2>2, <2>3, NothingMoved DEF Then
  <1> QED BY <1>3, <1>4

LEMMA RejudgeWhole ==
    ASSUME Apart(walls), Grounded, AllWhole, UNCHANGED layout,
           NEW c, NEW left, NEW r, Later(r, walls), Rejudge(c, left, r)
    PROVE  WholeKept(c)
  <1>1. UNCHANGED <<murals, screens, at, walls>> BY DEF layout
  <1>2. CASE Then(c, r) BY <1>1, <1>2, NothingMoved DEF Then
  <1>3. CASE \E x : Then(c, <<[do |-> "rejudge", left |-> x]>> \o r)
    <2>1. PICK x : Then(c, <<[do |-> "rejudge", left |-> x]>> \o r) BY <1>3
    <2>2. Later(<<[do |-> "rejudge", left |-> x]>> \o r, walls') BY <1>1, LaterPlain, PlainSteps
    <2> QED BY <1>1, <2>1, <2>2, NothingMoved DEF Then
  <1> QED BY <1>2, <1>3 DEF Rejudge

(* A phase of an apply that goes on to x, or to another phase. *)
LEMMA PhaseGoesOn ==
    ASSUME Apart(walls), Grounded, AllWhole, UNCHANGED <<murals, screens, at, walls>>,
           NEW c, NEW a, Phased(a, walls), a.do \notin Heads, Then(c, <<a>> \o <<>>)
    PROVE  WholeKept(c)
  <1>1. Later(<<>>, walls') BY LaterNone
  <1>2. Later(<<a>> \o <<>>, walls') BY <1>1, LaterPush
  <1> QED BY <1>2, NothingMoved DEF Then

LEMMA PhaseRest ==
    ASSUME NEW st, {"id", "scene", "left", "do"} \subseteq DOMAIN st, NEW x
    PROVE  /\ Rest(st, x).do = st.do /\ Rest(st, x).left = st.left \ {x}
           /\ Rest(st, x).scene = st.scene
  BY DEF Rest

LEMMA ResplitWhole ==
    ASSUME Apart(walls), Grounded, AllWhole, NEW c, NEW st, st.do = "resplit", Phased(st, walls),
           {"id", "scene", "left", "do"} \subseteq DOMAIN st, Resplit(c, st, <<>>)
    PROVE  WholeKept(c)
  <1>0. OneMural /\ \A w \in walls : w.id \in st.left BY DEF Phased, ApplyPhases
  <1>1. CASE \E id \in st.left : HasId(id) = {} /\ Skip(c, st, id, <<>>)
    <2>1. PICK id \in st.left : HasId(id) = {} /\ Skip(c, st, id, <<>>) BY <1>1
    <2> DEFINE a == Rest(st, id)
    <2>2. a.do = "resplit" /\ a.left = st.left \ {id} BY PhaseRest
    <2>3. Then(c, <<a>> \o <<>>) /\ UNCHANGED <<murals, screens, at, walls>> BY <2>1 DEF Skip, layout
    <2> HIDE DEF a
    <2>4. Phased(a, walls) BY <1>0, <2>1, <2>2 DEF Phased, HasId
    <2> QED BY <2>2, <2>3, <2>4, PhaseGoesOn DEF Heads
  <1>2. CASE \E id \in st.left : \E w \in HasId(id) : SplitWall(c, w, <<Rest(st, id)>> \o <<>>)
    <2>1. PICK id \in st.left : \E w \in HasId(id) : SplitWall(c, w, <<Rest(st, id)>> \o <<>>) BY <1>2
    <2>2. PICK w \in walls : w.id = id /\ SplitWall(c, w, <<Rest(st, id)>> \o <<>>)
      BY <2>1 DEF HasId
    <2> DEFINE a == Rest(st, id)
    <2>3. a.do = "resplit" /\ a.left = st.left \ {id} BY PhaseRest
    <2>4. SplitWall(c, w, <<a>> \o <<>>) BY <2>2
    <2> HIDE DEF a
    <2>5. Phased(a, walls \ {w}) BY <1>0, <2>2, <2>3 DEF Phased, Apart
    <2>6. Later(<<>>, walls \ {w}) BY LaterNone
    <2>7. Later(<<a>> \o <<>>, walls \ {w}) BY <2>3, <2>5, <2>6, LaterPush DEF Heads
    <2> QED BY <2>4, <2>7, SplitWhole
  <1>3. CASE \E L : Enter(c, "omit", st, L, <<>>)
    <2>1. PICK L : Enter(c, "omit", st, L, <<>>) BY <1>3
    <2> DEFINE a == Phase("omit", st, L)
    <2>2. /\ st.left = {} /\ Then(c, <<a>> \o <<>>) /\ UNCHANGED <<murals, screens, at, walls>>
      BY <2>1 DEF Enter, layout
    <2>3. a.do = "omit" BY DEF Phase
    <2> HIDE DEF a
    <2>4. walls = {} BY <1>0, <2>2
    <2>5. Phased(a, walls) BY <1>0, <2>3, <2>4 DEF Phased
    <2> QED BY <2>2, <2>3, <2>5, PhaseGoesOn DEF Heads
  <1> QED BY <1>1, <1>2, <1>3 DEF Resplit

LEMMA OmitWhole ==
    ASSUME TypeInv, Apart(walls), Grounded, AllWhole, NEW c, NEW st, st.do = "omit",
           Phased(st, walls), {"id", "scene", "left", "do"} \subseteq DOMAIN st, Omit(c, st, <<>>)
    PROVE  WholeKept(c)
  <1>0. OneMural /\ walls = {} BY DEF Phased, ApplyPhases
  <1>1. CASE \E s \in st.left : Skip(c, st, s, <<>>)
    <2>1. PICK s \in st.left : Skip(c, st, s, <<>>) BY <1>1
    <2> DEFINE a == Rest(st, s)
    <2>2. a.do = "omit" BY PhaseRest
    <2>3. Then(c, <<a>> \o <<>>) /\ UNCHANGED <<murals, screens, at, walls>> BY <2>1 DEF Skip, layout
    <2> HIDE DEF a
    <2>4. Phased(a, walls) BY <1>0, <2>2 DEF Phased
    <2> QED BY <2>2, <2>3, <2>4, PhaseGoesOn DEF Heads
  <1>2. CASE \E s \in st.left :
                /\ at' = [at EXCEPT ![s] = Tray]
                /\ Then(c, <<[do |-> "dissolve", screen |-> s], Rest(st, s)>> \o <<>>)
                /\ UNCHANGED <<murals, screens, walls, slice, library, badge, fence>>
    <2>1. PICK s \in st.left :
                /\ at' = [at EXCEPT ![s] = Tray]
                /\ Then(c, <<[do |-> "dissolve", screen |-> s], Rest(st, s)>> \o <<>>)
                /\ UNCHANGED <<murals, screens, walls, slice, library, badge, fence>>
      BY <1>2
    <2> DEFINE a == Rest(st, s)
               d == [do |-> "dissolve", screen |-> s]
    <2>2. a.do = "omit" BY PhaseRest
    <2>3. todo' = [todo EXCEPT ![c] = <<d, a>> \o <<>>] BY <2>1 DEF Then
    <2> HIDE DEF a
    <2>4. Phased(a, walls) BY <1>0, <2>2 DEF Phased
    <2>5. Later(<<>>, walls) /\ IsSeq(<<>>) BY LaterNone DEF Later
    <2>6. Later(<<a>> \o <<>>, walls) BY <2>2, <2>4, <2>5, LaterPush DEF Heads
    <2>7. Grounded' /\ Staged(<<d>> \o (<<a>> \o <<>>))' BY <2>1, <2>6, UnplacedReady
    <2> HIDE DEF d
    <2>8. <<d, a>> \o <<>> = <<d>> \o (<<a>> \o <<>>) BY <2>5, PairGlued
    <2>9. Apart(walls') BY <2>1
    <2> QED BY <2>3, <2>7, <2>8, <2>9 DEF WholeKept
  <1>3. CASE \E L : Enter(c, "lay", st, L, <<>>)
    <2>1. PICK L : Enter(c, "lay", st, L, <<>>) BY <1>3
    <2> DEFINE a == Phase("lay", st, L)
    <2>2. Then(c, <<a>> \o <<>>) /\ UNCHANGED <<murals, screens, at, walls>> BY <2>1 DEF Enter, layout
    <2>3. a.do = "lay" BY DEF Phase
    <2> HIDE DEF a
    <2>4. Phased(a, walls) BY <1>0, <2>3 DEF Phased
    <2> QED BY <2>2, <2>3, <2>4, PhaseGoesOn DEF Heads
  <1> QED BY <1>1, <1>2, <1>3 DEF Omit

LEMMA LayWhole ==
    ASSUME TypeInv, Apart(walls), Grounded, AllWhole, NEW c, NEW st, st.do = "lay",
           Phased(st, walls), {"id", "scene", "left", "do"} \subseteq DOMAIN st, Lay(c, st, <<>>)
    PROVE  WholeKept(c)
  <1>0. OneMural /\ walls = {} BY DEF Phased, ApplyPhases
  <1>1. CASE \E s \in st.left : Skip(c, st, s, <<>>)
    <2>1. PICK s \in st.left : Skip(c, st, s, <<>>) BY <1>1
    <2> DEFINE a == Rest(st, s)
    <2>2. a.do = "lay" BY PhaseRest
    <2>3. Then(c, <<a>> \o <<>>) /\ UNCHANGED <<murals, screens, at, walls>> BY <2>1 DEF Skip, layout
    <2> HIDE DEF a
    <2>4. Phased(a, walls) BY <1>0, <2>2 DEF Phased
    <2> QED BY <2>2, <2>3, <2>4, PhaseGoesOn DEF Heads
  <1>2. CASE \E s \in st.left :
                /\ s \in screens /\ st.scene.mural \in murals
                /\ at' = [at EXCEPT ![s] = [mural |-> st.scene.mural, cell |-> st.scene.at[s]]]
                /\ Then(c, <<Judge, Rest(st, s)>> \o <<>>)
                /\ UNCHANGED <<murals, screens, walls, slice, library, badge, fence>>
    <2>1. PICK s \in st.left :
                /\ s \in screens /\ st.scene.mural \in murals
                /\ at' = [at EXCEPT ![s] = [mural |-> st.scene.mural, cell |-> st.scene.at[s]]]
                /\ Then(c, <<Judge, Rest(st, s)>> \o <<>>)
                /\ UNCHANGED <<murals, screens, walls, slice, library, badge, fence>>
      BY <1>2
    <2> DEFINE a == Rest(st, s)
               x == [mural |-> st.scene.mural, cell |-> st.scene.at[s]]
    <2>2. a.do = "lay" /\ x.mural = st.scene.mural BY PhaseRest
    <2>3. todo' = [todo EXCEPT ![c] = <<Judge, a>> \o <<>>] BY <2>1 DEF Then
    <2>4. at' = [at EXCEPT ![s] = x] BY <2>1
    <2> HIDE DEF a, x
    <2>5. Phased(a, walls') BY <1>0, <2>1, <2>2 DEF Phased
    <2>6. Later(<<>>, walls') /\ IsSeq(<<>>) BY LaterNone DEF Later
    <2>7. Later(<<a>> \o <<>>, walls') BY <2>2, <2>5, <2>6, LaterPush DEF Heads
    <2>8. Later(<<Judge>> \o (<<a>> \o <<>>), walls') BY <2>7, LaterJudged
    <2>9. <<Judge, a>> \o <<>> = <<Judge>> \o (<<a>> \o <<>>) BY <2>6, PairGlued
    <2>10. Grounded' BY <2>1, <2>2, <2>4, LooseMoved
    <2>11. Apart(walls') /\ AllWhole' BY <1>0, <2>1 DEF Apart, AllWhole
    <2> QED BY <2>3, <2>8, <2>9, <2>10, <2>11, AllWholeKept
  <1>3. CASE \E L : Enter(c, "regroup", st, L, <<>>)
    <2>1. PICK L : Enter(c, "regroup", st, L, <<>>) BY <1>3
    <2> DEFINE a == Phase("regroup", st, L)
    <2>2. Then(c, <<a>> \o <<>>) /\ UNCHANGED <<murals, screens, at, walls>> BY <2>1 DEF Enter, layout
    <2>3. a.do = "regroup" BY DEF Phase
    <2> HIDE DEF a
    <2>4. Phased(a, walls) BY <1>0, <2>3 DEF Phased
    <2> QED BY <2>2, <2>3, <2>4, PhaseGoesOn DEF Heads
  <1> QED BY <1>1, <1>2, <1>3 DEF Lay

LEMMA RegroupWhole ==
    ASSUME TypeInv, Apart(walls), Grounded, AllWhole, NEW c, NEW st, st.do = "regroup",
           Phased(st, walls), {"id", "scene", "left", "do"} \subseteq DOMAIN st, Regroup(c, st, <<>>)
    PROVE  WholeKept(c)
  <1>0. OneMural BY DEF Phased, ApplyPhases
  <1>1. CASE \E k \in st.left : Skip(c, st, k, <<>>)
    <2>1. PICK k \in st.left : Skip(c, st, k, <<>>) BY <1>1
    <2> DEFINE a == Rest(st, k)
    <2>2. a.do = "regroup" BY PhaseRest
    <2>3. Then(c, <<a>> \o <<>>) /\ UNCHANGED <<murals, screens, at, walls>> BY <2>1 DEF Skip, layout
    <2> HIDE DEF a
    <2>4. Phased(a, walls) BY <1>0, <2>2 DEF Phased
    <2> QED BY <2>2, <2>3, <2>4, PhaseGoesOn DEF Heads
  <1>2. CASE \E k \in st.left, id \in FreshWall : \E S :
                /\ Combinable(st.scene.mural, S) /\ Contiguous(CellsOf(at, S))
                /\ NewWall(c, st.scene.mural, S, id,
                           (IF k.what = Dark THEN <<>> ELSE <<Respan(id, k.what)>>) \o <<Rest(st, k)>> \o <<>>)
                /\ UNCHANGED <<murals, screens, at>>
    <2>k. PICK k \in st.left, id \in FreshWall : \E S :
                /\ Combinable(st.scene.mural, S) /\ Contiguous(CellsOf(at, S))
                /\ NewWall(c, st.scene.mural, S, id,
                           (IF k.what = Dark THEN <<>> ELSE <<Respan(id, k.what)>>) \o <<Rest(st, k)>> \o <<>>)
                /\ UNCHANGED <<murals, screens, at>>
      BY <1>2
    <2>1. PICK S :
                /\ Combinable(st.scene.mural, S) /\ Contiguous(CellsOf(at, S))
                /\ NewWall(c, st.scene.mural, S, id,
                           (IF k.what = Dark THEN <<>> ELSE <<Respan(id, k.what)>>) \o <<Rest(st, k)>> \o <<>>)
                /\ UNCHANGED <<murals, screens, at>>
      BY <2>k
    <2> DEFINE a == Rest(st, k)
               p == Respan(id, k.what)
    <2>2. a.do = "regroup" BY PhaseRest
    <2>3. Plain(p) BY PlainSteps
    <2>4. NewWall(c, st.scene.mural, S, id, (IF k.what = Dark THEN <<>> ELSE <<p>>) \o <<a>> \o <<>>)
      BY <2>1
    <2> HIDE DEF a, p
    <2>5. \A W : Phased(a, W) BY <1>0, <2>2 DEF Phased
    <2>6. IsSeq(<<>>) /\ \A W : Later(<<>>, W) BY LaterNone DEF Later
    <2>7. \A W : Later(<<a>> \o <<>>, W) BY <2>2, <2>5, <2>6, LaterPush DEF Heads
    <2>8. \A W : Later(<<p>> \o (<<a>> \o <<>>), W) BY <2>3, <2>7, LaterPlain
    <2>9. (<<p>> \o <<a>>) \o <<>> = <<p>> \o (<<a>> \o <<>>) BY <2>6, PairGlued
    <2>10. <<>> \o <<a>> = <<a>> OBVIOUS
    <2>11. \A W : Later((IF k.what = Dark THEN <<>> ELSE <<p>>) \o <<a>> \o <<>>, W)
      BY <2>7, <2>8, <2>9, <2>10
    <2> DEFINE r == (IF k.what = Dark THEN <<>> ELSE <<p>>) \o <<a>> \o <<>>
    <2>12. (\A W : Later(r, W)) /\ NewWall(c, st.scene.mural, S, id, r) BY <2>4, <2>11
    <2> HIDE DEF r
    <2> QED BY <2>1, <2>12, NewWallWhole
  <1>3. CASE \E L : Enter(c, "dress", st, L, <<>>)
    <2>1. PICK L : Enter(c, "dress", st, L, <<>>) BY <1>3
    <2> DEFINE a == Phase("dress", st, L)
    <2>2. Then(c, <<a>> \o <<>>) /\ UNCHANGED <<murals, screens, at, walls>> BY <2>1 DEF Enter, layout
    <2>3. a.do = "dress" BY DEF Phase
    <2> HIDE DEF a
    <2>4. Phased(a, walls) BY <1>0, <2>3 DEF Phased
    <2> QED BY <2>2, <2>3, <2>4, PhaseGoesOn DEF Heads
  <1>4. ASSUME NEW k \in st.left, NEW S,
               S = k.members \cap OnMural(st.scene.mural) \cap screens,
               ~(~Combinable(st.scene.mural, S) \/ ~Contiguous(CellsOf(at, S))),
               \E id \in FreshWall :
                    NewWall(c, st.scene.mural, S, id,
                           (IF k.what = Dark THEN <<>> ELSE <<Respan(id, k.what)>>) \o <<Rest(st, k)>> \o <<>>),
               UNCHANGED <<murals, screens, at>>
        PROVE  WholeKept(c)
    <2>1. PICK id \in FreshWall :
                    NewWall(c, st.scene.mural, S, id,
                           (IF k.what = Dark THEN <<>> ELSE <<Respan(id, k.what)>>) \o <<Rest(st, k)>> \o <<>>)
      BY <1>4
    <2> QED BY <1>2, <1>4, <2>1
  <1>5. CASE \E k \in st.left :
                LET m == st.scene.mural
                    S == k.members \cap OnMural(m) \cap screens
                IN  IF ~Combinable(m, S) \/ ~Contiguous(CellsOf(at, S))
                    THEN Skip(c, st, k, <<>>)
                    ELSE /\ \E id \in FreshWall :
                                NewWall(c, m, S, id, (IF k.what = Dark THEN <<>> ELSE <<Respan(id, k.what)>>)
                                                       \o <<Rest(st, k)>> \o <<>>)
                         /\ UNCHANGED <<murals, screens, at, slice, library, badge, fence>>
    <2>1. PICK k \in st.left :
                LET m == st.scene.mural
                    S == k.members \cap OnMural(m) \cap screens
                IN  IF ~Combinable(m, S) \/ ~Contiguous(CellsOf(at, S))
                    THEN Skip(c, st, k, <<>>)
                    ELSE /\ \E id \in FreshWall :
                                NewWall(c, m, S, id, (IF k.what = Dark THEN <<>> ELSE <<Respan(id, k.what)>>)
                                                       \o <<Rest(st, k)>> \o <<>>)
                         /\ UNCHANGED <<murals, screens, at, slice, library, badge, fence>>
      BY <1>5
    <2>2. CASE Skip(c, st, k, <<>>) BY <1>1, <2>2
    <2>3. CASE ~Skip(c, st, k, <<>>)
      <3>1. PICK S : S = k.members \cap OnMural(st.scene.mural) \cap screens OBVIOUS
      <3> QED BY <1>4, <2>1, <2>3, <3>1
    <2> QED BY <2>2, <2>3
  <1> QED BY <1>3, <1>5 DEF Regroup

LEMMA DressWhole ==
    ASSUME Apart(walls), Grounded, AllWhole, NEW c, NEW st, st.do = "dress",
           Phased(st, walls), {"id", "scene", "left", "do"} \subseteq DOMAIN st, Dress(c, st, <<>>)
    PROVE  WholeKept(c)
  <1>0. OneMural BY DEF Phased, ApplyPhases
  <1>1. CASE \E s \in st.left : Skip(c, st, s, <<>>)
    <2>1. PICK s \in st.left : Skip(c, st, s, <<>>) BY <1>1
    <2> DEFINE a == Rest(st, s)
    <2>2. a.do = "dress" BY PhaseRest
    <2>3. Then(c, <<a>> \o <<>>) /\ UNCHANGED <<murals, screens, at, walls>> BY <2>1 DEF Skip, layout
    <2> HIDE DEF a
    <2>4. Phased(a, walls) BY <1>0, <2>2 DEF Phased
    <2> QED BY <2>2, <2>3, <2>4, PhaseGoesOn DEF Heads
  <1>2. CASE \E s \in st.left : \E what : ShowOn(c, s, what, <<Rest(st, s)>> \o <<>>)
    <2>1. PICK s \in st.left : \E what : ShowOn(c, s, what, <<Rest(st, s)>> \o <<>>) BY <1>2
    <2> DEFINE a == Rest(st, s)
    <2>2. a.do = "dress" BY PhaseRest
    <2>3. Then(c, <<Judge>> \o (<<a>> \o <<>>)) /\ UNCHANGED <<murals, screens, at, walls>>
      BY <2>1 DEF ShowOn
    <2> HIDE DEF a
    <2>4. Phased(a, walls') BY <1>0, <2>2 DEF Phased
    <2>5. Later(<<>>, walls') BY LaterNone
    <2>6. Later(<<a>> \o <<>>, walls') BY <2>2, <2>4, <2>5, LaterPush DEF Heads
    <2>7. Later(<<Judge>> \o (<<a>> \o <<>>), walls') BY <2>6, LaterJudged
    <2> QED BY <2>3, <2>7, NothingMoved DEF Then
  <1>3. CASE Then(c, <<[do |-> "lower", id |-> st.id]>> \o <<>>) /\ UNCHANGED <<layout, fence>>
    <2> DEFINE a == [do |-> "lower", id |-> st.id]
    <2>1. Then(c, <<a>> \o <<>>) /\ UNCHANGED <<murals, screens, at, walls>> BY <1>3 DEF layout
    <2>2. a.do = "lower" OBVIOUS
    <2> HIDE DEF a
    <2>3. Phased(a, walls) BY <1>0, <2>2 DEF Phased
    <2> QED BY <2>1, <2>2, <2>3, PhaseGoesOn DEF Heads
  <1> QED BY <1>1, <1>2, <1>3 DEF Dress

LEMMA PackStepWhole ==
    ASSUME TypeInv, Apart(walls), Grounded, NEW c, NEW st, st.do = "pack",
           {"do", "mural", "members", "to", "left"} \subseteq DOMAIN st,
           Ready(st), PackStep(c, st, <<>>)
    PROVE  WholeKept(c)
  <1>1. CASE PackOne(c, st, <<>>) BY <1>1, PackOneWhole
  <1>2. CASE /\ st.left = {}
             /\ \E id \in FreshWall : NewWall(c, st.mural, st.members, id, <<>>)
             /\ UNCHANGED <<murals, screens, at, slice, library, scenes, badge, fence>>
    <2>1. /\ AllWhole /\ Combinable(st.mural, st.members)
          /\ \A s \in st.members : at[s].cell = st.to[s]
          /\ Contiguous({st.to[s] : s \in st.members})
      BY <1>2 DEF Ready
    <2>2. CellsOf(at, st.members) = {st.to[s] : s \in st.members} BY <2>1 DEF CellsOf
    <2>3. \A W : Later(<<>>, W) BY LaterNone
    <2> QED BY <1>2, <2>1, <2>2, <2>3, NewWallWhole
  <1> QED BY <1>1, <1>2 DEF PackStep

LEMMA ResumeWhole ==
    ASSUME TypeInv, Apart(walls), Grounded, NEW c \in Client, Staged(todo[c]), Resume(c)
    PROVE  WholeKept(c)
  <1> DEFINE st == Head(todo[c]) rest == Tail(todo[c])
  <1>h. /\ Phased(st, walls) /\ Ready(st) /\ Later(rest, walls)
        /\ st.do \in Lone => rest = <<>>
    BY DEF Staged, Line, Resume, Idle
  <1>y. StepTyped(st)
    <2>1. Typed(todo[c]) /\ todo[c] # <<>> BY DEF TypeInv, Resume, Idle
    <2> QED BY <2>1, TypedPushed
  <1>r. \/ st.do = "judge"    /\ JudgeStep(c, rest)
        \/ st.do = "rejudge"  /\ RejudgeStep(c, st, rest)
        \/ st.do = "dissolve" /\ Dissolve(c, st, rest)
        \/ st.do = "clear"    /\ ClearStep(c, st, rest)
        \/ st.do = "forget"   /\ ForgetStep(c, st, rest)
        \/ st.do = "shift"    /\ Shift(c, st.to, st.left, rest)
        \/ st.do = "pack"     /\ PackStep(c, st, rest)
        \/ st.do = "unlist"   /\ UnlistStep(c, st, rest)
        \/ st.do = "respan"   /\ RespanStep(c, st, rest)
        \/ st.do = "lower"    /\ Lower(c, st, rest)
        \/ st.do = "raze"     /\ RazeStep(c, st, rest)
        \/ st.do = "evict"    /\ EvictStep(c, st, rest)
        \/ st.do = "close"    /\ Close(c, st, rest)
        \/ st.do = "resplit" /\ Resplit(c, st, rest)
        \/ st.do = "omit"    /\ Omit(c, st, rest)
        \/ st.do = "lay"     /\ Lay(c, st, rest)
        \/ st.do = "regroup" /\ Regroup(c, st, rest)
        \/ st.do = "dress"   /\ Dress(c, st, rest)
    BY DEF Resume
  <1> HIDE DEF st, rest
  <1>w. st.do \notin {"dissolve", "shift"} => AllWhole BY <1>h DEF Ready
  <1>p. st.do \in Phases => {"id", "scene", "left", "do"} \subseteq DOMAIN st BY <1>y DEF StepTyped
  <1>e. st.do \in ApplyPhases \cup {"pack"} => rest = <<>> BY <1>h DEF Lone
  <1>1. CASE st.do = "judge" /\ JudgeStep(c, rest)
    <2>1. CASE Then(c, rest) /\ UNCHANGED layout
      BY <1>1, <1>h, <1>w, <2>1, NothingMoved DEF Then, layout
    <2>2. CASE Rejudge(c, Badges, rest) /\ UNCHANGED layout
      BY <1>1, <1>h, <1>w, <2>2, RejudgeWhole
    <2> QED BY <1>1, <2>1, <2>2 DEF JudgeStep
  <1>2. CASE st.do = "rejudge" /\ RejudgeStep(c, st, rest)
    BY <1>2, <1>h, <1>w, RejudgeWhole DEF RejudgeStep
  <1>3. CASE st.do = "lower" /\ Lower(c, st, rest)
    BY <1>3, <1>h, <1>w, RejudgeWhole DEF Lower
  <1>4. CASE st.do = "dissolve" /\ Dissolve(c, st, rest)
    BY <1>4, <1>h, DissolveWhole
  <1>5. CASE st.do = "clear" /\ ClearStep(c, st, rest)
    BY <1>5, <1>h, <1>w, NothingMoved DEF ClearStep, Then
  <1>6. CASE st.do = "forget" /\ ForgetStep(c, st, rest)
    <2>1. ~Walled(st.screen) /\ AllWhole BY <1>6, <1>h, <1>w DEF Ready
    <2>2. Gone(0, st.screen, st.members) /\ UNCHANGED <<murals, walls>> BY <1>6 DEF ForgetStep, Gone
    <2>3. Apart(walls') /\ Grounded' /\ AllWhole' BY <2>1, <2>2, GoneWhole
    <2>4. Later(rest, walls') BY <1>h, <2>2
    <2> QED BY <1>6, <2>3, <2>4, AllWholeKept DEF ForgetStep, Then
  <1>7. CASE st.do = "shift" /\ Shift(c, st.to, st.left, rest)
    BY <1>7, <1>h, ShiftWhole DEF Ready
  <1>8. CASE st.do = "pack" /\ PackStep(c, st, rest)
    <2>1. {"do", "mural", "members", "to", "left"} \subseteq DOMAIN st BY <1>8, <1>y DEF StepTyped
    <2> QED BY <1>8, <1>e, <1>h, <2>1, PackStepWhole
  <1>9. CASE st.do = "unlist" /\ UnlistStep(c, st, rest)
    BY <1>9, <1>h, <1>w, UnspanWhole DEF UnlistStep
  <1>10. CASE st.do = "respan" /\ RespanStep(c, st, rest)
    <2>1. CASE Then(c, rest) /\ UNCHANGED layout
      BY <1>10, <1>h, <1>w, <2>1, NothingMoved DEF Then, layout
    <2>2. CASE \E w \in HasId(st.wall) : SpanWall(c, w, st.what, rest)
      <3>1. PICK w \in walls : SpanWall(c, w, st.what, rest) BY <2>2 DEF HasId
      <3>2. st.what \in What BY <1>10, <1>y DEF StepTyped
      <3> QED BY <1>10, <1>h, <1>w, <3>1, <3>2, SpanWhole
    <2> QED BY <1>10, <2>1, <2>2 DEF RespanStep
  <1>11. CASE st.do = "raze" /\ RazeStep(c, st, rest)
    <2>1. "do" \in DOMAIN st BY <1>y DEF StepTyped
    <2> QED BY <1>11, <1>h, <2>1, RazeWhole DEF RazeStep
  <1>12. CASE st.do = "evict" /\ EvictStep(c, st, rest)
    <2>1. st.mural \in Mural /\ WallsOn(st.mural) = {} /\ OnMural(st.mural) = st.left
      BY <1>12, <1>h DEF Ready
    <2>2. Evict(c, st.mural, OnMural(st.mural), rest) /\ UNCHANGED <<screens, walls>>
      BY <1>12, <2>1 DEF EvictStep
    <2> QED BY <1>12, <1>h, <1>w, <2>1, <2>2, EvictWhole
  <1>13. CASE st.do = "close" /\ Close(c, st, rest)
    <2>1. /\ WallsOn(st.mural) = {} /\ OnMural(st.mural) = {} BY <1>13, <1>h DEF Ready
    <2>2. /\ murals' = murals \ {st.mural} /\ UNCHANGED <<screens, at, walls>>
          /\ Then(c, <<Judge>> \o rest)
      BY <1>13 DEF Close
    <2>3. Grounded' BY <2>1, <2>2 DEF Grounded, OnMural, WallsOn
    <2>4. AllWhole' /\ Apart(walls') BY <1>13, <1>w, <2>2 DEF AllWhole
    <2>5. Later(<<Judge>> \o rest, walls') BY <1>h, <2>2, LaterJudged
    <2> QED BY <2>2, <2>3, <2>4, <2>5, AllWholeKept DEF Then
  <1>14. CASE st.do = "resplit" /\ Resplit(c, st, rest)
    <2>1. rest = <<>> /\ st.do \in Phases BY <1>14, <1>e DEF Phases, ApplyPhases
    <2> QED BY <1>14, <1>h, <1>w, <1>p, <2>1, ResplitWhole
  <1>15. CASE st.do = "omit" /\ Omit(c, st, rest)
    <2>1. rest = <<>> /\ st.do \in Phases BY <1>15, <1>e DEF Phases, ApplyPhases
    <2> QED BY <1>15, <1>h, <1>w, <1>p, <2>1, OmitWhole
  <1>16. CASE st.do = "lay" /\ Lay(c, st, rest)
    <2>1. rest = <<>> /\ st.do \in Phases BY <1>16, <1>e DEF Phases, ApplyPhases
    <2> QED BY <1>16, <1>h, <1>w, <1>p, <2>1, LayWhole
  <1>17. CASE st.do = "regroup" /\ Regroup(c, st, rest)
    <2>1. rest = <<>> /\ st.do \in Phases BY <1>17, <1>e DEF Phases, ApplyPhases
    <2> QED BY <1>17, <1>h, <1>w, <1>p, <2>1, RegroupWhole
  <1>18. CASE st.do = "dress" /\ Dress(c, st, rest)
    <2>1. rest = <<>> /\ st.do \in Phases BY <1>18, <1>e DEF Phases, ApplyPhases
    <2> QED BY <1>18, <1>h, <1>w, <1>p, <2>1, DressWhole
  <1> QED BY <1>r, <1>1, <1>2, <1>3, <1>4, <1>5, <1>6, <1>7, <1>8, <1>9, <1>10, <1>11, <1>12,
             <1>13, <1>14, <1>15, <1>16, <1>17, <1>18

LEMMA WholeInvStays ==
    ASSUME OneRequest, NEW ops, WholeOps(ops), WholeInv, [NextOf(ops)]_vars
    PROVE  WholeInv'
  <1>1. TypeInv' BY TypeInvStays DEF WholeInv
  <1>2. ASSUME NEW c \in Client, RequestOf(c, ops) \/ Resume(c) PROVE WholeInv'
    <2>1. WholeKept(c) BY <1>2, RequestWhole, ResumeWhole DEF WholeInv
    <2>2. \A d \in Client : d = c BY DEF OneRequest
    <2>3. PICK q : todo' = [todo EXCEPT ![c] = q] /\ Staged(q)' BY <2>1 DEF WholeKept
    <2>4. todo'[c] = q BY <2>3 DEF WholeInv, TypeInv
    <2>5. \A d \in Client : Staged(todo[d])' BY <2>2, <2>3, <2>4
    <2>6. Quiet' => AllWhole'
      <3>1. Quiet' => q = <<>> BY <2>4 DEF Quiet, Idle
      <3> QED BY <2>3, <3>1 DEF Staged
    <2> QED BY <1>1, <2>1, <2>5, <2>6 DEF WholeInv, WholeKept
  <1>3. CASE UNCHANGED vars
    <2>1. AllWhole' = AllWhole /\ Apart(walls') = Apart(walls) /\ Grounded' = Grounded
      BY <1>3 DEF vars, layout, AllWhole, Grounded
    <2>2. \A a : Ready(a)' = Ready(a)
      BY <1>3, <2>1 DEF vars, layout, Ready, Walled, WallsOf, Combinable, OnMural, WallsOn
    <2>3. \A q : Staged(q)' = Staged(q) BY <1>3, <2>1, <2>2 DEF vars, layout, Staged
    <2>4. \A c \in Client : Staged(todo[c])'
      BY <1>3, <2>3 DEF vars, WholeInv
    <2>5. Quiet' = Quiet BY <1>3 DEF vars, Quiet, Idle
    <2> QED BY <1>1, <2>1, <2>4, <2>5 DEF WholeInv
  <1> QED BY <1>2, <1>3 DEF NextOf, WholeOps

LEMMA InitWhole ==
    ASSUME NEW M, NEW S, M \subseteq Mural, S \subseteq Screen, InitWith(M, S)
    PROVE  WholeInv
  <1>1. TypeInv BY InitTyped
  <1>2. /\ walls = {} /\ \A s \in Screen : at[s].mural = NoMural
        /\ \A c \in Client : todo[c] = <<>>
    BY DEF InitWith, Tray
  <1>3. AllWhole /\ Apart(walls) /\ Grounded BY <1>2 DEF AllWhole, Apart, Grounded
  <1> QED BY <1>1, <1>2, <1>3 DEF WholeInv, Staged

(* No wall with a hole: as long as requests do not overlap (two that do may   *)
(* each be right about a wall the other is changing) and no write is refused, *)
(* every wall has all its members on its mural and in one region whenever no  *)
(* handler is under way, whatever sequence of placements, moves, packings,    *)
(* splits, scenes and deletions came before (refitVideoWall, moveTargets,     *)
(* combineScreens, applyScene).  A transfer to another mural, and an apply    *)
(* where there is another mural, are left out: both can tear a wall.          *)
THEOREM WallsAreWhole ==
    ASSUME OneRequest, WholeOps(Ops)
    PROVE  Spec => []WallWhole
  <1>1. Init => WholeInv BY InitWhole DEF Init
  <1>2. WholeInv /\ [Next]_vars => WholeInv' BY WholeInvStays, NextIsOf
  <1>3. WholeInv => WallWhole
    <2> SUFFICES ASSUME WholeInv, Quiet, NEW w \in walls
                 PROVE  /\ w.members \subseteq screens \cap OnMural(w.mural)
                        /\ Contiguous(CellsOf(at, w.members))
      BY DEF WallWhole
    <2>1. Whole3(w, at, screens) BY DEF WholeInv, AllWhole
    <2>2. screens \subseteq Screen BY DEF WholeInv, TypeInv, LayoutTyped
    <2> QED BY <2>1, <2>2 DEF Whole3, OnMural
  <1> QED BY <1>1, <1>2, <1>3, PTL DEF Spec

(* A mural that is deleted leaves nothing behind, under the same conditions:  *)
(* no placement and no wall is on a mural that does not exist, at no moment   *)
(* (deleteMural), and every variable is what it should be.                    *)
THEOREM LayoutStaysIntact ==
    ASSUME OneRequest, WholeOps(Ops)
    PROVE  Spec => []LayoutIntact
  <1>1. Init => WholeInv BY InitWhole DEF Init
  <1>2. WholeInv /\ [Next]_vars => WholeInv' BY WholeInvStays, NextIsOf
  <1>3. WholeInv => LayoutIntact
    <2> SUFFICES ASSUME WholeInv PROVE LayoutIntact OBVIOUS
    <2>1. TypeOK
      <3>1. DOMAIN todo = Client BY DEF WholeInv, TypeInv
      <3> QED BY <3>1 DEF WholeInv, TypeInv, LayoutTyped, SavedTyped, TypeOK
    <2>2. NothingOnDeleted BY DEF WholeInv, Grounded, NothingOnDeleted
    <2> QED BY <2>1, <2>2 DEF LayoutIntact
  <1> QED BY <1>1, <1>2, <1>3, PTL DEF Spec

-----------------------------------------------------------------------------
(* An apply lands.  A saved scene is one that a whole mural was captured as: *)
(* its walls are apart and in one region, and its other screens are loose.  *)

SceneSound(sc) ==
    /\ IsScene(sc)
    /\ \A k \in sc.walls :
        /\ k.members \subseteq DOMAIN sc.at /\ Cardinality(k.members) >= 2
        /\ Contiguous({sc.at[s] : s \in k.members})
    /\ \A k, l \in sc.walls : k # l => k.members \cap l.members = {}
    /\ DOMAIN sc.own = DOMAIN sc.at \ UNION {k.members : k \in sc.walls}

Scened ==
    /\ screens = Screen
    /\ \A w \in walls : Cardinality(w.members) >= 2
    /\ \A id \in SceneId : scenes[id] # NoScene => SceneSound(scenes[id])

LandOps == OneMural /\ Ops \cap {"fail", "forget"} = {}

(* The mural is laid out as the scene is, but for the screens L. *)
Laid(sc, L) ==
    /\ OnMural(sc.mural) \subseteq DOMAIN sc.at
    /\ \A s \in DOMAIN sc.at \ L : at[s] = [mural |-> sc.mural, cell |-> sc.at[s]]

(* Its walls are the scene's but for L, and show what the scene has on them *)
(* but for the one in P.                                                    *)
Grouped(sc, L, P) ==
    /\ \A w \in walls : \E k \in sc.walls \ L : w.members = k.members
    /\ \A k \in sc.walls \ L : \E w \in walls : w.members = k.members
    /\ \A w \in walls, k \in sc.walls \ P :
          w.members = k.members => Listed(WallContent(w)) = Listed(k.what)

(* Its loose screens show what the scene has on them, but for L. *)
Dressed(sc, L) == \A s \in DOMAIN sc.own \ L : Listed(Own(s)) = Listed(sc.own[s])

(* What an apply has still to do: a phase st, after what the one before it  *)
(* left, with the layout as that phase expects it.                          *)
Aims(st) ==
    /\ st.id \in SceneId /\ st.scene = scenes[st.id] /\ scenes[st.id] # NoScene
    /\ st.scene.mural \in murals

Judged(st)      == <<Judge>> \o <<st>>
Spans(w, k, st) == IF k.what = Dark THEN <<st>> ELSE <<Respan(w.id, k.what)>> \o <<st>>

Splitting(q, st) ==
    /\ st.do = "resplit"
    /\ q = <<st>> \/ q = Judged(st) \/ \E S : q = <<Clear(S)>> \o Judged(st)

Omitting(q, st) ==
    /\ st.do = "omit" /\ walls = {}
    /\ OnMural(st.scene.mural) \ DOMAIN st.scene.at \subseteq st.left
    /\ q = <<st>> \/ q = Judged(st) \/ \E s : q = <<[do |-> "dissolve", screen |-> s]>> \o <<st>>

Laying(q, st) ==
    /\ st.do = "lay" /\ walls = {}
    /\ Laid(st.scene, st.left)
    /\ q = <<st>> \/ q = Judged(st)

(* The wall w was combined for k and does not show its content yet. *)
Combined(q, st, w, k) ==
    /\ w.members = k.members /\ w.source = Dark
    /\ Grouped(st.scene, st.left, {k})
    /\ \/ q = <<Clear(w.members)>> \o (<<Judge>> \o Spans(w, k, st))
       \/ /\ k.what # Dark
          /\ \A s \in w.members : slice[s].what = Dark
          /\ q = <<Judge>> \o Spans(w, k, st) \/ q = Spans(w, k, st)

Regrouping(q, st) ==
    /\ st.do = "regroup"
    /\ Laid(st.scene, {})
    /\ \/ (q = <<st>> \/ q = Judged(st)) /\ Grouped(st.scene, st.left, {})
       \/ \E w \in walls, k \in st.scene.walls : Combined(q, st, w, k)

Dressing(q, st) ==
    /\ st.do = "dress"
    /\ Laid(st.scene, {}) /\ Grouped(st.scene, {}, {}) /\ Dressed(st.scene, st.left)
    /\ q = <<st>> \/ q = Judged(st)

Landed(q) ==
    \E id \in SceneId : /\ q = <<[do |-> "lower", id |-> id]>>
                        /\ scenes[id] # NoScene => Identical(scenes[id])

Phasing(q, st) ==
    \/ Splitting(q, st)
    \/ Omitting(q, st)
    \/ Laying(q, st)
    \/ Regrouping(q, st)
    \/ Dressing(q, st)

Landing(q) == fence /\ (Landed(q) \/ \E st : Aims(st) /\ Phasing(q, st))

(* No apply is under way. *)
Loud    == ApplyPhases \cup {"forget"}
Calm(q) == \A kind \in Loud : Without(q, kind)

LandInv ==
    /\ WholeInv /\ Scened
    /\ \A c \in Client : Calm(todo[c]) \/ Landing(todo[c])

-----------------------------------------------------------------------------
(* Continuations without an apply. *)

LEMMA CalmNone == Calm(<<>>)
  BY WithoutEmpty DEF Calm

LEMMA CalmPush ==
    ASSUME NEW r, Calm(r)
    PROVE  \A a : "do" \in DOMAIN a /\ a.do \notin Loud => Calm(<<a>> \o r)
  <1> SUFFICES ASSUME NEW a, "do" \in DOMAIN a, a.do \notin Loud, NEW kind \in Loud
               PROVE  Without(<<a>> \o r, kind)
    BY DEF Calm
  <1>1. Other(a, kind) BY DEF Other
  <1>2. Without(r, kind) BY DEF Calm
  <1> QED BY <1>1, <1>2, WithoutPush

LEMMA CalmSteps ==
    ASSUME NEW r, Calm(r)
    PROVE  /\ <<>> \o r = r
           /\ Calm(<<Judge>> \o r) /\ \A S : Calm(<<Clear(S), Judge>> \o r)
           /\ \A s : Calm(<<[do |-> "dissolve", screen |-> s]>> \o r)
           /\ \A x : Calm(<<[do |-> "rejudge", left |-> x]>> \o r)
           /\ \A to, x : Calm(<<[do |-> "shift", to |-> to, left |-> x]>> \o r)
           /\ \A id, x : Calm(<<[do |-> "unlist", source |-> id, left |-> x]>> \o r)
           /\ \A m, x : Calm(<<[do |-> "evict", mural |-> m, left |-> x]>> \o r)
           /\ \A m : Calm(<<[do |-> "close", mural |-> m]>> \o r)
  <1>l. /\ \A kind \in Loud : kind \in {"resplit", "omit", "lay", "regroup", "dress", "lower", "forget"}
        /\ "forget" \in Loud
    BY DEF Loud, ApplyPhases
  <1>s. IsSeq(r)
    <2>1. Without(r, "forget") BY <1>l DEF Calm
    <2> QED BY <2>1 DEF Without
  <1>1. \A p : Calm(p) => Calm(<<Judge>> \o p) BY <1>l, CalmPush DEF Judge
  <1>2. ASSUME NEW S PROVE Calm(<<Clear(S), Judge>> \o r)
    <2>1. Calm(<<Clear(S)>> \o (<<Judge>> \o r)) BY <1>l, <1>1, CalmPush DEF Clear
    <2>2. <<Clear(S), Judge>> \o r = <<Clear(S)>> \o (<<Judge>> \o r) BY <1>s, PairGlued
    <2> QED BY <2>1, <2>2
  <1>3. \A s : Calm(<<[do |-> "dissolve", screen |-> s]>> \o r) BY <1>l, CalmPush
  <1>4. \A x : Calm(<<[do |-> "rejudge", left |-> x]>> \o r) BY <1>l, CalmPush
  <1>5. \A to, x : Calm(<<[do |-> "shift", to |-> to, left |-> x]>> \o r) BY <1>l, CalmPush
  <1>6. \A id, x : Calm(<<[do |-> "unlist", source |-> id, left |-> x]>> \o r) BY <1>l, CalmPush
  <1>7. \A m, x : Calm(<<[do |-> "evict", mural |-> m, left |-> x]>> \o r) BY <1>l, CalmPush
  <1>8. \A m : Calm(<<[do |-> "close", mural |-> m]>> \o r) BY <1>l, CalmPush
  <1>9. <<>> \o r = r BY <1>s, Glued
  <1> QED BY <1>1, <1>2, <1>3, <1>4, <1>5, <1>6, <1>7, <1>8, <1>9

LEMMA CalmRest ==
    ASSUME NEW q, Calm(q), q # <<>>
    PROVE  "do" \in DOMAIN Head(q) /\ Head(q).do \notin Loud /\ Calm(Tail(q))
  <1>1. \A kind \in Loud : Other(Head(q), kind) /\ Without(Tail(q), kind) BY WithoutTail DEF Calm
  <1>2. "forget" \in Loud BY DEF Loud
  <1> QED BY <1>1, <1>2 DEF Other, Calm

(* A handler that leaves no apply behind. *)
CalmNext(c) == \E q : Calm(q) /\ todo' = [todo EXCEPT ![c] = q]

Paired == \A w \in walls : Cardinality(w.members) >= 2

(* What keeps the scenes as they are, and every wall two screens. *)
Calms(c) == CalmNext(c) /\ Paired' /\ UNCHANGED <<screens, scenes>>

LEMMA PairedKept ==
    ASSUME TypeInv, Paired
    PROVE  /\ walls' \subseteq walls => Paired'
           /\ \A w \in walls : \A x : walls' = (walls \ {w}) \cup {[w EXCEPT !.source = x]} => Paired'
           /\ \A m, S, id : /\ Combinable(m, S)
                            /\ walls' = walls \cup {[id |-> id, mural |-> m, members |-> S, source |-> Dark]}
                            => Paired'
  <1>1. walls' \subseteq walls => Paired' BY DEF Paired
  <1>2. ASSUME NEW w \in walls, NEW x, walls' = (walls \ {w}) \cup {[w EXCEPT !.source = x]}
        PROVE  Paired'
    <2>1. w \in Wall BY DEF TypeInv, LayoutTyped
    <2>2. [w EXCEPT !.source = x].members = w.members BY <2>1 DEF Wall
    <2> QED BY <1>2, <2>2 DEF Paired
  <1>3. ASSUME NEW m, NEW S, NEW id, Combinable(m, S),
               walls' = walls \cup {[id |-> id, mural |-> m, members |-> S, source |-> Dark]}
        PROVE  Paired'
    <2>1. [id |-> id, mural |-> m, members |-> S, source |-> Dark].members = S OBVIOUS
    <2>2. Cardinality(S) >= 2 BY <1>3 DEF Combinable
    <2> QED BY <1>3, <2>1, <2>2 DEF Paired
  <1> QED BY <1>1, <1>2, <1>3

LEMMA EvictCalms ==
    ASSUME NEW c, NEW m, NEW placed, NEW r, Calm(r), Evict(c, m, placed, r)
    PROVE  CalmNext(c)
  BY CalmSteps DEF Evict, CalmNext, Then

LEMMA RazeCalms ==
    ASSUME NEW c, NEW st, "do" \in DOMAIN st, st.do \notin Loud, NEW r, Calm(r), RazeWalls(c, st, r)
    PROVE  CalmNext(c) /\ walls' \subseteq walls
  <1>1. CASE \E w \in st.left : /\ walls' = {v \in walls : v.id # w.id}
                    /\ Then(c, <<[st EXCEPT !.left = @ \ {w}, !.members = @ \cup w.members]>> \o r)
    <2>1. PICK w : Then(c, <<[st EXCEPT !.left = @ \ {w}, !.members = @ \cup w.members]>> \o r)
      BY <1>1
    <2> DEFINE a == [st EXCEPT !.left = @ \ {w}, !.members = @ \cup w.members]
    <2>2. a.do = st.do /\ DOMAIN a = DOMAIN st OBVIOUS
    <2>3. Then(c, <<a>> \o r) BY <2>1
    <2> HIDE DEF a
    <2>4. Calm(<<a>> \o r) BY <2>2, CalmPush
    <2> QED BY <1>1, <2>3, <2>4 DEF CalmNext, Then
  <1>2. CASE Evict(c, st.mural, OnMural(st.mural), r) /\ walls' = walls
    BY <1>2, EvictCalms
  <1> QED BY <1>1, <1>2 DEF RazeWalls

LEMMA PackOneCalms ==
    ASSUME NEW c, NEW st, "do" \in DOMAIN st, st.do \notin Loud, NEW r, Calm(r), PackOne(c, st, r)
    PROVE  CalmNext(c)
  <1>1. PICK s : Then(c, <<[st EXCEPT !.left = @ \ {s}]>> \o r) BY DEF PackOne
  <1> DEFINE a == [st EXCEPT !.left = @ \ {s}]
  <1>2. a.do = st.do /\ DOMAIN a = DOMAIN st OBVIOUS
  <1>3. Then(c, <<a>> \o r) BY <1>1
  <1> HIDE DEF a
  <1>4. Calm(<<a>> \o r) BY <1>2, CalmPush
  <1> QED BY <1>3, <1>4 DEF CalmNext, Then

LEMMA RejudgeCalms ==
    ASSUME NEW c, NEW left, NEW r, Calm(r), Rejudge(c, left, r)
    PROVE  CalmNext(c)
  BY CalmSteps DEF Rejudge, CalmNext, Then

LEMMA UnspanCalms ==
    ASSUME TypeInv, Paired, NEW c, NEW id, NEW left, NEW B, NEW r, Calm(r), Unspan(c, id, left, B, r)
    PROVE  CalmNext(c) /\ Paired'
  BY CalmSteps, PairedKept DEF Unspan, CalmNext, Then

(* A request but for those that touch the scenes. *)
LEMMA RequestCalms ==
    ASSUME TypeInv, Paired, LandOps, NEW c \in Client, Request(c)
    PROVE  \/ Calms(c)
           \/ \E m \in Mural, id \in SceneId : Snapshot(c, m, id)
           \/ \E id \in SceneId : Apply(c, id) \/ Unsave(c, id)
  <1>i. Idle(c) => todo[c] = <<>> BY DEF Idle
  <1>t. todo = [d \in Client |-> todo[d]] BY DEF TypeInv
  <1>l. \A kind \in {"raze", "pack", "unlist", "shift"} : kind \notin Loud BY DEF Loud, ApplyPhases
  <1>n. Calm(<<>>) BY CalmNone
  <1>g. <<>> \o <<>> = <<>> /\ \A a : <<a>> \o <<>> = <<a>> BY <1>n, CalmSteps, Glued
  <1>j. Calm(<<Judge>>) /\ \A s : Calm(<<[do |-> "dissolve", screen |-> s]>>)
    <2>1. /\ Calm(<<Judge>> \o <<>>) /\ \A s : Calm(<<[do |-> "dissolve", screen |-> s]>> \o <<>>)
      BY <1>n, CalmSteps
    <2>2. \A a : <<a>> \o <<>> = <<a>> OBVIOUS
    <2> QED BY <2>1, <2>2
  <1>k. ASSUME Idle(c), UNCHANGED todo PROVE CalmNext(c)
    <2>1. todo' = [todo EXCEPT ![c] = <<>>] BY <1>k, <1>i, <1>t
    <2> QED BY <1>n, <2>1 DEF CalmNext
  <1>1. ASSUME NEW s \in Screen, NEW m \in Mural, NEW cell \in Cell, Place(c, s, m, cell)
        PROVE  Calms(c)
    BY <1>1, <1>j, PairedKept DEF Place, Calms, CalmNext, Then
  <1>2. ASSUME NEW s \in Screen, Unplace(c, s) PROVE Calms(c)
    BY <1>2, <1>j, PairedKept DEF Unplace, Calms, CalmNext, Then
  <1>4. ASSUME NEW m \in Mural, NEW S \in SUBSET Screen, Combine(c, m, S) PROVE Calms(c)
    <2>1. PICK id \in FreshWall : NewWall(c, m, S, id, <<>>) BY <1>4 DEF Combine
    <2>2. Combinable(m, S) /\ UNCHANGED <<screens, scenes>> BY <1>4 DEF Combine
    <2>3. Paired' BY <2>1, <2>2, PairedKept DEF NewWall
    <2>4. CalmNext(c) BY <2>1, <1>n, CalmSteps DEF NewWall, CalmNext, Then
    <2> QED BY <2>2, <2>3, <2>4 DEF Calms
  <1>5. ASSUME NEW m \in Mural, NEW S \in SUBSET Screen, Pack(c, m, S) PROVE Calms(c)
    <2> DEFINE a == [do |-> "pack", mural |-> m, to |-> Packed(S), members |-> S, left |-> S]
    <2>1. PackOne(c, a, <<>>) BY <1>5 DEF Pack
    <2>2. "do" \in DOMAIN a /\ a.do \notin Loud BY <1>l
    <2> HIDE DEF a
    <2>3. CalmNext(c) BY <2>1, <2>2, <1>n, PackOneCalms
    <2>4. UNCHANGED <<walls, screens, scenes>> BY <2>1 DEF PackOne
    <2> QED BY <2>3, <2>4, PairedKept DEF Calms
  <1>6. ASSUME NEW w \in walls, Split(c, w) PROVE Calms(c)
    BY <1>6, <1>n, CalmSteps, PairedKept DEF Split, SplitWall, Calms, CalmNext, Then
  <1>7. ASSUME NEW s \in Screen, NEW what \in What, AssignScreen(c, s, what) PROVE Calms(c)
    BY <1>7, <1>n, CalmSteps, PairedKept DEF AssignScreen, ShowOn, Calms, CalmNext, Then
  <1>8. ASSUME NEW w \in walls, NEW what \in What, AssignWall(c, w, what) PROVE Calms(c)
    BY <1>8, <1>n, CalmSteps, PairedKept DEF AssignWall, SpanWall, Calms, CalmNext, Then
  <1>9. ASSUME NEW s \in Screen, ClearScreen(c, s) PROVE Calms(c)
    BY <1>9, <1>k, PairedKept DEF ClearScreen, Calms
  <1>10. ASSUME NEW w \in walls, ClearWall(c, w) PROVE Calms(c)
    BY <1>10, <1>k, PairedKept DEF ClearWall, Calms
  <1>11. ASSUME NEW id \in Source, Unlist(c, id) PROVE Calms(c)
    BY <1>11, <1>n, UnspanCalms DEF Unlist, Calms
  <1>12. ASSUME NEW m \in Mural, NEW S \in SUBSET Screen, NEW dx \in {-1, 1}, Move(c, m, S, dx)
         PROVE  Calms(c)
    <2>1. PICK to : Shift(c, to, S, <<>>) BY <1>12 DEF Move
    <2>2. UNCHANGED <<walls, screens, scenes>> BY <2>1 DEF Shift
    <2>3. \A x : Calm(<<[do |-> "shift", to |-> to, left |-> x]>> \o <<>>) BY <1>n, CalmSteps
    <2>4. CalmNext(c) BY <2>1, <2>3, <1>n, <1>g DEF Shift, CalmNext, Then
    <2> QED BY <2>2, <2>4, PairedKept DEF Calms
  <1>16. ASSUME NEW m \in Mural, Raze(c, m) PROVE Calms(c)
    <2> DEFINE a == [do |-> "raze", mural |-> m, left |-> WallsOn(m), members |-> {}]
    <2>1. RazeWalls(c, a, <<>>) /\ UNCHANGED <<screens, scenes>> BY <1>16 DEF Raze
    <2>2. "do" \in DOMAIN a /\ a.do \notin Loud BY <1>l
    <2> HIDE DEF a
    <2> QED BY <2>1, <2>2, <1>n, RazeCalms, PairedKept DEF Calms
  <1>17. "forget" \notin Ops BY DEF LandOps
  <1> QED BY <1>1, <1>2, <1>4, <1>5, <1>6, <1>7, <1>8, <1>9, <1>10, <1>11, <1>12,
             <1>16, <1>17 DEF Request, RequestOf

(* A handler that goes on. *)
LEMMA ResumeCalms ==
    ASSUME TypeInv, Paired, NEW c \in Client, Calm(todo[c]), Staged(todo[c]), Resume(c)
    PROVE  Calms(c)
  <1> DEFINE st == Head(todo[c]) rest == Tail(todo[c])
  <1>h. "do" \in DOMAIN st /\ st.do \notin Loud /\ Calm(rest) BY CalmRest DEF Resume, Idle
  <1>y. Ready(st) BY DEF Staged, Resume, Idle
  <1>r. \/ st.do = "judge"    /\ JudgeStep(c, rest)
        \/ st.do = "rejudge"  /\ RejudgeStep(c, st, rest)
        \/ st.do = "dissolve" /\ Dissolve(c, st, rest)
        \/ st.do = "clear"    /\ ClearStep(c, st, rest)
        \/ st.do = "shift"    /\ Shift(c, st.to, st.left, rest)
        \/ st.do = "pack"     /\ PackStep(c, st, rest)
        \/ st.do = "unlist"   /\ UnlistStep(c, st, rest)
        \/ st.do = "respan"   /\ RespanStep(c, st, rest)
        \/ st.do = "raze"     /\ RazeStep(c, st, rest)
        \/ st.do = "evict"    /\ EvictStep(c, st, rest)
        \/ st.do = "close"    /\ Close(c, st, rest)
    BY <1>h DEF Resume, Loud, ApplyPhases
  <1> HIDE DEF st, rest
  <1>g. <<>> \o rest = rest BY <1>h, CalmSteps
  <1>1. CASE JudgeStep(c, rest)
    BY <1>1, <1>h, RejudgeCalms, PairedKept DEF JudgeStep, layout, Calms, CalmNext, Then
  <1>2. CASE RejudgeStep(c, st, rest)
    BY <1>2, <1>h, RejudgeCalms, PairedKept DEF RejudgeStep, layout, Calms
  <1>3. CASE Dissolve(c, st, rest)
    <2>1. UNCHANGED <<screens, scenes>> /\ walls' \subseteq walls BY <1>3 DEF Dissolve
    <2>2. CalmNext(c) BY <1>3, <1>h, CalmSteps DEF Dissolve, CalmNext, Then
    <2> QED BY <2>1, <2>2, PairedKept DEF Calms
  <1>4. CASE ClearStep(c, st, rest)
    BY <1>4, <1>h, PairedKept DEF ClearStep, Calms, CalmNext, Then
  <1>5. CASE Shift(c, st.to, st.left, rest)
    <2>1. UNCHANGED <<walls, screens, scenes>> BY <1>5 DEF Shift
    <2>2. \A x : Calm(<<[do |-> "shift", to |-> st.to, left |-> x]>> \o rest) BY <1>h, CalmSteps
    <2>3. CalmNext(c) BY <1>5, <2>2, <1>h, <1>g DEF Shift, CalmNext, Then
    <2> QED BY <2>1, <2>3, PairedKept DEF Calms
  <1>6. CASE st.do = "pack" /\ PackStep(c, st, rest)
    <2>1. CASE PackOne(c, st, rest)
      <3>1. UNCHANGED <<walls, screens, scenes>> BY <2>1 DEF PackOne
      <3> QED BY <2>1, <3>1, <1>h, PackOneCalms, PairedKept DEF Calms
    <2>2. CASE /\ \E id \in FreshWall : NewWall(c, st.mural, st.members, id, rest)
               /\ UNCHANGED <<screens, scenes>>
      <3>1. PICK id : NewWall(c, st.mural, st.members, id, rest) BY <2>2
      <3>2. Combinable(st.mural, st.members) BY <1>6, <1>y DEF Ready
      <3>3. Paired' BY <3>1, <3>2, PairedKept DEF NewWall
      <3>4. CalmNext(c) BY <3>1, <1>h, CalmSteps DEF NewWall, CalmNext, Then
      <3> QED BY <2>2, <3>3, <3>4 DEF Calms
    <2> QED BY <1>6, <2>1, <2>2 DEF PackStep
  <1>7. CASE UnlistStep(c, st, rest)
    BY <1>7, <1>h, UnspanCalms DEF UnlistStep, Calms
  <1>8. CASE RespanStep(c, st, rest)
    <2>1. CASE Then(c, rest) /\ UNCHANGED <<layout, scenes>>
      BY <2>1, <1>h, PairedKept DEF layout, Calms, CalmNext, Then
    <2>2. CASE \E w \in walls : SpanWall(c, w, st.what, rest)
      BY <2>2, <1>h, CalmSteps, PairedKept DEF SpanWall, Calms, CalmNext, Then
    <2> QED BY <1>8, <2>1, <2>2 DEF RespanStep, HasId
  <1>9. CASE RazeStep(c, st, rest)
    BY <1>9, <1>h, RazeCalms, PairedKept DEF RazeStep, Calms
  <1>10. CASE EvictStep(c, st, rest)
    BY <1>10, <1>h, EvictCalms, PairedKept DEF EvictStep, Calms
  <1>11. CASE Close(c, st, rest)
    BY <1>11, <1>h, CalmSteps, PairedKept DEF Close, Calms, CalmNext, Then
  <1> QED BY <1>r, <1>1, <1>2, <1>3, <1>4, <1>5, <1>6, <1>7, <1>8, <1>9, <1>10, <1>11

(* What is captured from whole walls is sound (snapshotScene). *)
LEMMA CaptureSound ==
    ASSUME TypeInv, Apart(walls), AllWhole, Paired, NEW m \in Mural
    PROVE  SceneSound(Capture(m))
  <1> DEFINE sc == Capture(m)
             walled == UNION {w.members : w \in WallsOn(m)}
  <1>1. IsScene(sc) BY CaptureTyped DEF TypeInv
  <1>2. /\ sc.at = [s \in OnMural(m) |-> at[s].cell]
        /\ sc.walls = {[members |-> w.members, what |-> WallContent(w)] : w \in WallsOn(m)}
        /\ sc.own = [s \in OnMural(m) \ walled |-> Own(s)]
    BY DEF Capture
  <1> HIDE DEF sc
  <1>3. DOMAIN sc.at = OnMural(m) /\ DOMAIN sc.own = OnMural(m) \ walled BY <1>2
  <1>4. \A k \in sc.walls : \E w \in WallsOn(m) :
            k = [members |-> w.members, what |-> WallContent(w)] /\ k.members = w.members
    BY <1>2
  <1>5. ASSUME NEW w \in WallsOn(m)
        PROVE  /\ w.members \subseteq OnMural(m)
               /\ {sc.at[s] : s \in w.members} = CellsOf(at, w.members)
               /\ Contiguous(CellsOf(at, w.members)) /\ Cardinality(w.members) >= 2
    <2>1. w \in walls /\ w.mural = m BY DEF WallsOn
    <2>2. Whole3(w, at, screens) BY <2>1 DEF AllWhole
    <2>3. screens \subseteq Screen BY DEF TypeInv, LayoutTyped
    <2>4. w.members \subseteq OnMural(m) BY <2>1, <2>2, <2>3 DEF Whole3, OnMural
    <2>5. \A s \in w.members : sc.at[s] = at[s].cell BY <1>2, <2>4
    <2> QED BY <2>1, <2>2, <2>4, <2>5 DEF Whole3, CellsOf, Paired
  <1>6. \A k \in sc.walls :
        /\ k.members \subseteq DOMAIN sc.at /\ Cardinality(k.members) >= 2
        /\ Contiguous({sc.at[s] : s \in k.members})
    <2> SUFFICES ASSUME NEW k \in sc.walls
                 PROVE  /\ k.members \subseteq DOMAIN sc.at /\ Cardinality(k.members) >= 2
                        /\ Contiguous({sc.at[s] : s \in k.members})
      OBVIOUS
    <2>1. PICK w \in WallsOn(m) : k.members = w.members BY <1>4
    <2>2. {sc.at[s] : s \in k.members} = {sc.at[s] : s \in w.members} BY <2>1, Zenon
    <2>3. /\ w.members \subseteq DOMAIN sc.at /\ Cardinality(w.members) >= 2
          /\ Contiguous({sc.at[s] : s \in w.members})
      BY <1>3, <1>5, Zenon
    <2> QED BY <2>1, <2>2, <2>3, Zenon
  <1>7. \A k, l \in sc.walls : k # l => k.members \cap l.members = {}
    <2>1. \A w, v \in WallsOn(m) : w # v => w.members \cap v.members = {} BY DEF Apart, WallsOn
    <2> QED BY <1>4, <2>1
  <1>8. walled = UNION {k.members : k \in sc.walls}
    <2>1. ASSUME NEW x, x \in walled PROVE x \in UNION {k.members : k \in sc.walls}
      <3>1. PICK w \in WallsOn(m) : x \in w.members BY <2>1
      <3> DEFINE k == [members |-> w.members, what |-> WallContent(w)]
      <3>2. k \in sc.walls BY <1>2
      <3>3. k.members = w.members OBVIOUS
      <3> QED BY <3>1, <3>2, <3>3
    <2>2. ASSUME NEW x, x \in UNION {k.members : k \in sc.walls} PROVE x \in walled
      <3>1. PICK k \in sc.walls : x \in k.members BY <2>2
      <3> QED BY <3>1, <1>4
    <2> QED BY <2>1, <2>2
  <1> QED BY <1>1, <1>3, <1>6, <1>7, <1>8 DEF SceneSound, sc

-----------------------------------------------------------------------------
(* An apply under way goes on to what comes next of it. *)

Lands(c) ==
    /\ \E q : Landing(q)' /\ todo' = [todo EXCEPT ![c] = q]
    /\ Paired' /\ UNCHANGED <<screens, scenes>>

LEMMA LandsOn ==
    ASSUME NEW c, NEW q, NEW st, Aims(st), fence, Phasing(q, st)', Paired', Then(c, q),
           UNCHANGED <<murals, screens, scenes, fence>>
    PROVE  Lands(c)
  <1>1. Aims(st)' BY DEF Aims
  <1>2. Landing(q)' BY <1>1 DEF Landing
  <1> QED BY <1>2 DEF Lands, Then

LEMMA OneAndTwo ==
    /\ \A a : /\ IsSeq(<<a>>) /\ <<a>> # <<>> /\ <<a>> \o <<>> = <<a>>
              /\ Head(<<a>>) = a /\ Tail(<<a>>) = <<>>
    /\ \A a, b : <<a, b>> = <<a>> \o <<b>>
    /\ \A a, r : IsSeq(r) => /\ IsSeq(<<a>> \o r) /\ <<a>> \o r # <<>>
                             /\ Head(<<a>> \o r) = a /\ Tail(<<a>> \o r) = r
  <1>1. \A a : /\ IsSeq(<<a>>) /\ <<a>> # <<>> /\ <<a>> \o <<>> = <<a>>
               /\ Head(<<a>>) = a /\ Tail(<<a>>) = <<>>
    <2> TAKE a
    <2>1. <<a>> \in Seq({a}) /\ <<a>> # <<>> /\ <<a>> \o <<>> = <<a>> /\ Head(<<a>>) = a OBVIOUS
    <2>2. Tail(<<a>>) = <<>> OBVIOUS
    <2> QED BY <2>1, <2>2 DEF IsSeq
  <1>2. \A a, b : <<a, b>> = <<a>> \o <<b>> BY Pair
  <1>3. \A a, r : IsSeq(r) => /\ IsSeq(<<a>> \o r) /\ <<a>> \o r # <<>>
                              /\ Head(<<a>> \o r) = a /\ Tail(<<a>> \o r) = r
    BY Glued, HeadPushed
  <1> QED BY <1>1, <1>2, <1>3

(* What a handler does next is what its continuation begins with. *)
LEMMA Resumed ==
    ASSUME NEW c, Resume(c), NEW a, NEW r, Head(todo[c]) = a, Tail(todo[c]) = r
    PROVE  /\ a.do = "judge" /\ fence =>
                  Then(c, r) /\ UNCHANGED <<layout, scenes, badge, fence>>
           /\ a.do = "clear" => ClearStep(c, a, r)
           /\ a.do = "dissolve" => Dissolve(c, a, r)
           /\ a.do = "respan" => RespanStep(c, a, r)
           /\ a.do = "lower" => Lower(c, a, r)
           /\ a.do = "resplit" => Resplit(c, a, r) /\ UNCHANGED scenes
           /\ a.do = "omit" => Omit(c, a, r) /\ UNCHANGED scenes
           /\ a.do = "lay" => Lay(c, a, r) /\ UNCHANGED scenes
           /\ a.do = "regroup" => Regroup(c, a, r) /\ UNCHANGED scenes
           /\ a.do = "dress" => Dress(c, a, r) /\ UNCHANGED scenes
  BY DEF Resume, JudgeStep

LEMMA ResumedOne ==
    ASSUME NEW c, Resume(c), NEW st, todo[c] = <<st>>
    PROVE  Head(todo[c]) = st /\ Tail(todo[c]) = <<>>
  BY OneAndTwo

LEMMA ResumedJudge ==
    ASSUME NEW c, Resume(c), NEW r, IsSeq(r), todo[c] = <<Judge>> \o r, fence
    PROVE  Then(c, r) /\ UNCHANGED <<layout, scenes, badge, fence>>
  <1>1. Head(todo[c]) = Judge /\ Tail(todo[c]) = r BY OneAndTwo
  <1>2. Judge.do = "judge" BY DEF Judge
  <1> QED BY <1>1, <1>2, Resumed

LEMMA ResumedClear ==
    ASSUME NEW c, Resume(c), NEW S, NEW r, IsSeq(r), todo[c] = <<Clear(S)>> \o r
    PROVE  /\ Then(c, r) /\ slice' = Blanked(S)
           /\ UNCHANGED <<murals, screens, at, walls, library, scenes, badge, fence>>
  <1>1. Head(todo[c]) = Clear(S) /\ Tail(todo[c]) = r BY OneAndTwo
  <1>2. Clear(S).do = "clear" /\ Clear(S).screens = S BY DEF Clear
  <1> QED BY <1>1, <1>2, Resumed DEF ClearStep

(* A phase at the head of a continuation is typed, and is where its walls are. *)
LEMMA PhaseHead ==
    ASSUME WholeInv, NEW c \in Client, NEW st, todo[c] = <<st>>, st.do \in Phases
    PROVE  /\ {"do", "id", "scene", "left"} \subseteq DOMAIN st
           /\ StepTyped(st) /\ Phased(st, walls)
           /\ \A x : /\ Rest(st, x).do = st.do /\ Rest(st, x).left = st.left \ {x}
                     /\ Rest(st, x).scene = st.scene /\ Rest(st, x).id = st.id
  <1>1. Typed(todo[c]) /\ Staged(todo[c]) BY DEF WholeInv, TypeInv
  <1>2. todo[c] # <<>> /\ Head(todo[c]) = st BY OneAndTwo
  <1>3. StepTyped(st) BY <1>1, <1>2, TypedPushed
  <1>4. Phased(st, walls) BY <1>1, <1>2 DEF Staged, Line
  <1>5. {"do", "id", "scene", "left"} \subseteq DOMAIN st BY <1>3 DEF StepTyped
  <1>6. \A x : Rest(st, x).id = st.id BY <1>5 DEF Rest
  <1> QED BY <1>3, <1>4, <1>5, <1>6, PhaseRest

LEMMA Aimed ==
    ASSUME Scened, NEW st, Aims(st)
    PROVE  SceneSound(st.scene) /\ IsScene(st.scene)
  <1>1. st.id \in SceneId /\ st.scene = scenes[st.id] /\ scenes[st.id] # NoScene BY DEF Aims
  <1>2. SceneSound(scenes[st.id]) BY <1>1 DEF Scened
  <1>3. SceneSound(st.scene) BY <1>1, <1>2, Zenon
  <1> QED BY <1>3 DEF SceneSound

(* The same layout serves the same phase. *)
LEMMA LayoutSame ==
    ASSUME UNCHANGED layout
    PROVE  /\ \A sc, L : Laid(sc, L) => Laid(sc, L)'
           /\ \A sc, L, P : Grouped(sc, L, P) => Grouped(sc, L, P)'
           /\ \A sc, L : Dressed(sc, L) => Dressed(sc, L)'
           /\ \A sc : Identical(sc) => Identical(sc)'
  <1>1. \A sc, L : Laid(sc, L) => Laid(sc, L)' BY DEF layout, Laid, OnMural
  <1>2. \A sc, L, P : Grouped(sc, L, P) => Grouped(sc, L, P)'
    BY DEF layout, Grouped, WallContent, Listed
  <1>3. \A sc, L : Dressed(sc, L) => Dressed(sc, L)' BY DEF layout, Dressed, Own, Listed
  <1>4. ASSUME NEW sc PROVE Identical(sc)' <=> Identical(sc)
    BY DEF layout, Identical, OnMural, WallsOn, Listed, ScreenContent, Walled, WallsOf, WallOf,
           WallContent, Own
  <1> QED BY <1>1, <1>2, <1>3, <1>4

(* 1. The walls of the mural are split. *)
LEMMA SplittingLands ==
    ASSUME LandInv, NEW c \in Client, Resume(c), fence, NEW st, Aims(st), Splitting(todo[c], st)
    PROVE  Lands(c)
  <1>p. Paired BY DEF LandInv, Scened, Paired
  <1>t. TypeInv BY DEF LandInv, WholeInv
  <1>s. \A a : Splitting(<<a>>, a)' <=> a.do = "resplit" BY DEF Splitting
  <1>1. CASE todo[c] = <<st>>
    <2>0. st.do = "resplit" /\ st.do \in Phases BY DEF Splitting, Phases, ApplyPhases
    <2>1. Resplit(c, st, <<>>) /\ UNCHANGED scenes BY <1>1, <2>0, ResumedOne, Resumed
    <2>2. /\ Phased(st, walls)
          /\ \A x : /\ Rest(st, x).do = st.do /\ Rest(st, x).left = st.left \ {x}
                    /\ Rest(st, x).scene = st.scene /\ Rest(st, x).id = st.id
      BY <1>1, <2>0, PhaseHead DEF LandInv
    <2>3. \A x : Aims(Rest(st, x)) /\ Splitting(<<Rest(st, x)>>, Rest(st, x))'
      BY <2>0, <2>2, <1>s DEF Aims
    <2>4. CASE \E id \in st.left : Skip(c, st, id, <<>>)
      <3>1. PICK id : Skip(c, st, id, <<>>) BY <2>4
      <3>2. Then(c, <<Rest(st, id)>>) /\ UNCHANGED <<layout, fence>>
        BY <3>1, OneAndTwo DEF Skip
      <3>3. Phasing(<<Rest(st, id)>>, Rest(st, id))' BY <2>3 DEF Phasing
      <3>4. Paired' BY <1>p, <3>2 DEF Paired, layout
      <3> QED BY <2>1, <2>3, <3>2, <3>3, <3>4, LandsOn DEF layout
    <2>5. CASE \E id \in st.left, w \in walls : SplitWall(c, w, <<Rest(st, id)>> \o <<>>)
      <3>1. PICK id \in st.left, w \in walls : SplitWall(c, w, <<Rest(st, id)>> \o <<>>) BY <2>5
      <3> DEFINE a == Rest(st, id)
      <3>2. SplitWall(c, w, <<a>>) BY <3>1, OneAndTwo
      <3>3. Aims(a) /\ a.do = "resplit" BY <2>0, <2>2, <2>3
      <3> HIDE DEF a
      <3>4. IsSeq(<<a>>) BY OneAndTwo
      <3>5. <<Clear(w.members), Judge>> \o <<a>> = <<Clear(w.members)>> \o Judged(a)
        BY <3>4, PairGlued DEF Judged
      <3>6. Then(c, <<Clear(w.members)>> \o Judged(a)) BY <3>2, <3>5 DEF SplitWall
      <3>7. Phasing(<<Clear(w.members)>> \o Judged(a), a)' BY <3>3 DEF Phasing, Splitting
      <3>8. Paired' BY <1>p, <1>t, <3>2, PairedKept DEF SplitWall
      <3> QED BY <3>2, <3>3, <3>6, <3>7, <3>8, LandsOn DEF SplitWall
    <2>6. CASE Enter(c, "omit", st, OnMural(st.scene.mural) \ DOMAIN st.scene.at, <<>>)
      <3> DEFINE a == Phase("omit", st, OnMural(st.scene.mural) \ DOMAIN st.scene.at)
      <3>1. PICK L : L = OnMural(st.scene.mural) \ DOMAIN st.scene.at OBVIOUS
      <3>2. PICK b : b = Phase("omit", st, L) OBVIOUS
      <3>3. b.do = "omit" /\ b.id = st.id /\ b.scene = st.scene /\ b.left = L BY <3>2 DEF Phase
      <3>4. Then(c, <<b>>) /\ UNCHANGED <<layout, fence>> /\ st.left = {}
        BY <2>6, <3>1, <3>2, OneAndTwo DEF Enter
      <3>5. walls = {} BY <3>4, <2>0, <2>2 DEF Phased
      <3>6. Aims(b) BY <3>3 DEF Aims
      <3>7. OnMural(st.scene.mural)' = OnMural(st.scene.mural) BY <3>4 DEF layout, OnMural
      <3>8. walls' = {} BY <3>4, <3>5 DEF layout
      <3>9. OnMural(b.scene.mural)' \ DOMAIN b.scene.at \subseteq b.left BY <3>1, <3>3, <3>7
      <3>10. Omitting(<<b>>, b)' BY <3>3, <3>8, <3>9 DEF Omitting
      <3>11. Paired' BY <3>8 DEF Paired
      <3> QED BY <2>1, <3>4, <3>6, <3>10, <3>11, LandsOn DEF Phasing, layout
    <2> QED BY <2>1, <2>4, <2>5, <2>6 DEF Resplit, HasId
  <1>2. CASE todo[c] = Judged(st)
    <2>1. Then(c, <<st>>) /\ UNCHANGED <<layout, scenes, fence>>
      BY <1>2, OneAndTwo, ResumedJudge DEF Judged
    <2>2. Phasing(<<st>>, st)' BY <1>s DEF Phasing, Splitting
    <2>3. Paired' BY <1>p, <2>1 DEF Paired, layout
    <2> QED BY <2>1, <2>2, <2>3, LandsOn DEF layout
  <1>3. CASE \E S : todo[c] = <<Clear(S)>> \o Judged(st)
    <2>1. PICK S : todo[c] = <<Clear(S)>> \o Judged(st) BY <1>3
    <2>2. IsSeq(Judged(st)) BY OneAndTwo DEF Judged
    <2>3. Then(c, Judged(st)) /\ UNCHANGED <<murals, screens, walls, scenes, fence>>
      BY <2>1, <2>2, ResumedClear
    <2>4. Phasing(Judged(st), st)' BY DEF Phasing, Splitting
    <2>5. Paired' BY <1>p, <2>3 DEF Paired
    <2> QED BY <2>3, <2>4, <2>5, LandsOn
  <1> QED BY <1>1, <1>2, <1>3 DEF Splitting

(* 2. The screens the scene leaves out are unplaced, *)
LEMMA OmittingLands ==
    ASSUME LandInv, NEW c \in Client, Resume(c), fence, NEW st, Aims(st), Omitting(todo[c], st)
    PROVE  Lands(c)
  <1>t. LayoutTyped /\ screens = Screen BY DEF LandInv, WholeInv, TypeInv, Scened
  <1>m. st.scene.mural \in Mural /\ st.scene.mural # NoMural
    BY <1>t, NullAssumption DEF Aims, LayoutTyped
  <1>w. /\ walls = {} /\ st.do = "omit" /\ st.do \in Phases
        /\ OnMural(st.scene.mural) \ DOMAIN st.scene.at \subseteq st.left
    BY DEF Omitting, Phases, ApplyPhases
  <1>p. walls' = {} => Paired' BY DEF Paired
  <1>1. CASE todo[c] = <<st>>
    <2>1. Omit(c, st, <<>>) /\ UNCHANGED scenes BY <1>1, <1>w, ResumedOne, Resumed
    <2>2. \A x : /\ Rest(st, x).do = st.do /\ Rest(st, x).left = st.left \ {x}
                 /\ Rest(st, x).scene = st.scene /\ Rest(st, x).id = st.id
      BY <1>1, <1>w, PhaseHead DEF LandInv
    <2>3. \A x : Aims(Rest(st, x)) BY <2>2 DEF Aims
    <2>4. CASE \E s \in st.left : at[s] = Tray /\ Skip(c, st, s, <<>>)
      <3>1. PICK s \in st.left : at[s] = Tray /\ Skip(c, st, s, <<>>) BY <2>4
      <3>2. PICK a : a = Rest(st, s) OBVIOUS
      <3>3. Then(c, <<a>>) /\ UNCHANGED <<layout, fence>> BY <3>1, <3>2, OneAndTwo DEF Skip
      <3>4. a.do = "omit" /\ a.left = st.left \ {s} /\ a.scene = st.scene /\ Aims(a)
        BY <1>w, <2>2, <2>3, <3>2
      <3>5. s \notin OnMural(st.scene.mural) BY <1>m, <3>1 DEF OnMural, Tray
      <3>6. OnMural(a.scene.mural)' = OnMural(st.scene.mural) BY <3>3, <3>4 DEF layout, OnMural
      <3>7. OnMural(a.scene.mural)' \ DOMAIN a.scene.at \subseteq a.left
        BY <1>w, <3>4, <3>5, <3>6
      <3>8. walls' = {} BY <1>w, <3>3 DEF layout
      <3>9. Phasing(<<a>>, a)' BY <3>4, <3>7, <3>8 DEF Phasing, Omitting
      <3> QED BY <2>1, <3>3, <3>4, <3>8, <3>9, <1>p, LandsOn DEF layout
    <2>5. CASE \E s \in st.left :
                /\ at' = [at EXCEPT ![s] = Tray]
                /\ Then(c, <<[do |-> "dissolve", screen |-> s], Rest(st, s)>> \o <<>>)
                /\ UNCHANGED <<murals, screens, walls, slice, library, badge, fence>>
      <3>1. PICK s \in st.left :
                /\ at' = [at EXCEPT ![s] = Tray]
                /\ Then(c, <<[do |-> "dissolve", screen |-> s], Rest(st, s)>> \o <<>>)
                /\ UNCHANGED <<murals, screens, walls, slice, library, badge, fence>>
        BY <2>5
      <3>2. PICK a : a = Rest(st, s) OBVIOUS
      <3>3. PICK d : d = [do |-> "dissolve", screen |-> s] OBVIOUS
      <3>4. <<d, a>> \o <<>> = <<d>> \o <<a>>
        <4>1. IsSeq(<<>>) BY WithoutEmpty DEF Without
        <4> QED BY <4>1, PairGlued, OneAndTwo
      <3>5. Then(c, <<d>> \o <<a>>) BY <3>1, <3>2, <3>3, <3>4
      <3>6. a.do = "omit" /\ a.left = st.left \ {s} /\ a.scene = st.scene /\ Aims(a)
        BY <1>w, <2>2, <2>3, <3>2
      <3>7. OnMural(st.scene.mural)' \subseteq OnMural(st.scene.mural) \ {s}
        BY <1>m, <1>t, <3>1 DEF OnMural, LayoutTyped, Tray
      <3>8. OnMural(a.scene.mural)' = OnMural(st.scene.mural)' BY <3>6 DEF OnMural
      <3>9. OnMural(a.scene.mural)' \ DOMAIN a.scene.at \subseteq a.left
        BY <1>w, <3>6, <3>7, <3>8
      <3>10. walls' = {} BY <1>w, <3>1
      <3>11. Phasing(<<d>> \o <<a>>, a)' BY <3>3, <3>6, <3>9, <3>10 DEF Phasing, Omitting
      <3> QED BY <2>1, <3>1, <3>5, <3>6, <3>10, <3>11, <1>p, LandsOn
    <2>6. CASE Enter(c, "lay", st, DOMAIN st.scene.at, <<>>)
      <3>1. PICK a : a = Phase("lay", st, DOMAIN st.scene.at) OBVIOUS
      <3>2. a.do = "lay" /\ a.id = st.id /\ a.scene = st.scene /\ a.left = DOMAIN st.scene.at
        BY <3>1 DEF Phase
      <3>3. Then(c, <<a>>) /\ UNCHANGED <<layout, fence>> /\ st.left = {}
        BY <2>6, <3>1, OneAndTwo DEF Enter
      <3>4. Aims(a) BY <3>2 DEF Aims
      <3>5. Laid(a.scene, a.left) BY <1>w, <3>2, <3>3 DEF Laid
      <3>6. Laid(a.scene, a.left)' BY <3>3, <3>5, LayoutSame
      <3>7. walls' = {} BY <1>w, <3>3 DEF layout
      <3>8. Phasing(<<a>>, a)' BY <3>2, <3>6, <3>7 DEF Phasing, Laying
      <3> QED BY <2>1, <3>3, <3>4, <3>7, <3>8, <1>p, LandsOn DEF layout
    <2> QED BY <2>1, <2>4, <2>5, <2>6 DEF Omit
  <1>2. ASSUME todo[c] = Judged(st) \/ (\E s : todo[c] = <<[do |-> "dissolve", screen |-> s]>> \o <<st>>),
               Then(c, <<st>>) \/ Then(c, Judged(st)), UNCHANGED <<layout, scenes, fence>>
        PROVE  Lands(c)
    <2>1. walls' = {} /\ OnMural(st.scene.mural)' = OnMural(st.scene.mural)
      BY <1>2, <1>w DEF layout, OnMural
    <2>2. \A q : q = <<st>> \/ q = Judged(st) => Phasing(q, st)'
      BY <1>w, <2>1 DEF Phasing, Omitting
    <2> QED BY <1>2, <1>p, <2>1, <2>2, LandsOn DEF layout
  <1>3. CASE todo[c] = Judged(st)
    <2>1. Then(c, <<st>>) /\ UNCHANGED <<layout, scenes, fence>>
      BY <1>3, OneAndTwo, ResumedJudge DEF Judged
    <2> QED BY <1>2, <1>3, <2>1
  <1>4. CASE \E s : todo[c] = <<[do |-> "dissolve", screen |-> s]>> \o <<st>>
    <2>1. PICK s : todo[c] = <<[do |-> "dissolve", screen |-> s]>> \o <<st>> BY <1>4
    <2>2. PICK d : d = [do |-> "dissolve", screen |-> s] OBVIOUS
    <2>3. Head(todo[c]) = d /\ Tail(todo[c]) = <<st>>
      <3>1. todo[c] = <<d>> \o <<st>> BY <2>1, <2>2
      <3>2. PICK r : r = <<st>> OBVIOUS
      <3>3. IsSeq(r) BY <3>2, OneAndTwo
      <3>4. Head(<<d>> \o r) = d /\ Tail(<<d>> \o r) = r BY <3>3, OneAndTwo
      <3> QED BY <3>1, <3>2, <3>4
    <2>4. d.do = "dissolve" BY <2>2
    <2>5. Dissolve(c, d, <<st>>) BY <2>3, <2>4, Resumed
    <2>6. ~Walled(d.screen) BY <1>w DEF Walled, WallsOf
    <2>7. Then(c, Judged(st)) /\ UNCHANGED <<layout, scenes, fence>>
      BY <2>5, <2>6 DEF Dissolve, layout, Judged
    <2> QED BY <1>2, <1>4, <2>7
  <1> QED BY <1>1, <1>3, <1>4 DEF Omitting

(* and those it has are placed. *)
LEMMA LayingLands ==
    ASSUME LandInv, NEW c \in Client, Resume(c), fence, NEW st, Aims(st), Laying(todo[c], st)
    PROVE  Lands(c)
  <1>t. LayoutTyped /\ screens = Screen /\ Scened BY DEF LandInv, WholeInv, TypeInv, Scened
  <1>m. st.scene.mural \in murals /\ IsScene(st.scene) BY <1>t, Aimed DEF Aims
  <1>w. walls = {} /\ st.do = "lay" /\ st.do \in Phases /\ Laid(st.scene, st.left)
    BY DEF Laying, Phases, ApplyPhases
  <1>p. walls' = {} => Paired' BY DEF Paired
  <1>1. CASE todo[c] = <<st>>
    <2>1. Lay(c, st, <<>>) /\ UNCHANGED scenes BY <1>1, <1>w, ResumedOne, Resumed
    <2>2. /\ st.left \subseteq DOMAIN st.scene.at
          /\ \A x : /\ Rest(st, x).do = st.do /\ Rest(st, x).left = st.left \ {x}
                    /\ Rest(st, x).scene = st.scene /\ Rest(st, x).id = st.id
      BY <1>1, <1>w, PhaseHead DEF LandInv, StepTyped
    <2>3. \A x : Aims(Rest(st, x)) BY <2>2 DEF Aims
    <2>4. \A s \in st.left : s \in screens BY <1>t, <1>m, <2>2 DEF IsScene
    <2>5. CASE \E s \in st.left :
                /\ at' = [at EXCEPT ![s] = [mural |-> st.scene.mural, cell |-> st.scene.at[s]]]
                /\ Then(c, <<Judge, Rest(st, s)>> \o <<>>)
                /\ UNCHANGED <<murals, screens, walls, slice, library, badge, fence>>
      <3>1. PICK s \in st.left :
                /\ at' = [at EXCEPT ![s] = [mural |-> st.scene.mural, cell |-> st.scene.at[s]]]
                /\ Then(c, <<Judge, Rest(st, s)>> \o <<>>)
                /\ UNCHANGED <<murals, screens, walls, slice, library, badge, fence>>
        BY <2>5
      <3>2. PICK a : a = Rest(st, s) OBVIOUS
      <3>3. <<Judge, a>> \o <<>> = Judged(a)
        <4>1. IsSeq(<<>>) BY WithoutEmpty DEF Without
        <4> QED BY <4>1, PairGlued, OneAndTwo DEF Judged
      <3>4. Then(c, Judged(a)) BY <3>1, <3>2, <3>3
      <3>5. a.do = "lay" /\ a.left = st.left \ {s} /\ a.scene = st.scene /\ Aims(a)
        BY <1>w, <2>2, <2>3, <3>2
      <3>6. Laid(st.scene, a.left)'
        <4> DEFINE x == [mural |-> st.scene.mural, cell |-> st.scene.at[s]]
        <4>0. x.mural = st.scene.mural OBVIOUS
        <4>1. \A t \in Screen : at'[t] = IF t = s THEN x ELSE at[t]
          BY <1>t, <3>1 DEF LayoutTyped
        <4>2. s \in DOMAIN st.scene.at /\ DOMAIN st.scene.at \subseteq Screen
          BY <1>m, <2>2 DEF IsScene
        <4> HIDE DEF x
        <4>3. OnMural(st.scene.mural)' \subseteq DOMAIN st.scene.at
          BY <1>w, <4>0, <4>1, <4>2 DEF Laid, OnMural
        <4>4. ASSUME NEW t \in DOMAIN st.scene.at \ a.left
              PROVE  at'[t] = [mural |-> st.scene.mural, cell |-> st.scene.at[t]]
          <5>1. CASE t = s BY <5>1, <4>1, <4>2 DEF x
          <5>2. CASE t # s
            <6>1. t \in DOMAIN st.scene.at \ st.left BY <5>2, <3>5
            <6>2. at'[t] = at[t] BY <4>1, <4>2, <5>2, <6>1
            <6> QED BY <1>w, <6>1, <6>2 DEF Laid
          <5> QED BY <5>1, <5>2
        <4> QED BY <4>3, <4>4 DEF Laid
      <3>7. walls' = {} BY <1>w, <3>1
      <3>8. Phasing(Judged(a), a)' BY <3>5, <3>6, <3>7 DEF Phasing, Laying
      <3> QED BY <2>1, <3>1, <3>4, <3>5, <3>7, <3>8, <1>p, LandsOn
    <2>6. CASE Enter(c, "regroup", st, st.scene.walls, <<>>)
      <3>1. PICK a : a = Phase("regroup", st, st.scene.walls) OBVIOUS
      <3>2. a.do = "regroup" /\ a.id = st.id /\ a.scene = st.scene /\ a.left = st.scene.walls
        BY <3>1 DEF Phase
      <3>3. Then(c, <<a>>) /\ UNCHANGED <<layout, fence>> /\ st.left = {}
        BY <2>6, <3>1, OneAndTwo DEF Enter
      <3>4. Aims(a) BY <3>2 DEF Aims
      <3>5. Laid(a.scene, {}) BY <1>w, <3>2, <3>3
      <3>6. Grouped(a.scene, a.left, {}) BY <1>w, <3>2 DEF Grouped
      <3>7. Laid(a.scene, {})' /\ Grouped(a.scene, a.left, {})' BY <3>3, <3>5, <3>6, LayoutSame
      <3>8. Phasing(<<a>>, a)' BY <3>2, <3>7 DEF Phasing, Regrouping
      <3>9. walls' = {} BY <1>w, <3>3 DEF layout
      <3> QED BY <2>1, <3>3, <3>4, <3>8, <3>9, <1>p, LandsOn DEF layout
    <2> QED BY <1>m, <2>1, <2>4, <2>5, <2>6 DEF Lay
  <1>2. CASE todo[c] = Judged(st)
    <2>1. Then(c, <<st>>) /\ UNCHANGED <<layout, scenes, fence>>
      BY <1>2, OneAndTwo, ResumedJudge DEF Judged
    <2>2. walls' = {} BY <1>w, <2>1 DEF layout
    <2>3. Laid(st.scene, st.left)' BY <1>w, <2>1, LayoutSame
    <2>4. Phasing(<<st>>, st)' BY <1>w, <2>2, <2>3 DEF Phasing, Laying
    <2> QED BY <2>1, <2>2, <2>4, <1>p, LandsOn DEF layout
  <1> QED BY <1>1, <1>2 DEF Laying

(* 3. Its walls are combined, one after the other, and given their content. *)
LEMMA SameWall ==
    ASSUME NEW sc, SceneSound(sc), NEW k \in sc.walls
    PROVE  /\ k.members # {}
           /\ \A l \in sc.walls : l.members \cap k.members # {} => l = k
  <1>1. Cardinality(k.members) >= 2 /\ \A l \in sc.walls : l # k => l.members \cap k.members = {}
    BY DEF SceneSound
  <1>2. Cardinality({}) = 0 BY FS_EmptySet
  <1>3. k.members # {} BY <1>1, <1>2
  <1> QED BY <1>1, <1>3

(* A wall shows what it did when its members do. *)
LEMMA ContentStays ==
    ASSUME UNCHANGED library
    PROVE  /\ \A w : (\A s \in w.members : slice'[s] = slice[s]) => WallContent(w)' = WallContent(w)
           /\ \A x : Listed(x)' = Listed(x)
  <1>1. ASSUME NEW w, \A s \in w.members : slice'[s] = slice[s] PROVE WallContent(w)' = WallContent(w)
    BY <1>1 DEF WallContent
  <1>2. \A x : Listed(x)' = Listed(x) BY DEF Listed
  <1> QED BY <1>1, <1>2

(* The walls the scene has yet to get are of screens that are in none. *)
LEMMA StillLoose ==
    ASSUME NEW st, SceneSound(st.scene), Laid(st.scene, {}), Grouped(st.scene, st.left, {}),
           st.scene.mural \in murals, screens = Screen, NEW k \in st.left, st.left \subseteq st.scene.walls
    PROVE  /\ k.members \cap OnMural(st.scene.mural) \cap screens = k.members
           /\ Combinable(st.scene.mural, k.members) /\ Contiguous(CellsOf(at, k.members))
  <1> DEFINE sc == st.scene
             m == st.scene.mural
  <1>1. /\ k \in sc.walls /\ k.members \subseteq DOMAIN sc.at /\ Cardinality(k.members) >= 2
        /\ Contiguous({sc.at[s] : s \in k.members}) /\ DOMAIN sc.at \subseteq Screen
    BY DEF SceneSound, IsScene
  <1>2. \A s \in DOMAIN sc.at : at[s].mural = m /\ at[s].cell = sc.at[s]
    <2> TAKE s \in DOMAIN sc.at
    <2>1. at[s] = [mural |-> m, cell |-> sc.at[s]] BY DEF Laid
    <2>2. [mural |-> m, cell |-> sc.at[s]].mural = m /\ [mural |-> m, cell |-> sc.at[s]].cell = sc.at[s]
      OBVIOUS
    <2> QED BY <2>1, <2>2, Zenon
  <1>3. k.members \subseteq screens \cap OnMural(m) BY <1>1, <1>2 DEF OnMural
  <1>4. CellsOf(at, k.members) = {sc.at[s] : s \in k.members} BY <1>1, <1>2 DEF CellsOf
  <1>5. ASSUME NEW s \in k.members, Walled(s) PROVE FALSE
    <2>1. PICK w \in walls : s \in w.members BY <1>5 DEF Walled, WallsOf
    <2>2. PICK l \in sc.walls \ st.left : w.members = l.members BY DEF Grouped
    <2>3. l = k BY <1>1, <2>1, <2>2, SameWall
    <2> QED BY <2>2, <2>3
  <1> QED BY <1>1, <1>3, <1>4, <1>5 DEF Combinable

LEMMA RegroupLands ==
    ASSUME LandInv, NEW c \in Client, Resume(c), fence, NEW st, Aims(st),
           todo[c] = <<st>>, st.do = "regroup", Laid(st.scene, {}), Grouped(st.scene, st.left, {})
    PROVE  Lands(c)
  <1>t. LayoutTyped /\ screens = Screen /\ Scened /\ Paired /\ TypeInv
    BY DEF LandInv, WholeInv, TypeInv, Scened, Paired
  <1>m. st.scene.mural \in murals /\ SceneSound(st.scene) BY <1>t, Aimed DEF Aims
  <1>w. st.do \in Phases BY DEF Phases, ApplyPhases
  <1>1. Regroup(c, st, <<>>) /\ UNCHANGED scenes BY ResumedOne, Resumed
  <1>2. /\ st.left \subseteq st.scene.walls
        /\ \A x : /\ Rest(st, x).do = st.do /\ Rest(st, x).left = st.left \ {x}
                  /\ Rest(st, x).scene = st.scene /\ Rest(st, x).id = st.id
    BY <1>w, PhaseHead DEF LandInv, StepTyped
  <1>3. \A x : Aims(Rest(st, x)) BY <1>2 DEF Aims
  <1>4. ASSUME NEW k \in st.left, NEW id \in FreshWall,
               NewWall(c, st.scene.mural, k.members, id,
                       (IF k.what = Dark THEN <<>> ELSE <<Respan(id, k.what)>>) \o <<Rest(st, k)>> \o <<>>),
               UNCHANGED <<murals, screens, at, slice, library, badge, fence>>
        PROVE  Lands(c)
    <2>1. PICK a : a = Rest(st, k) OBVIOUS
    <2>2. PICK n : n = [id |-> id, mural |-> st.scene.mural, members |-> k.members, source |-> Dark]
      OBVIOUS
    <2>3. /\ n.id = id /\ n.members = k.members /\ n.source = Dark
          /\ a.do = "regroup" /\ a.left = st.left \ {k} /\ a.scene = st.scene /\ Aims(a)
      BY <1>2, <1>3, <2>1, <2>2
    <2>4. (IF k.what = Dark THEN <<>> ELSE <<Respan(id, k.what)>>) \o <<a>> \o <<>> = Spans(n, k, a)
      <3>0. IsSeq(<<>>) /\ IsSeq(<<a>>) BY WithoutEmpty, OneAndTwo DEF Without
      <3>1. <<>> \o <<a>> = <<a>> /\ <<a>> \o <<>> = <<a>> BY <3>0, Glued
      <3>2. PICK b : b = Respan(id, k.what) OBVIOUS
      <3>3. <<b>> \o <<a>> \o <<>> = <<b>> \o <<a>> BY <3>0, <3>1, PairGlued
      <3>4. CASE k.what = Dark BY <3>1, <3>4 DEF Spans
      <3>5. CASE k.what # Dark BY <3>2, <3>3, <3>5, <2>3 DEF Spans
      <3> QED BY <3>4, <3>5
    <2>5. IsSeq(Spans(n, k, a)) BY OneAndTwo DEF Spans
    <2>6. PICK r : r = Spans(n, k, a) OBVIOUS
    <2>7. <<Clear(k.members), Judge>> \o r = <<Clear(n.members)>> \o (<<Judge>> \o r)
      <3>1. PICK d : d = Clear(k.members) OBVIOUS
      <3>2. PICK j : j = Judge OBVIOUS
      <3>3. Clear(n.members) = d BY <2>3, <3>1
      <3>4. IsSeq(r) BY <2>5, <2>6
      <3>5. <<d, j>> \o r = <<d>> \o (<<j>> \o r) BY <3>4, PairGlued
      <3> QED BY <3>1, <3>2, <3>3, <3>5
    <2>8. NewWall(c, st.scene.mural, k.members, id, r) BY <1>4, <2>1, <2>4, <2>6
    <2>9. Then(c, <<Clear(n.members)>> \o (<<Judge>> \o r)) /\ walls' = walls \cup {n}
      BY <2>2, <2>7, <2>8 DEF NewWall
    <2>10. Laid(st.scene, {})' BY <1>4 DEF Laid, OnMural
    <2>11. Grouped(st.scene, a.left, {k})'
      <3>1. \A w \in walls' : \E l \in st.scene.walls \ a.left : w.members = l.members
        BY <1>2, <2>3, <2>9 DEF Grouped
      <3>2. \A l \in st.scene.walls \ a.left : \E w \in walls' : w.members = l.members
        BY <2>3, <2>9 DEF Grouped
      <3>3. ASSUME NEW w \in walls', NEW l \in st.scene.walls \ {k}, w.members = l.members
            PROVE  Listed(WallContent(w))' = Listed(l.what)'
        <4>1. w # n BY <1>2, <1>m, <2>3, <3>3, SameWall
        <4>2. w \in walls BY <2>9, <4>1
        <4>3. Listed(WallContent(w)) = Listed(l.what) BY <3>3, <4>2 DEF Grouped
        <4>4. WallContent(w)' = WallContent(w) /\ \A x : Listed(x)' = Listed(x)
          BY <1>4, ContentStays
        <4> QED BY <1>4, <4>3, <4>4 DEF Listed
      <3> QED BY <3>1, <3>2, <3>3 DEF Grouped
    <2>12. Combined(<<Clear(n.members)>> \o (<<Judge>> \o r), a, n, k)'
      BY <2>3, <2>6, <2>11 DEF Combined, Spans
    <2>13. Regrouping(<<Clear(n.members)>> \o (<<Judge>> \o r), a)'
      BY <1>2, <2>3, <2>9, <2>10, <2>12 DEF Regrouping
    <2>14. Combinable(st.scene.mural, k.members) BY <1>t, <1>m, <1>2, StillLoose
    <2>15. Paired' BY <1>t, <2>8, <2>14, PairedKept DEF NewWall
    <2> QED BY <1>1, <1>4, <2>3, <2>9, <2>13, <2>15, LandsOn DEF Phasing
  <1>5. CASE Enter(c, "dress", st, DOMAIN st.scene.own, <<>>)
    <2>1. PICK a : a = Phase("dress", st, DOMAIN st.scene.own) OBVIOUS
    <2>2. a.do = "dress" /\ a.id = st.id /\ a.scene = st.scene /\ a.left = DOMAIN st.scene.own
      BY <2>1 DEF Phase
    <2>3. Then(c, <<a>>) /\ UNCHANGED <<layout, fence>> /\ st.left = {}
      BY <1>5, <2>1, OneAndTwo DEF Enter
    <2>4. Aims(a) BY <2>2 DEF Aims
    <2>5. Laid(a.scene, {}) /\ Grouped(a.scene, {}, {}) /\ Dressed(a.scene, a.left)
      BY <2>2, <2>3 DEF Dressed
    <2>6. Laid(a.scene, {})' /\ Grouped(a.scene, {}, {})' /\ Dressed(a.scene, a.left)'
      BY <2>3, <2>5, LayoutSame
    <2>7. Phasing(<<a>>, a)' BY <2>2, <2>6 DEF Phasing, Dressing
    <2>8. Paired' BY <1>t, <2>3 DEF Paired, layout
    <2> QED BY <1>1, <2>3, <2>4, <2>7, <2>8, LandsOn DEF layout
  <1>6. ASSUME NEW k \in st.left
        PROVE  /\ k.members \cap OnMural(st.scene.mural) \cap screens = k.members
               /\ Combinable(st.scene.mural, k.members) /\ Contiguous(CellsOf(at, k.members))
    BY <1>t, <1>m, <1>2, StillLoose
  <1>7. CASE \E k \in st.left :
                LET m == st.scene.mural
                    S == k.members \cap OnMural(m) \cap screens
                IN  IF ~Combinable(m, S) \/ ~Contiguous(CellsOf(at, S))
                    THEN Skip(c, st, k, <<>>)
                    ELSE /\ \E id \in FreshWall :
                                NewWall(c, m, S, id, (IF k.what = Dark THEN <<>> ELSE <<Respan(id, k.what)>>)
                                                       \o <<Rest(st, k)>> \o <<>>)
                         /\ UNCHANGED <<murals, screens, at, slice, library, badge, fence>>
    <2>1. PICK k \in st.left :
                LET m == st.scene.mural
                    S == k.members \cap OnMural(m) \cap screens
                IN  IF ~Combinable(m, S) \/ ~Contiguous(CellsOf(at, S))
                    THEN Skip(c, st, k, <<>>)
                    ELSE /\ \E id \in FreshWall :
                                NewWall(c, m, S, id, (IF k.what = Dark THEN <<>> ELSE <<Respan(id, k.what)>>)
                                                       \o <<Rest(st, k)>> \o <<>>)
                         /\ UNCHANGED <<murals, screens, at, slice, library, badge, fence>>
      BY <1>7
    <2>2. PICK S : S = k.members \cap OnMural(st.scene.mural) \cap screens OBVIOUS
    <2>3. IF ~Combinable(st.scene.mural, S) \/ ~Contiguous(CellsOf(at, S))
          THEN Skip(c, st, k, <<>>)
          ELSE /\ \E id \in FreshWall :
                      NewWall(c, st.scene.mural, S, id,
                              (IF k.what = Dark THEN <<>> ELSE <<Respan(id, k.what)>>)
                                  \o <<Rest(st, k)>> \o <<>>)
               /\ UNCHANGED <<murals, screens, at, slice, library, badge, fence>>
      BY <2>1, <2>2, Zenon
    <2>4. S = k.members BY <1>6, <2>2
    <2>5. Combinable(st.scene.mural, S) /\ Contiguous(CellsOf(at, S)) BY <1>6, <2>4, Zenon
    <2>6. PICK id \in FreshWall :
                NewWall(c, st.scene.mural, S, id,
                        (IF k.what = Dark THEN <<>> ELSE <<Respan(id, k.what)>>)
                            \o <<Rest(st, k)>> \o <<>>)
      BY <2>3, <2>5, Zenon
    <2>7. UNCHANGED <<murals, screens, at, slice, library, badge, fence>> BY <2>3, <2>5, Zenon
    <2> QED BY <1>4, <2>4, <2>6, <2>7, Zenon
  <1> QED BY <1>1, <1>5, <1>7 DEF Regroup

(* A wall that was combined is blanked, and then spans its content. *)
LEMMA CombinedLands ==
    ASSUME LandInv, NEW c \in Client, Resume(c), fence, NEW st, Aims(st),
           st.do = "regroup", Laid(st.scene, {}),
           NEW w \in walls, NEW k \in st.scene.walls, Combined(todo[c], st, w, k)
    PROVE  Lands(c)
  <1> DEFINE sc == st.scene
             r  == Spans(w, k, st)
  <1>t. LayoutTyped /\ screens = Screen /\ Scened /\ Paired /\ TypeInv
    BY DEF LandInv, WholeInv, TypeInv, Scened, Paired
  <1>m. SceneSound(sc) BY <1>t, Aimed
  <1>c. /\ w.members = k.members /\ w.source = Dark /\ Grouped(sc, st.left, {k})
    BY DEF Combined
  <1>s. IsSeq(r) /\ IsSeq(<<Judge>> \o r) BY OneAndTwo DEF Spans
  <1>w. \A v \in walls : v.members \cap w.members # {} => v = w
    BY DEF LandInv, WholeInv, Apart
  <1>n. k.members # {} /\ \A l \in sc.walls : l.members \cap k.members # {} => l = k
    BY <1>m, SameWall
  <1>d. Listed(Dark) = Dark BY NullAssumption DEF Listed
  (* With k's wall showing what it should, every wall of the scene's does. *)
  <1>g. ASSUME UNCHANGED <<library, murals, screens, at>>,
               \A v \in walls' : v.members # w.members => v \in walls,
               \A v \in walls : v.members # w.members => v \in walls',
               \E v \in walls' : v.members = w.members,
               \A s \in Screen : s \notin w.members => slice'[s] = slice[s]
        PROVE  /\ Laid(sc, {})' /\ Grouped(sc, st.left, {k})'
               /\ (\A v \in walls' : v.members = w.members => WallContent(v)' = Listed(k.what) \/ WallContent(v)' = k.what)
                  => Grouped(sc, st.left, {})'
    <2>1. Laid(sc, {})' BY <1>g DEF Laid, OnMural
    <2>2. \A v \in walls' : \E l \in sc.walls \ st.left : v.members = l.members
      BY <1>g, <1>c DEF Grouped
    <2>3. \A l \in sc.walls \ st.left : \E v \in walls' : v.members = l.members
      BY <1>g, <1>c DEF Grouped
    <2>l. \A x : Listed(x)' = Listed(x) BY <1>g, ContentStays
    <2>4. ASSUME NEW v \in walls', NEW l \in sc.walls \ {k}, v.members = l.members
          PROVE  Listed(WallContent(v))' = Listed(l.what)'
      <3>1. v.members # w.members BY <1>c, <1>n, <2>4
      <3>2. v \in walls BY <1>g, <3>1
      <3>3. Listed(WallContent(v)) = Listed(l.what) BY <1>c, <2>4, <3>2 DEF Grouped
      <3>4. v # w BY <3>1
      <3>5. v.members \cap w.members = {} BY <1>w, <3>2, <3>4
      <3>6. v.members \subseteq Screen BY <1>t, <3>2, WallsTyped
      <3>7. \A s \in v.members : slice'[s] = slice[s] BY <1>g, <3>5, <3>6
      <3>8. WallContent(v)' = WallContent(v) BY <1>g, <3>7, ContentStays
      <3> QED BY <1>g, <3>3, <3>8 DEF Listed
    <2>5. Grouped(sc, st.left, {k})' BY <2>2, <2>3, <2>4 DEF Grouped
    <2>6. ASSUME \A v \in walls' : v.members = w.members =>
                     WallContent(v)' = Listed(k.what) \/ WallContent(v)' = k.what
          PROVE  Grouped(sc, st.left, {})'
      <3>1. ASSUME NEW v \in walls', NEW l \in sc.walls, v.members = l.members, l = k
            PROVE  Listed(WallContent(v))' = Listed(l.what)'
        <4>1. WallContent(v)' = Listed(k.what) \/ WallContent(v)' = k.what
          BY <1>c, <2>6, <3>1
        <4>2. Listed(Listed(k.what)) = Listed(k.what) BY <1>d, NullAssumption DEF Listed
        <4> QED BY <1>g, <3>1, <4>1, <4>2 DEF Listed
      <3>2. \A v \in walls', l \in sc.walls : v.members = l.members =>
                Listed(WallContent(v))' = Listed(l.what)'
        BY <2>4, <3>1
      <3> QED BY <2>2, <2>3, <3>2 DEF Grouped
    <2> QED BY <2>1, <2>5, <2>6
  <1>x. ASSUME NEW q, Then(c, q), UNCHANGED <<murals, screens, scenes, fence>>, Paired', Regrouping(q, st)'
        PROVE  Lands(c)
    BY <1>x, LandsOn DEF Phasing
  <1>y. \A q : (q = <<st>> \/ q = Judged(st)) /\ Laid(sc, {})' /\ Grouped(sc, st.left, {})'
                   => Regrouping(q, st)'
    BY DEF Regrouping
  <1>z. \A q : w \in walls' /\ Laid(sc, {})' /\ Combined(q, st, w, k)' => Regrouping(q, st)'
    BY DEF Regrouping
  <1>1. CASE todo[c] = <<Clear(w.members)>> \o (<<Judge>> \o r)
    <2>1. /\ Then(c, <<Judge>> \o r) /\ slice' = Blanked(w.members)
          /\ UNCHANGED <<murals, screens, at, walls, library, scenes, badge, fence>>
      BY <1>1, <1>s, ResumedClear
    <2>2. \A s \in Screen : slice'[s] = IF s \in w.members THEN Blank ELSE slice[s]
      BY <2>1 DEF Blanked
    <2>3. w.members \subseteq Screen BY <1>t, WallsTyped
    <2>4. \A s \in w.members : slice'[s].what = Dark BY <2>2, <2>3 DEF Blank
    <2>5. Laid(sc, {})' /\ Grouped(sc, st.left, {k})' BY <1>g, <2>1, <2>2
    <2>6. Paired' BY <1>t, <2>1 DEF Paired
    <2>7. CASE k.what # Dark
      <3>1. Combined(<<Judge>> \o r, st, w, k)' BY <1>c, <2>4, <2>5, <2>7 DEF Combined, Spans
      <3> QED BY <1>x, <1>z, <2>1, <2>5, <2>6, <3>1
    <2>8. CASE k.what = Dark
      <3>1. <<Judge>> \o r = Judged(st) BY <2>8 DEF Spans, Judged
      <3>2. \A v \in walls' : v.members = w.members => WallContent(v)' = k.what
        <4> SUFFICES ASSUME NEW v \in walls', v.members = w.members PROVE WallContent(v)' = k.what
          OBVIOUS
        <4>1. v = w BY <1>c, <1>n, <1>w, <2>1
        <4> QED BY <1>c, <2>4, <2>8, <4>1 DEF WallContent
      <3>3. Grouped(sc, st.left, {})' BY <1>g, <2>1, <2>2, <3>2
      <3> QED BY <1>x, <1>y, <2>1, <2>5, <2>6, <3>1, <3>3
    <2> QED BY <2>7, <2>8
  <1>2. CASE /\ k.what # Dark
             /\ \A s \in w.members : slice[s].what = Dark
             /\ todo[c] = <<Judge>> \o r
    <2>1. Then(c, r) /\ UNCHANGED <<layout, scenes, fence>> BY <1>2, <1>s, ResumedJudge
    <2>2. Laid(sc, {})' /\ Grouped(sc, st.left, {k})' BY <1>c, <2>1, LayoutSame
    <2>3. Paired' /\ w \in walls' BY <1>t, <2>1 DEF Paired, layout
    <2>4. Combined(r, st, w, k)' BY <1>2, <1>c, <2>1, <2>2 DEF Combined, Spans, layout
    <2> QED BY <1>x, <1>z, <2>1, <2>2, <2>3, <2>4 DEF layout
  <1>3. CASE /\ k.what # Dark
             /\ \A s \in w.members : slice[s].what = Dark
             /\ todo[c] = r
    <2>1. PICK a : a = Respan(w.id, k.what) OBVIOUS
    <2>2. a.do = "respan" /\ a.wall = w.id /\ a.what = k.what BY <2>1 DEF Respan
    <2>3. todo[c] = <<a>> \o <<st>> BY <1>3, <2>1 DEF Spans
    <2>4. Head(todo[c]) = a /\ Tail(todo[c]) = <<st>>
      <3>1. PICK z : z = <<st>> OBVIOUS
      <3>2. IsSeq(z) BY <3>1, OneAndTwo
      <3>3. Head(<<a>> \o z) = a /\ Tail(<<a>> \o z) = z BY <3>2, OneAndTwo
      <3> QED BY <2>3, <3>1, <3>3
    <2>5. RespanStep(c, a, <<st>>) BY <2>2, <2>4, Resumed
    <2>6. HasId(a.wall) = {w} BY <2>2 DEF HasId, LandInv, WholeInv, Apart
    <2>7. /\ w.members \subseteq Screen /\ w.mural \in Mural /\ w \in Wall
          /\ \A s \in w.members : at[s].mural = w.mural
      <3>1. Staged(todo[c]) /\ todo[c] # <<>> BY DEF LandInv, WholeInv, Resume, Idle
      <3>2. AllWhole BY <2>2, <2>4, <3>1 DEF Staged, Ready
      <3>3. Whole3(w, at, screens) BY <3>2 DEF AllWhole
      <3> QED BY <1>t, <3>3, WallsTyped DEF Whole3
    <2>8. Spannable(w) BY <1>c, <1>n, <2>7 DEF Spannable
    <2>9. k.what \in What BY <1>m DEF SceneSound, IsScene
    <2>10. CASE Resolves(k.what)
      <3>1. SpanWall(c, w, k.what, <<st>>) BY <2>2, <2>5, <2>6, <2>8, <2>10 DEF RespanStep
      <3>2. PICK v : v = [w EXCEPT !.source = IF k.what \in Source THEN k.what ELSE Dark] OBVIOUS
      <3>3. /\ v.members = w.members /\ v.source = IF k.what \in Source THEN k.what ELSE Dark
        BY <2>7, <3>2 DEF Wall
      <3>4. /\ slice' = Spanned(w, k.what) /\ walls' = (walls \ {w}) \cup {v}
            /\ Then(c, Judged(st))
            /\ UNCHANGED <<murals, screens, at, library, scenes, badge, fence>>
        BY <3>1, <3>2 DEF SpanWall, Judged
      <3>5. \A s \in Screen : IF s \in w.members THEN slice'[s].what = k.what ELSE slice'[s] = slice[s]
        <4>1. {s \in w.members : at[s].mural = w.mural} = w.members BY <2>7
        <4>2. PICK from, size : slice' = [s \in Screen |->
                    IF s \in w.members
                    THEN [what |-> k.what, wall |-> w.id, piece |-> <<at[s].cell - from, size>>]
                    ELSE slice[s]]
          BY <3>4, <4>1 DEF Spanned
        <4> QED BY <4>2
      <3>6. WallContent(v)' = k.what
        <4>1. PICK s \in w.members : s \in Screen BY <1>c, <1>n, <2>7
        <4>2. slice'[s].what # Dark /\ s \in v.members BY <1>3, <3>3, <3>5, <4>1
        <4>3. k.what \notin Source => k.what = AdHoc BY <1>3, <2>9 DEF What
        <4>4. v.source # Dark <=> k.what \in Source BY <1>3, <3>3
        <4> QED BY <3>3, <4>2, <4>3, <4>4 DEF WallContent
      <3>7. \A u \in walls' : u.members = w.members => u = v
        <4>1. \A u \in walls : u.members = w.members => u = w BY <1>c, <1>n, <1>w
        <4> QED BY <3>4, <4>1
      <3>8. Laid(sc, {})' /\ Grouped(sc, st.left, {})'
        <4>1. \A u \in walls' : u.members # w.members => u \in walls BY <3>3, <3>4
        <4>2. \A u \in walls : u.members # w.members => u \in walls' BY <3>4
        <4>3. \E u \in walls' : u.members = w.members BY <3>3, <3>4
        <4>4. \A s \in Screen : s \notin w.members => slice'[s] = slice[s] BY <3>5
        <4>5. \A u \in walls' : u.members = w.members =>
                  WallContent(u)' = Listed(k.what) \/ WallContent(u)' = k.what
          BY <3>6, <3>7
        <4> QED BY <1>g, <3>4, <4>1, <4>2, <4>3, <4>4, <4>5
      <3>9. Paired' BY <1>t, <3>3, <3>4 DEF Paired
      <3> QED BY <1>x, <1>y, <3>4, <3>8, <3>9
    <2>11. CASE ~Resolves(k.what)
      <3>1. Then(c, <<st>>) /\ UNCHANGED <<layout, scenes, fence>>
        BY <2>2, <2>5, <2>11 DEF RespanStep
      <3>2. Listed(k.what) = Dark BY <1>3, <2>9, <2>11 DEF Listed, Resolves, What
      <3>3. WallContent(w) = Dark BY <1>c, <1>3 DEF WallContent
      <3>4. Grouped(sc, st.left, {})
        <4>1. ASSUME NEW v \in walls, NEW l \in sc.walls, v.members = l.members
              PROVE  Listed(WallContent(v)) = Listed(l.what)
          <5>1. CASE l = k
            <6>1. v = w BY <1>c, <1>n, <1>w, <4>1, <5>1
            <6> QED BY <1>d, <3>2, <3>3, <5>1, <6>1
          <5>2. CASE l # k BY <1>c, <4>1, <5>2 DEF Grouped
          <5> QED BY <5>1, <5>2
        <4> QED BY <1>c, <4>1 DEF Grouped
      <3>5. Laid(sc, {})' /\ Grouped(sc, st.left, {})' BY <3>1, <3>4, LayoutSame
      <3>6. Paired' BY <1>t, <3>1 DEF Paired, layout
      <3> QED BY <1>x, <1>y, <3>1, <3>5, <3>6 DEF layout
    <2> QED BY <2>10, <2>11
  <1> QED BY <1>1, <1>2, <1>3 DEF Combined

LEMMA RegroupingLands ==
    ASSUME LandInv, NEW c \in Client, Resume(c), fence, NEW st, Aims(st), Regrouping(todo[c], st)
    PROVE  Lands(c)
  <1>1. CASE todo[c] = <<st>> /\ Grouped(st.scene, st.left, {})
    BY <1>1, RegroupLands DEF Regrouping
  <1>2. CASE todo[c] = Judged(st) /\ Grouped(st.scene, st.left, {})
    <2>1. Then(c, <<st>>) /\ UNCHANGED <<layout, scenes, fence>>
      BY <1>2, OneAndTwo, ResumedJudge DEF Judged
    <2>2. Laid(st.scene, {})' /\ Grouped(st.scene, st.left, {})'
      BY <1>2, <2>1, LayoutSame DEF Regrouping
    <2>3. Phasing(<<st>>, st)' BY <2>2 DEF Phasing, Regrouping
    <2>4. Paired' BY <2>1 DEF LandInv, Scened, Paired, layout
    <2> QED BY <2>1, <2>3, <2>4, LandsOn DEF layout
  <1>3. CASE \E w \in walls, k \in st.scene.walls : Combined(todo[c], st, w, k)
    BY <1>3, CombinedLands DEF Regrouping
  <1> QED BY <1>1, <1>2, <1>3 DEF Regrouping

(* 4. The screens in no wall get their own. *)
LEMMA DressingLands ==
    ASSUME LandInv, NEW c \in Client, Resume(c), fence, NEW st, Aims(st), Dressing(todo[c], st)
    PROVE  Lands(c)
  <1>t. LayoutTyped /\ screens = Screen /\ Scened /\ Paired
    BY DEF LandInv, WholeInv, TypeInv, Scened, Paired
  <1>m. st.scene.mural \in murals /\ SceneSound(st.scene) BY <1>t, Aimed DEF Aims
  <1>d. /\ Laid(st.scene, {}) /\ Grouped(st.scene, {}, {}) /\ Dressed(st.scene, st.left)
        /\ st.do = "dress" /\ st.do \in Phases
    BY DEF Dressing, Phases, ApplyPhases
  <1>1. CASE todo[c] = Judged(st)
    <2>1. Then(c, <<st>>) /\ UNCHANGED <<layout, scenes, fence>>
      BY <1>1, OneAndTwo, ResumedJudge DEF Judged
    <2>2. Laid(st.scene, {})' /\ Grouped(st.scene, {}, {})' /\ Dressed(st.scene, st.left)'
      BY <1>d, <2>1, LayoutSame
    <2>3. Phasing(<<st>>, st)' BY <1>d, <2>2 DEF Phasing, Dressing
    <2>4. Paired' BY <1>t, <2>1 DEF Paired, layout
    <2> QED BY <2>1, <2>3, <2>4, LandsOn DEF layout
  <1>2. CASE todo[c] = <<st>>
    <2>1. Dress(c, st, <<>>) /\ UNCHANGED scenes BY <1>2, <1>d, ResumedOne, Resumed
    <2>2. /\ st.left \subseteq DOMAIN st.scene.own
          /\ \A x : /\ Rest(st, x).do = st.do /\ Rest(st, x).left = st.left \ {x}
                    /\ Rest(st, x).scene = st.scene /\ Rest(st, x).id = st.id
      BY <1>2, <1>d, PhaseHead DEF LandInv, StepTyped
    <2>3. \A x : Aims(Rest(st, x)) BY <2>2 DEF Aims
    <2>4. \A s \in DOMAIN st.scene.own : s \in screens /\ ~Walled(s) /\ st.scene.own[s] \in What
      <3>1. ASSUME NEW s \in DOMAIN st.scene.own, Walled(s) PROVE FALSE
        <4>1. PICK w \in walls : s \in w.members BY <3>1 DEF Walled, WallsOf
        <4>2. PICK k \in st.scene.walls : w.members = k.members BY <1>d DEF Grouped
        <4>3. s \in UNION {l.members : l \in st.scene.walls} BY <4>1, <4>2
        <4> QED BY <1>m, <4>3 DEF SceneSound
      <3> QED BY <1>t, <1>m, <3>1 DEF SceneSound, IsScene
    <2>5. CASE \E s \in st.left :
                ShowOn(c, s, IF Resolves(st.scene.own[s]) THEN st.scene.own[s] ELSE Dark,
                       <<Rest(st, s)>> \o <<>>)
      <3>1. PICK s \in st.left :
                ShowOn(c, s, IF Resolves(st.scene.own[s]) THEN st.scene.own[s] ELSE Dark,
                       <<Rest(st, s)>> \o <<>>)
        BY <2>5
      <3>2. PICK a : a = Rest(st, s) OBVIOUS
      <3>3. PICK x : x = IF Resolves(st.scene.own[s]) THEN st.scene.own[s] ELSE Dark OBVIOUS
      <3>4. ShowOn(c, s, x, <<a>>) BY <3>1, <3>2, <3>3, OneAndTwo
      <3>5. /\ slice' = [slice EXCEPT ![s] = [what |-> x, wall |-> NoWall, piece |-> Whole]]
            /\ Then(c, Judged(a))
            /\ UNCHANGED <<murals, screens, at, walls, library, scenes, badge, fence>>
        BY <3>4 DEF ShowOn, Judged
      <3>6. a.do = "dress" /\ a.left = st.left \ {s} /\ a.scene = st.scene /\ Aims(a)
        BY <1>d, <2>2, <2>3, <3>2
      <3>7. /\ slice'[s].what = x /\ slice'[s].wall = NoWall
            /\ \A t \in Screen : t # s => slice'[t] = slice[t]
        <4>1. s \in Screen BY <1>t, <2>2, <2>4
        <4> QED BY <1>t, <3>5, <4>1 DEF LayoutTyped
      <3>8. Laid(st.scene, {})' BY <1>d, <3>5 DEF Laid, OnMural
      <3>9. Grouped(st.scene, {}, {})'
        <4>1. ASSUME NEW w \in walls PROVE WallContent(w)' = WallContent(w)
          <5>1. s \notin w.members BY <2>2, <2>4 DEF Walled, WallsOf
          <5>2. w.members \subseteq Screen BY <1>t, WallsTyped
          <5> QED BY <3>5, <3>7, <5>1, <5>2, ContentStays
        <4>2. \A y : Listed(y)' = Listed(y) BY <3>5, ContentStays
        <4>3. \A w \in walls, k \in st.scene.walls : w.members = k.members =>
                  Listed(WallContent(w))' = Listed(k.what)'
          BY <1>d, <3>5, <4>1 DEF Grouped, Listed
        <4> QED BY <1>d, <3>5, <4>3 DEF Grouped
      <3>10. Dressed(st.scene, a.left)'
        <4>1. ASSUME NEW t \in DOMAIN st.scene.own \ a.left
              PROVE  Listed(Own(t))' = Listed(st.scene.own[t])'
          <5>1. CASE t = s
            <6>1. Own(s)' = x BY <3>7 DEF Own
            <6>2. Listed(x) = Listed(st.scene.own[s])
              <7>1. st.scene.own[s] \in What BY <2>2, <2>4
              <7> QED BY <3>3, <7>1, NullAssumption DEF Listed, Resolves, What
            <6> QED BY <3>5, <5>1, <6>1, <6>2 DEF Listed
          <5>2. CASE t # s
            <6>1. t \in DOMAIN st.scene.own \ st.left BY <3>6, <5>2
            <6>2. slice'[t] = slice[t] BY <1>t, <2>4, <3>7, <5>2, <6>1
            <6>3. Listed(Own(t)) = Listed(st.scene.own[t]) BY <1>d, <6>1 DEF Dressed
            <6> QED BY <3>5, <6>2, <6>3 DEF Listed, Own
          <5> QED BY <5>1, <5>2
        <4> QED BY <4>1 DEF Dressed
      <3>11. Phasing(Judged(a), a)' BY <3>6, <3>8, <3>9, <3>10 DEF Phasing, Dressing
      <3>12. Paired' BY <1>t, <3>5 DEF Paired
      <3> QED BY <3>5, <3>6, <3>11, <3>12, LandsOn
    <2>6. CASE /\ st.left = {}
               /\ Then(c, <<[do |-> "lower", id |-> st.id]>> \o <<>>)
               /\ UNCHANGED <<layout, fence>>
      <3>1. Then(c, <<[do |-> "lower", id |-> st.id]>>) BY <2>6, OneAndTwo
      <3>2. Identical(st.scene)
        <4> DEFINE sc == st.scene
                   m == sc.mural
                   wanted == DOMAIN sc.at \cap screens
                   kept == {k \in {[members |-> w.members \cap wanted, what |-> w.what] : w \in sc.walls} :
                              Cardinality(k.members) >= 2}
                   grouped == UNION {k.members : k \in kept}
        <4>1. wanted = DOMAIN sc.at BY <1>t, <1>m DEF SceneSound, IsScene
        <4>2. kept = sc.walls
          <5>1. ASSUME NEW w \in sc.walls
                PROVE  /\ [members |-> w.members \cap wanted, what |-> w.what] = w
                       /\ Cardinality(w.members) >= 2
            <6>1. w.members \cap wanted = w.members BY <1>m, <4>1 DEF SceneSound
            <6>2. w \in [members : SUBSET Screen, what : What] BY <1>m DEF SceneSound, IsScene
            <6>3. w = [members |-> w.members, what |-> w.what] BY <6>2
            <6> QED BY <1>m, <6>1, <6>3 DEF SceneSound
          <5> QED BY <5>1
        <4>3. wanted \ grouped = DOMAIN sc.own BY <1>m, <4>1, <4>2 DEF SceneSound
        <4> HIDE DEF wanted, kept, grouped
        <4>4. \A s \in wanted : at[s] = [mural |-> m, cell |-> sc.at[s]] BY <1>d, <4>1 DEF Laid
        <4>5. \A s \in wanted \ grouped :
                  Listed(ScreenContent(s)) = IF s \in DOMAIN sc.own THEN Listed(sc.own[s]) ELSE Dark
          BY <1>d, <2>4, <2>6, <4>3 DEF Dressed, ScreenContent
        <4>6. OnMural(m) \subseteq wanted BY <1>d, <4>1 DEF Laid
        <4>7. walls \subseteq WallsOn(m)
          <5>1. AllWhole
            <6>1. Staged(todo[c]) /\ todo[c] # <<>> /\ Head(todo[c]) = st
              BY <1>2, OneAndTwo DEF LandInv, WholeInv
            <6> QED BY <1>d, <6>1 DEF Staged, Ready
          <5>2. ASSUME NEW w \in walls PROVE w.mural = m
            <6>1. PICK k \in sc.walls : w.members = k.members BY <1>d DEF Grouped
            <6>2. PICK s \in w.members : s \in DOMAIN sc.at
              BY <1>m, <6>1, SameWall DEF SceneSound
            <6>3. at[s].mural = w.mural BY <5>1 DEF AllWhole, Whole3
            <6>4. at[s] = [mural |-> m, cell |-> sc.at[s]] BY <6>2, <4>4, <4>1
            <6>5. [mural |-> m, cell |-> sc.at[s]].mural = m OBVIOUS
            <6> QED BY <6>3, <6>4, <6>5, Zenon
          <5> QED BY <5>2 DEF WallsOn
        <4>8. \A k \in kept : \E w \in WallsOn(m) :
                  w.members = k.members /\ Listed(WallContent(w)) = Listed(k.what)
          BY <1>d, <4>2, <4>7 DEF Grouped
        <4>9. {w.members : w \in WallsOn(m)} \subseteq {k.members : k \in kept}
          BY <1>d, <4>2 DEF Grouped, WallsOn
        <4> QED BY <1>m, <4>4, <4>5, <4>6, <4>8, <4>9 DEF Identical, wanted, kept, grouped
      <3>3. Identical(scenes[st.id])' 
        <4>1. Identical(st.scene)' BY <2>6, <3>2, LayoutSame
        <4>2. scenes'[st.id] = st.scene BY <2>1 DEF Aims
        <4> QED BY <4>1, <4>2
      <3>4. Landed(<<[do |-> "lower", id |-> st.id]>>)' BY <3>3 DEF Landed, Aims
      <3>5. Landing(<<[do |-> "lower", id |-> st.id]>>)' BY <2>6, <3>4 DEF Landing
      <3>6. Paired' BY <1>t, <2>6 DEF Paired, layout
      <3> QED BY <2>1, <2>6, <3>1, <3>5, <3>6 DEF Lands, Then, layout
    <2> QED BY <2>1, <2>2, <2>4, <2>5, <2>6 DEF Dress
  <1> QED BY <1>1, <1>2 DEF Dressing

(* 5. The fence comes down, and what is left is a judgement. *)
LEMMA LoweringCalms ==
    ASSUME Paired, NEW c, Resume(c), Landed(todo[c])
    PROVE  Calms(c)
  <1>1. PICK id : todo[c] = <<[do |-> "lower", id |-> id]>> BY DEF Landed
  <1>2. PICK a : a = [do |-> "lower", id |-> id] OBVIOUS
  <1>3. todo[c] = <<a>> /\ a.do = "lower" BY <1>1, <1>2
  <1>4. Lower(c, a, <<>>) BY <1>3, ResumedOne, Resumed
  <1>5. CalmNext(c) BY <1>4, CalmNone, RejudgeCalms DEF Lower
  <1> QED BY <1>4, <1>5 DEF Calms, Lower, layout, Paired

LEMMA LandingGoesOn ==
    ASSUME LandInv, NEW c \in Client, Landing(todo[c]), Resume(c)
    PROVE  Calms(c) \/ Lands(c)
  <1>1. fence BY DEF Landing
  <1>2. CASE Landed(todo[c]) BY <1>2, LoweringCalms DEF LandInv, Scened, Paired
  <1>3. ASSUME NEW st, Aims(st), Phasing(todo[c], st) PROVE Lands(c)
    BY <1>1, <1>3, SplittingLands, OmittingLands, LayingLands, RegroupingLands, DressingLands
       DEF Phasing
  <1> QED BY <1>2, <1>3 DEF Landing

(* A request leaves no apply behind but for the one that it is. *)
LEMMA RequestLands ==
    ASSUME LandInv, LandOps, OneRequest, NEW c \in Client, Request(c)
    PROVE  /\ Scened'
           /\ \E q : (Calm(q) \/ Landing(q)') /\ todo' = [todo EXCEPT ![c] = q]
  <1>t. TypeInv /\ Scened /\ Paired /\ Apart(walls) /\ todo = [d \in Client |-> todo[d]]
    BY DEF LandInv, WholeInv, TypeInv, Scened, Paired
  <1>i. Idle(c) => AllWhole /\ todo[c] = <<>>
    BY DEF LandInv, WholeInv, Staged, Idle
  <1>k. ASSUME Idle(c), UNCHANGED todo PROVE CalmNext(c)
    <2>1. todo' = [todo EXCEPT ![c] = <<>>] BY <1>k, <1>i, <1>t
    <2> QED BY <2>1, CalmNone DEF CalmNext
  <1>1. CASE Calms(c) BY <1>1, <1>t DEF Calms, CalmNext, Scened, Paired
  <1>2. ASSUME NEW m \in Mural, NEW id \in SceneId, Snapshot(c, m, id)
        PROVE  Scened' /\ CalmNext(c)
    <2>1. /\ Idle(c) /\ UNCHANGED <<layout, todo>>
          /\ scenes' = [scenes EXCEPT ![id] = Capture(m)]
      BY <1>2 DEF Snapshot
    <2>2. SceneSound(Capture(m)) BY <1>t, <1>i, <2>1, CaptureSound
    <2>3. \A x \in SceneId : scenes'[x] = IF x = id THEN Capture(m) ELSE scenes[x]
      BY <1>t, <2>1 DEF TypeInv, SavedTyped
    <2>4. Scened' BY <1>t, <2>1, <2>2, <2>3 DEF Scened, layout
    <2> QED BY <1>k, <2>1, <2>4
  <1>3. ASSUME NEW id \in SceneId, Unsave(c, id) PROVE Scened' /\ CalmNext(c)
    <2>1. Idle(c) /\ UNCHANGED <<layout, todo>> /\ scenes' = [scenes EXCEPT ![id] = NoScene]
      BY <1>3 DEF Unsave
    <2>2. \A x \in SceneId : scenes'[x] = IF x = id THEN NoScene ELSE scenes[x]
      BY <1>t, <2>1 DEF TypeInv, SavedTyped
    <2>3. Scened' BY <1>t, <2>1, <2>2 DEF Scened, layout
    <2> QED BY <1>k, <2>1, <2>3
  <1>4. ASSUME NEW id \in SceneId, Apply(c, id)
        PROVE  Scened' /\ \E q : Landing(q)' /\ todo' = [todo EXCEPT ![c] = q]
    <2>1. PICK a : a = [do |-> "resplit", id |-> id, scene |-> scenes[id],
                        left |-> {w.id : w \in WallsOn(scenes[id].mural)}]
      OBVIOUS
    <2>2. a.do = "resplit" /\ a.id = id /\ a.scene = scenes[id] BY <2>1
    <2>3. /\ scenes[id] # NoScene /\ scenes[id].mural \in murals /\ fence' = TRUE
          /\ todo' = [todo EXCEPT ![c] = <<a>>] /\ UNCHANGED <<layout, scenes, badge>>
      BY <1>4, <2>1 DEF Apply, Then
    <2>4. Aims(a)' BY <2>2, <2>3 DEF Aims, layout
    <2>5. Phasing(<<a>>, a)' BY <2>2 DEF Phasing, Splitting
    <2>6. Landing(<<a>>)' BY <2>3, <2>4, <2>5 DEF Landing
    <2>7. Scened' BY <1>t, <2>3 DEF Scened, layout
    <2> QED BY <2>3, <2>6, <2>7
  <1>5. \/ Calms(c)
        \/ \E m \in Mural, id \in SceneId : Snapshot(c, m, id)
        \/ \E id \in SceneId : Apply(c, id) \/ Unsave(c, id)
    BY <1>t, RequestCalms
  <1> QED BY <1>1, <1>2, <1>3, <1>4, <1>5 DEF CalmNext

LEMMA LandInvStays == OneRequest /\ LandOps /\ LandInv /\ [Next]_vars => LandInv'
  <1> SUFFICES ASSUME OneRequest, LandOps, LandInv, [Next]_vars PROVE LandInv'
    OBVIOUS
  <1>1. WholeInv'
    <2>1. WholeOps(Ops) BY DEF LandOps, WholeOps
    <2> QED BY <2>1, WholeInvStays, NextIsOf DEF LandInv
  <1>2. ASSUME NEW c \in Client, Request(c) \/ Resume(c) PROVE LandInv'
    <2>1. Resume(c) => Calms(c) \/ Lands(c)
      BY LandingGoesOn, ResumeCalms DEF LandInv, WholeInv, Scened, Paired
    <2>2. /\ Scened'
          /\ \E q : (Calm(q) \/ Landing(q)') /\ todo' = [todo EXCEPT ![c] = q]
      <3>1. Calms(c) \/ Lands(c) => Scened'
        BY DEF Calms, Lands, LandInv, Scened, Paired
      <3> QED BY <1>2, <2>1, <3>1, RequestLands DEF Calms, CalmNext, Lands
    <2>3. PICK q : (Calm(q) \/ Landing(q)') /\ todo' = [todo EXCEPT ![c] = q] BY <2>2
    <2>4. \A d \in Client : todo'[d] = q
      <3>1. todo = [d \in Client |-> todo[d]] BY DEF LandInv, WholeInv, TypeInv
      <3> QED BY <2>3, <3>1 DEF OneRequest
    <2>5. \A d \in Client : Calm(todo[d])' \/ Landing(todo[d])'
      <3> TAKE d \in Client
      <3>1. CASE Calm(q) BY <2>4, <3>1
      <3>2. CASE Landing(q)' BY <2>4, <3>2
      <3> QED BY <2>3, <3>1, <3>2
    <2> QED BY <1>1, <2>2, <2>5 DEF LandInv
  <1>3. CASE UNCHANGED vars
    <2>1. UNCHANGED <<layout, murals, screens, walls, scenes, fence, todo>>
      BY <1>3 DEF vars, layout
    <2>2. Scened' BY <2>1 DEF LandInv, Scened
    <2>3. \A st : Aims(st) => Aims(st)' BY <2>1 DEF Aims
    <2>4. \A q, st : Phasing(q, st) => Phasing(q, st)'
      <3> TAKE q, st
      <3>1. OnMural(st.scene.mural)' = OnMural(st.scene.mural) BY <2>1 DEF OnMural, layout
      <3>2. Splitting(q, st) => Splitting(q, st)' BY DEF Splitting
      <3>3. Omitting(q, st) => Omitting(q, st)' BY <2>1, <3>1 DEF Omitting
      <3>4. Laying(q, st) => Laying(q, st)' BY <2>1, LayoutSame DEF Laying
      <3>5. \A w, k : Combined(q, st, w, k) => Combined(q, st, w, k)'
        BY <2>1, LayoutSame DEF Combined, layout
      <3>6. Regrouping(q, st) => Regrouping(q, st)' BY <2>1, <3>5, LayoutSame DEF Regrouping
      <3>7. Dressing(q, st) => Dressing(q, st)' BY <2>1, LayoutSame DEF Dressing
      <3> QED BY <3>2, <3>3, <3>4, <3>6, <3>7 DEF Phasing
    <2>5. \A q : Landed(q) => Landed(q)' BY <2>1, LayoutSame DEF Landed
    <2>6. \A q : Landing(q) => Landing(q)' BY <2>1, <2>3, <2>4, <2>5 DEF Landing
    <2>7. \A c \in Client : Calm(todo[c])' \/ Landing(todo[c])'
      <3> TAKE c \in Client
      <3>1. todo'[c] = todo[c] BY <2>1
      <3>2. CASE Calm(todo[c]) BY <3>1, <3>2
      <3>3. CASE Landing(todo[c])
        <4>1. PICK q : q = todo[c] OBVIOUS
        <4>2. Landing(q)' BY <3>3, <4>1, <2>6
        <4> QED BY <3>1, <4>1, <4>2
      <3> QED BY <3>2, <3>3 DEF LandInv
    <2> QED BY <1>1, <2>2, <2>7 DEF LandInv
  <1> QED BY <1>2, <1>3 DEF Next, LandOps

(* An apply lands: as long as requests do not overlap, no write is refused   *)
(* and no screen is forgotten, a mural is the scene that was applied when    *)
(* the fence comes down, whatever was on it before (applyScene, combineScreens, *)
(* setWallContent, diffScene).  A scene one of whose walls has lost a screen  *)
(* in its middle cannot land: the rest of the wall is in two regions.        *)
THEOREM AppliesLand ==
    ASSUME OneRequest, LandOps
    PROVE  Spec => []ApplyLandsScene
  <1>1. Init => LandInv
    <2> SUFFICES ASSUME Init PROVE LandInv OBVIOUS
    <2>1. WholeInv BY InitWhole DEF Init
    <2>2. walls = {} /\ screens = Screen /\ \A id \in SceneId : scenes[id] = NoScene
      BY DEF Init, InitWith
    <2>3. \A c \in Client : todo[c] = <<>> BY DEF Init, InitWith
    <2> QED BY <2>1, <2>2, <2>3, CalmNone DEF LandInv, Scened
  <1>2. LandInv /\ [Next]_vars => LandInv' BY LandInvStays
  <1>3. LandInv => ApplyLandsScene
    <2> SUFFICES ASSUME LandInv, NEW c \in Client, ~Idle(c), Head(todo[c]).do = "lower",
                        scenes[Head(todo[c]).id] # NoScene
                 PROVE  Identical(scenes[Head(todo[c]).id])
      BY DEF ApplyLandsScene
    <2>1. ~Calm(todo[c])
      <3>1. "lower" \in Loud BY DEF Loud, ApplyPhases
      <3> QED BY <3>1, CalmRest DEF Idle
    <2>2. Landing(todo[c]) BY <2>1 DEF LandInv
    <2>3. ASSUME NEW st, Phasing(todo[c], st) PROVE FALSE
      <3>1. st.do # "lower" BY <2>3 DEF Phasing, Splitting, Omitting, Laying, Regrouping, Dressing
      <3>2. \A a, r : IsSeq(r) => Head(<<a>> \o r) = a BY OneAndTwo
      <3>3. Head(<<st>>) = st BY OneAndTwo
      <3>4. \A w, k : IsSeq(Spans(w, k, st)) /\ Head(Spans(w, k, st)).do # "lower"
        <4> TAKE w, k
        <4>1. IsSeq(<<st>>) BY OneAndTwo
        <4>2. Respan(w.id, k.what).do # "lower" BY DEF Respan
        <4>3. Head(<<Respan(w.id, k.what)>> \o <<st>>) = Respan(w.id, k.what) BY <3>2, <4>1
        <4>4. IsSeq(<<Respan(w.id, k.what)>> \o <<st>>) BY <4>1, OneAndTwo
        <4> QED BY <3>1, <3>3, <4>1, <4>2, <4>3, <4>4 DEF Spans
      <3>5. Judge.do # "lower" /\ \A S : Clear(S).do # "lower" BY DEF Judge, Clear
      <3>6. IsSeq(<<st>>) /\ IsSeq(Judged(st)) BY OneAndTwo DEF Judged
      <3>7. Head(Judged(st)).do # "lower" BY <3>2, <3>5, <3>6 DEF Judged
      <3>8. \A S, r : IsSeq(r) => Head(<<Clear(S)>> \o r).do # "lower" BY <3>2, <3>5
      <3>9. \A r : IsSeq(r) => Head(<<Judge>> \o r).do # "lower" /\ IsSeq(<<Judge>> \o r)
        BY <3>2, <3>5, OneAndTwo
      <3>10. \A s : Head(<<[do |-> "dissolve", screen |-> s]>> \o <<st>>).do # "lower"
        <4> TAKE s
        <4>1. PICK d : d = [do |-> "dissolve", screen |-> s] OBVIOUS
        <4>2. Head(<<d>> \o <<st>>) = d BY <3>2, <3>6
        <4>3. d.do # "lower" BY <4>1
        <4> QED BY <4>1, <4>2, <4>3
      <3>11. CASE Splitting(todo[c], st) BY <3>11, <3>1, <3>3, <3>6, <3>7, <3>8 DEF Splitting
      <3>12. CASE Omitting(todo[c], st) BY <3>12, <3>1, <3>3, <3>7, <3>10 DEF Omitting
      <3>13. CASE Laying(todo[c], st) BY <3>13, <3>1, <3>3, <3>7 DEF Laying
      <3>14. CASE Dressing(todo[c], st) BY <3>14, <3>1, <3>3, <3>7 DEF Dressing
      <3>15. CASE Regrouping(todo[c], st)
        BY <3>15, <3>1, <3>3, <3>4, <3>7, <3>8, <3>9 DEF Regrouping, Combined
      <3> QED BY <2>3, <3>11, <3>12, <3>13, <3>14, <3>15 DEF Phasing
    <2>4. PICK id : /\ todo[c] = <<[do |-> "lower", id |-> id]>>
                    /\ scenes[id] # NoScene => Identical(scenes[id])
      BY <2>2, <2>3 DEF Landing, Landed
    <2>5. Head(todo[c]).id = id
      <3>1. PICK a : a = [do |-> "lower", id |-> id] OBVIOUS
      <3>2. Head(<<a>>) = a BY OneAndTwo
      <3>3. a.id = id BY <3>1
      <3> QED BY <2>4, <3>1, <3>2, <3>3
    <2> QED BY <2>4, <2>5
  <1> QED BY <1>1, <1>2, <1>3, PTL DEF Spec

-----------------------------------------------------------------------------
(* What a wall shows.  Its members have its source, each with the piece for *)
(* where f has them among the others; g is what the screens show.           *)

PieceOf(w, f, s) ==
    LET cells == CellsOf(f, w.members)
    IN  <<f[s].cell - Min(cells), Max(cells) - Min(cells) + 1>>

Spread(w, f, g) ==
    w.source # Dark =>
        \A s \in w.members : g[s] = [what |-> w.source, wall |-> w.id, piece |-> PieceOf(w, f, s)]

(* Every wall does but those of the screens X, and a screen that shows a     *)
(* piece is in the wall it is of, but for the screens P that are about to be *)
(* blanked.                                                                 *)
Owned(P) ==
    \A s \in Screen : slice[s].wall # NoWall =>
        s \in P \/ \E w \in walls : w.id = slice[s].wall /\ s \in w.members

SpreadBut(f, X, P) ==
    /\ \A w \in walls : w.members \cap X = {} =>
           Spread(w, f, slice) /\ (w.source # Dark => w.members \cap P = {})
    /\ Owned(P)

(* What the next step of a continuation makes up for. *)
Unsettled == {"dissolve", "shift", "clear", "raze", "forget"}

Arrived(a) == [s \in Screen |-> IF s \in a.left THEN a.to[s] ELSE at[s]]

Spreading(a) ==
    /\ a.do \notin Unsettled => SpreadBut(at, {}, {})
    /\ a.do = "dissolve" => SpreadBut(at, {a.screen}, {})
    /\ a.do = "shift" => SpreadBut(Arrived(a), {}, {})
    /\ a.do = "clear" => SpreadBut(at, {}, a.screens)
    /\ a.do = "raze" => /\ "members" \in DOMAIN a /\ a.left \subseteq walls
                        /\ SpreadBut(at, {}, a.members)
    /\ a.do = "forget" => SpreadBut(at, {}, a.members \cup {a.screen})

SpreadStage(q) ==
    /\ q = <<>> => SpreadBut(at, {}, {})
    /\ q # <<>> => Spreading(Head(q)) /\ Without(Tail(q), "clear")

SpreadInv ==
    /\ WholeInv
    /\ \A c \in Client : SpreadStage(todo[c])
    /\ Quiet => SpreadBut(at, {}, {})

SpreadKept(c) == \E q : todo' = [todo EXCEPT ![c] = q] /\ SpreadStage(q)'

-----------------------------------------------------------------------------
(* What keeps walls spread. *)

LEMMA SpreadSame ==
    ASSUME NEW w, NEW f, NEW g, NEW h, NEW k, Spread(w, f, g),
           \A s \in w.members : h[s] = f[s] /\ k[s] = g[s]
    PROVE  Spread(w, h, k)
  <1>1. CellsOf(h, w.members) = CellsOf(f, w.members) BY DEF CellsOf
  <1>2. \A s \in w.members : PieceOf(w, h, s) = PieceOf(w, f, s) BY <1>1 DEF PieceOf
  <1> QED BY <1>2 DEF Spread

(* Screens in no wall move. *)
LEMMA SpreadMoved ==
    ASSUME SpreadBut(at, {}, {}), \A w \in walls : \A s \in w.members : at'[s] = at[s],
           UNCHANGED <<walls, slice>>
    PROVE  SpreadBut(at, {}, {})'
  <1>1. \A w \in walls : Spread(w, at, slice) BY DEF SpreadBut
  <1>2. \A w \in walls : Spread(w, at', slice) BY <1>1, SpreadSame
  <1>3. Owned({})' BY DEF SpreadBut, Owned
  <1> QED BY <1>2, <1>3 DEF SpreadBut

(* A wall goes, and its members will be blanked. *)
LEMMA SpreadLost ==
    ASSUME Apart(walls), NEW X, NEW P, SpreadBut(at, X, P), NEW w \in walls, X \subseteq w.members,
           walls' = walls \ {w}, UNCHANGED <<at, slice>>, NEW Q, Q = P \cup w.members
    PROVE  SpreadBut(at, {}, Q)'
  <1>1. ASSUME NEW v \in walls'
        PROVE  Spread(v, at, slice) /\ (v.source # Dark => v.members \cap Q = {})
    <2>1. v \in walls /\ v.members \cap w.members = {} BY DEF Apart
    <2>2. v.members \cap X = {} BY <2>1
    <2> QED BY <2>1, <2>2 DEF SpreadBut
  <1>2. Owned(Q)' BY DEF SpreadBut, Owned
  <1> QED BY <1>1, <1>2 DEF SpreadBut

(* A dark wall comes, and its members will be blanked. *)
LEMMA SpreadAdded ==
    ASSUME SpreadBut(at, {}, {}), NEW n, n.source = Dark, walls' = walls \cup {n},
           \A w \in walls : w.members \cap n.members = {},
           UNCHANGED <<at, slice>>, NEW Q, Q = n.members
    PROVE  SpreadBut(at, {}, Q)'
  <1>1. ASSUME NEW v \in walls'
        PROVE  Spread(v, at, slice) /\ (v.source # Dark => v.members \cap Q = {})
    <2>1. CASE v = n BY <2>1 DEF Spread
    <2>2. CASE v \in walls BY <2>2 DEF SpreadBut
    <2> QED BY <2>1, <2>2
  <1>2. Owned(Q)' BY DEF SpreadBut, Owned
  <1> QED BY <1>1, <1>2 DEF SpreadBut

(* Screens that show no piece can be blanked as well. *)
LEMMA SpreadLoose ==
    ASSUME TypeInv, SpreadBut(at, {}, {}), NEW B, \A s \in B : slice[s].wall = NoWall
    PROVE  SpreadBut(at, {}, B)
  <1>1. ASSUME NEW w \in walls, w.source # Dark, NEW s \in w.members PROVE s \notin B
    <2>1. Spread(w, at, slice) BY DEF SpreadBut
    <2>2. slice[s] = [what |-> w.source, wall |-> w.id, piece |-> PieceOf(w, at, s)]
      BY <1>1, <2>1 DEF Spread
    <2>4. slice[s].wall = w.id BY <2>2
    <2>3. w.id # NoWall BY WallsTyped, NullAssumption DEF TypeInv
    <2> QED BY <2>3, <2>4
  <1> QED BY <1>1 DEF SpreadBut, Owned

(* They are blanked. *)
LEMMA SpreadBlanked ==
    ASSUME TypeInv, NEW P, SpreadBut(at, {}, P), slice' = Blanked(P), UNCHANGED walls,
           \A w \in walls : \A s \in w.members : at'[s] = at[s]
    PROVE  SpreadBut(at, {}, {})'
  <1>1. /\ slice' = [s \in Screen |-> IF s \in P THEN Blank ELSE slice[s]] /\ Blank.wall = NoWall
    BY DEF Blanked, Blank
  <1>2. ASSUME NEW w \in walls PROVE Spread(w, at', slice')
    <2>1. CASE w.source = Dark BY <2>1 DEF Spread
    <2>2. CASE w.source # Dark
      <3>1. Spread(w, at, slice) /\ w.members \cap P = {} BY <2>2 DEF SpreadBut
      <3>2. w.members \subseteq Screen BY WallsTyped DEF TypeInv
      <3>3. \A s \in w.members : slice'[s] = slice[s] BY <1>1, <3>1, <3>2
      <3> QED BY <3>1, <3>3, SpreadSame
    <2> QED BY <2>1, <2>2
  <1>3. Owned({})'
    <2> SUFFICES ASSUME NEW s \in Screen, slice'[s].wall # NoWall
                 PROVE  \E w \in walls : w.id = slice'[s].wall /\ s \in w.members
      BY DEF Owned
    <2>1. s \notin P /\ slice'[s] = slice[s] BY <1>1
    <2> QED BY <2>1 DEF SpreadBut, Owned
  <1> QED BY <1>2, <1>3 DEF SpreadBut

(* A screen in no wall is given something of its own (setScreenContent). *)
LEMMA SpreadShown ==
    ASSUME TypeInv, SpreadBut(at, {}, {}), NEW s, ~Walled(s), NEW x, x.wall = NoWall,
           slice' = [slice EXCEPT ![s] = x], UNCHANGED <<at, walls>>
    PROVE  SpreadBut(at, {}, {})'
  <1>1. \A t \in Screen : slice'[t] = IF t = s THEN x ELSE slice[t]
    BY DEF TypeInv, LayoutTyped
  <1>2. ASSUME NEW w \in walls PROVE Spread(w, at, slice')
    <2>1. s \notin w.members /\ w.members \subseteq Screen
      BY WallsTyped DEF TypeInv, Walled, WallsOf
    <2>2. \A t \in w.members : slice'[t] = slice[t] BY <1>1, <2>1
    <2>3. Spread(w, at, slice) BY DEF SpreadBut
    <2> QED BY <2>2, <2>3, SpreadSame
  <1>3. Owned({})' BY <1>1 DEF SpreadBut, Owned
  <1> QED BY <1>2, <1>3 DEF SpreadBut

(* A wall that is whole is given a source, or none (setWallContent). *)
LEMMA SpreadSpanned ==
    ASSUME TypeInv, Apart(walls), AllWhole, SpreadBut(at, {}, {}), NEW w \in walls, NEW what \in What,
           NEW n, n = [w EXCEPT !.source = IF what \in Source THEN what ELSE Dark],
           walls' = (walls \ {w}) \cup {n}, slice' = Spanned(w, what), UNCHANGED at
    PROVE  SpreadBut(at, {}, {})'
  <1>1. w \in Wall /\ w.members \subseteq Screen BY WallsTyped DEF TypeInv
  <1>2. /\ n.id = w.id /\ n.members = w.members
        /\ n.source = IF what \in Source THEN what ELSE Dark
    BY <1>1 DEF Wall
  <1>3. {s \in w.members : at[s].mural = w.mural} = w.members BY DEF AllWhole, Whole3
  <1>4. \A s \in Screen : slice'[s] = IF s \in w.members
                                      THEN [what |-> what, wall |-> w.id, piece |-> PieceOf(w, at, s)]
                                      ELSE slice[s]
    BY <1>3 DEF Spanned, PieceOf
  <1>5. \A s \in w.members : PieceOf(n, at, s) = PieceOf(w, at, s) BY <1>2 DEF PieceOf
  <1>6. Spread(n, at, slice') BY <1>1, <1>2, <1>4, <1>5 DEF Spread
  <1>7. ASSUME NEW v \in walls \ {w} PROVE Spread(v, at, slice')
    <2>1. v.members \subseteq Screen /\ v.members \cap w.members = {}
      BY WallsTyped DEF TypeInv, Apart
    <2>2. \A s \in v.members : slice'[s] = slice[s] BY <1>4, <2>1
    <2>3. Spread(v, at, slice) BY DEF SpreadBut
    <2> QED BY <2>2, <2>3, SpreadSame
  <1>8. Owned({})'
    <2> SUFFICES ASSUME NEW s \in Screen, slice'[s].wall # NoWall
                 PROVE  \E v \in walls' : v.id = slice'[s].wall /\ s \in v.members
      BY DEF Owned
    <2>1. CASE s \in w.members
      <3>2. slice'[s] = [what |-> what, wall |-> w.id, piece |-> PieceOf(w, at, s)] BY <1>4, <2>1
      <3>1. slice'[s].wall = w.id BY <3>2
      <3> QED BY <1>2, <2>1, <3>1
    <2>2. CASE s \notin w.members
      <3>1. slice'[s] = slice[s] BY <1>4, <2>2
      <3>2. PICK v \in walls : v.id = slice[s].wall /\ s \in v.members
        BY <3>1 DEF SpreadBut, Owned
      <3> QED BY <2>2, <3>1, <3>2
    <2> QED BY <2>1, <2>2
  <1> QED BY <1>6, <1>7, <1>8 DEF SpreadBut

(* A wall loses its source, and its members are blanked with others that show *)
(* no piece (clearWallContent, deleteContentSource).                         *)
LEMMA SpreadUnspanned ==
    ASSUME TypeInv, Apart(walls), SpreadBut(at, {}, {}), NEW w \in walls,
           NEW B, \A s \in B : slice[s].wall = NoWall,
           walls' = (walls \ {w}) \cup {[w EXCEPT !.source = Dark]},
           slice' = Blanked(B \cup w.members), UNCHANGED at
    PROVE  SpreadBut(at, {}, {})'
  <1> DEFINE n == [w EXCEPT !.source = Dark]
  <1>1. w \in Wall /\ w.members \subseteq Screen BY WallsTyped DEF TypeInv
  <1>2. n.source = Dark BY <1>1 DEF Wall
  <1> HIDE DEF n
  <1>3. walls' = (walls \ {w}) \cup {n} BY DEF n
  <1>4. /\ \A s \in Screen : slice'[s] = IF s \in B \cup w.members THEN Blank ELSE slice[s]
        /\ Blank.wall = NoWall
    BY DEF Blanked, Blank
  <1>5. ASSUME NEW v \in walls \ {w} PROVE Spread(v, at, slice')
    <2>1. CASE v.source = Dark BY <2>1 DEF Spread
    <2>2. CASE v.source # Dark
      <3>1. v.members \subseteq Screen /\ v.members \cap w.members = {}
        BY WallsTyped DEF TypeInv, Apart
      <3>2. v.members \cap B = {}
        <4>1. SpreadBut(at, {}, B) BY SpreadLoose
        <4> QED BY <2>2, <4>1 DEF SpreadBut
      <3>3. \A s \in v.members : slice'[s] = slice[s] BY <1>4, <3>1, <3>2
      <3>4. Spread(v, at, slice) BY DEF SpreadBut
      <3>5. \A s \in v.members : at[s] = at[s] /\ slice'[s] = slice[s] BY <3>3
      <3> QED BY <3>4, <3>5, SpreadSame
    <2> QED BY <2>1, <2>2
  <1>6. Spread(n, at, slice') BY <1>2 DEF Spread
  <1>7. Owned({})'
    <2> SUFFICES ASSUME NEW s \in Screen, slice'[s].wall # NoWall
                 PROVE  \E v \in walls' : v.id = slice'[s].wall /\ s \in v.members
      BY DEF Owned
    <2>1. s \notin w.members /\ slice'[s] = slice[s] BY <1>4
    <2>2. PICK v \in walls : v.id = slice[s].wall /\ s \in v.members
      BY <2>1 DEF SpreadBut, Owned
    <2> QED BY <1>3, <2>1, <2>2
  <1> QED BY <1>3, <1>5, <1>6, <1>7 DEF SpreadBut

-----------------------------------------------------------------------------
(* Continuations whose first step makes up for nothing. *)

Settled(q) == Without(q, "clear") /\ (q # <<>> => Head(q).do \notin Unsettled)

LEMMA SettledNone == Settled(<<>>)
  BY WithoutEmpty DEF Settled

LEMMA SettledPush ==
    ASSUME NEW r, Without(r, "clear")
    PROVE  \A a : "do" \in DOMAIN a /\ a.do \notin Unsettled => Settled(<<a>> \o r)
  <1> SUFFICES ASSUME NEW a, "do" \in DOMAIN a, a.do \notin Unsettled PROVE Settled(<<a>> \o r)
    OBVIOUS
  <1>1. IsSeq(r) BY DEF Without
  <1>2. Head(<<a>> \o r) = a BY <1>1, HeadPushed
  <1>3. Other(a, "clear") BY DEF Other, Unsettled
  <1>4. Without(<<a>> \o r, "clear") BY <1>3, WithoutPush
  <1> QED BY <1>2, <1>4 DEF Settled

LEMMA SettledSteps ==
    ASSUME NEW r, Without(r, "clear")
    PROVE  /\ <<>> \o r = r
           /\ Settled(<<Judge>> \o r)
           /\ \A x : Settled(<<[do |-> "rejudge", left |-> x]>> \o r)
           /\ \A id, x : Settled(<<[do |-> "unlist", source |-> id, left |-> x]>> \o r)
           /\ \A m, x : Settled(<<[do |-> "evict", mural |-> m, left |-> x]>> \o r)
           /\ \A m : Settled(<<[do |-> "close", mural |-> m]>> \o r)
           /\ \A id : Settled(<<[do |-> "lower", id |-> id]>> \o r)
  <1>1. IsSeq(r) BY DEF Without
  <1>2. <<>> \o r = r BY <1>1, Glued
  <1>3. Settled(<<Judge>> \o r) BY SettledPush DEF Judge, Unsettled
  <1>4. \A x : Settled(<<[do |-> "rejudge", left |-> x]>> \o r) BY SettledPush DEF Unsettled
  <1>5. \A id, x : Settled(<<[do |-> "unlist", source |-> id, left |-> x]>> \o r)
    BY SettledPush DEF Unsettled
  <1>6. \A m, x : Settled(<<[do |-> "evict", mural |-> m, left |-> x]>> \o r)
    BY SettledPush DEF Unsettled
  <1>7. \A m : Settled(<<[do |-> "close", mural |-> m]>> \o r) BY SettledPush DEF Unsettled
  <1>8. \A id : Settled(<<[do |-> "lower", id |-> id]>> \o r) BY SettledPush DEF Unsettled
  <1> QED BY <1>2, <1>3, <1>4, <1>5, <1>6, <1>7, <1>8

LEMMA SettledRest ==
    ASSUME NEW q, NEW W, Later(q, W), Without(q, "clear")
    PROVE  Settled(q)
  <1> SUFFICES ASSUME q # <<>> PROVE Head(q).do \notin Unsettled
    BY DEF Settled
  <1>1. Head(q).do \notin Heads BY LaterHead
  <1>2. Head(q).do # "clear" BY WithoutTail DEF Other
  <1> QED BY <1>1, <1>2 DEF Heads, Unsettled

SettledNext(c) == \E q : Settled(q) /\ todo' = [todo EXCEPT ![c] = q]

LEMMA SettledKept ==
    ASSUME NEW c, SettledNext(c), SpreadBut(at, {}, {})'
    PROVE  SpreadKept(c)
  <1>1. PICK q : Settled(q) /\ todo' = [todo EXCEPT ![c] = q] BY DEF SettledNext
  <1>2. SpreadStage(q)'
    <2>1. q # <<>> => Without(Tail(q), "clear") BY <1>1, WithoutTail DEF Settled
    <2>2. q # <<>> => Spreading(Head(q))' BY <1>1 DEF Settled, Spreading, Unsettled
    <2> QED BY <2>1, <2>2 DEF SpreadStage
  <1> QED BY <1>1, <1>2 DEF SpreadKept

(* The step that comes next makes up for what is missing. *)
LEMMA UnsettledKept ==
    ASSUME NEW c, NEW a, NEW r, Without(r, "clear"), Then(c, <<a>> \o r), Spreading(a)'
    PROVE  SpreadKept(c)
  <1>1. IsSeq(r) BY DEF Without
  <1>2. PICK q : q = <<a>> \o r OBVIOUS
  <1>3. q # <<>> /\ Head(q) = a /\ Tail(q) = r BY <1>1, <1>2, HeadPushed
  <1>4. SpreadStage(q)' BY <1>3 DEF SpreadStage
  <1> QED BY <1>2, <1>4 DEF SpreadKept, Then

LEMMA ClearKept ==
    ASSUME NEW c, NEW S, NEW r, Without(r, "clear"), Then(c, <<Clear(S), Judge>> \o r),
           SpreadBut(at, {}, S)'
    PROVE  SpreadKept(c)
  <1>1. PICK a : a = Clear(S) OBVIOUS
  <1>2. a.do = "clear" /\ a.screens = S BY <1>1 DEF Clear
  <1>3. Spreading(a)' BY <1>2 DEF Spreading, Unsettled
  <1>4. Without(<<Judge>> \o r, "clear") BY SettledSteps DEF Settled
  <1>5. <<Clear(S), Judge>> \o r = <<a>> \o (<<Judge>> \o r)
    <2>1. IsSeq(r) BY DEF Without
    <2> QED BY <1>1, <2>1, PairGlued
  <1> QED BY <1>3, <1>4, <1>5, UnsettledKept

-----------------------------------------------------------------------------
(* The handlers. *)

LEMMA SplitSpreads ==
    ASSUME Apart(walls), SpreadBut(at, {}, {}), NEW c, NEW w \in walls, NEW r, Without(r, "clear"),
           SplitWall(c, w, r)
    PROVE  SpreadKept(c)
  <1>1. walls' = walls \ {w} /\ UNCHANGED <<at, slice>> /\ Then(c, <<Clear(w.members), Judge>> \o r)
    BY DEF SplitWall
  <1>2. PICK S : S = w.members OBVIOUS
  <1>3. S = {} \cup w.members BY <1>2
  <1>4. SpreadBut(at, {}, S)' BY <1>1, <1>3, SpreadLost
  <1> QED BY <1>1, <1>2, <1>4, ClearKept

LEMMA NewWallSpreads ==
    ASSUME TypeInv, SpreadBut(at, {}, {}), NEW c, NEW m, NEW S, NEW id, NEW r, Without(r, "clear"),
           Combinable(m, S), NewWall(c, m, S, id, r), UNCHANGED <<at, slice>>
    PROVE  SpreadKept(c)
  <1> DEFINE n == [id |-> id, mural |-> m, members |-> S, source |-> Dark]
  <1>1. n.members = S /\ n.source = Dark OBVIOUS
  <1> HIDE DEF n
  <1>2. walls' = walls \cup {n} /\ Then(c, <<Clear(S), Judge>> \o r) BY DEF NewWall, n
  <1>3. \A w \in walls : w.members \cap n.members = {}
    BY <1>1 DEF Combinable, Walled, WallsOf
  <1>4. SpreadBut(at, {}, S)' BY <1>1, <1>2, <1>3, SpreadAdded
  <1> QED BY <1>2, <1>4, ClearKept

LEMMA SpanSpreads ==
    ASSUME TypeInv, Apart(walls), AllWhole, SpreadBut(at, {}, {}), NEW c, NEW w \in walls,
           NEW what \in What, NEW r, Without(r, "clear"), SpanWall(c, w, what, r)
    PROVE  SpreadKept(c)
  <1>1. PICK n : n = [w EXCEPT !.source = IF what \in Source THEN what ELSE Dark] OBVIOUS
  <1>2. /\ walls' = (walls \ {w}) \cup {n} /\ slice' = Spanned(w, what) /\ UNCHANGED at
        /\ Then(c, <<Judge>> \o r)
    BY <1>1 DEF SpanWall
  <1>3. SpreadBut(at, {}, {})' BY <1>1, <1>2, SpreadSpanned
  <1>4. SettledNext(c) BY <1>2, SettledSteps DEF SettledNext, Then
  <1> QED BY <1>3, <1>4, SettledKept

LEMMA ShowSpreads ==
    ASSUME TypeInv, SpreadBut(at, {}, {}), NEW c, NEW s, ~Walled(s), NEW what, NEW r,
           Without(r, "clear"), ShowOn(c, s, what, r)
    PROVE  SpreadKept(c)
  <1>1. PICK x : x = [what |-> what, wall |-> NoWall, piece |-> Whole] OBVIOUS
  <1>2. x.wall = NoWall BY <1>1
  <1>3. /\ slice' = [slice EXCEPT ![s] = x] /\ UNCHANGED <<at, walls>> /\ Then(c, <<Judge>> \o r)
    BY <1>1 DEF ShowOn
  <1>4. SpreadBut(at, {}, {})' BY <1>2, <1>3, SpreadShown
  <1>5. SettledNext(c) BY <1>3, SettledSteps DEF SettledNext, Then
  <1> QED BY <1>4, <1>5, SettledKept

(* What leaves the layout alone. *)
LEMMA NothingSpreads ==
    ASSUME SpreadBut(at, {}, {}), UNCHANGED <<at, walls, slice>>, NEW c, SettledNext(c)
    PROVE  SpreadKept(c)
  <1>1. SpreadBut(at, {}, {})' BY DEF SpreadBut, Owned
  <1> QED BY <1>1, SettledKept

LEMMA RejudgeSpreads ==
    ASSUME SpreadBut(at, {}, {}), UNCHANGED <<at, walls, slice>>, NEW c, NEW left, NEW r, Settled(r),
           Rejudge(c, left, r)
    PROVE  SpreadKept(c)
  <1>1. SettledNext(c) BY SettledSteps DEF Rejudge, SettledNext, Then, Settled
  <1> QED BY <1>1, NothingSpreads

LEMMA UnspanSpreads ==
    ASSUME TypeInv, Apart(walls), SpreadBut(at, {}, {}), NEW c, NEW id, NEW left, NEW B, NEW r,
           Settled(r), \A s \in B : slice[s].wall = NoWall, Unspan(c, id, left, B, r), UNCHANGED at
    PROVE  SpreadKept(c)
  <1>1. SettledNext(c) BY SettledSteps DEF Unspan, SettledNext, Then, Settled
  <1>2. CASE \E w \in walls : /\ slice' = Blanked(B \cup w.members)
                              /\ walls' = (walls \ {w}) \cup {[w EXCEPT !.source = Dark]}
    <2>1. SpreadBut(at, {}, {})' BY <1>2, SpreadUnspanned
    <2> QED BY <1>1, <2>1, SettledKept
  <1>3. CASE slice' = Blanked(B) /\ UNCHANGED walls
    <2>1. SpreadBut(at, {}, B) BY SpreadLoose
    <2>2. SpreadBut(at, {}, {})' BY <1>3, <2>1, SpreadBlanked
    <2> QED BY <1>1, <2>2, SettledKept
  <1> QED BY <1>2, <1>3 DEF Unspan

LEMMA PackOneSpreads ==
    ASSUME TypeInv, SpreadBut(at, {}, {}), NEW c, NEW st, "do" \in DOMAIN st, st.do = "pack",
           Combinable(st.mural, st.members), st.left \subseteq st.members, NEW r, Without(r, "clear"),
           PackOne(c, st, r)
    PROVE  SpreadKept(c)
  <1>1. PICK s \in st.left : /\ at' = [at EXCEPT ![s] = [mural |-> st.mural, cell |-> st.to[s]]]
                             /\ Then(c, <<[st EXCEPT !.left = @ \ {s}]>> \o r)
                             /\ UNCHANGED <<walls, slice>>
    BY DEF PackOne
  <1> DEFINE a == [st EXCEPT !.left = @ \ {s}]
  <1>2. a.do = "pack" /\ DOMAIN a = DOMAIN st OBVIOUS
  <1>3. Then(c, <<a>> \o r) BY <1>1
  <1> HIDE DEF a
  <1>4. SettledNext(c) BY <1>2, <1>3, SettledPush DEF SettledNext, Then, Unsettled
  <1>5. \A w \in walls : \A t \in w.members : t # s /\ t \in Screen
    BY WallsTyped DEF TypeInv, Combinable, Walled, WallsOf
  <1>6. \A w \in walls : \A t \in w.members : at'[t] = at[t]
    BY <1>1, <1>5 DEF TypeInv, LayoutTyped
  <1>7. SpreadBut(at, {}, {})' BY <1>1, <1>6, SpreadMoved
  <1> QED BY <1>4, <1>7, SettledKept

LEMMA ShiftSpreads ==
    ASSUME TypeInv, NEW c, NEW to, NEW left, NEW r, Settled(r),
           SpreadBut([s \in Screen |-> IF s \in left THEN to[s] ELSE at[s]], {}, {}),
           Shift(c, to, left, r)
    PROVE  SpreadKept(c)
  <1> DEFINE then == [s \in Screen |-> IF s \in left THEN to[s] ELSE at[s]]
  <1>1. PICK s \in left :
            /\ at' = [at EXCEPT ![s] = to[s]]
            /\ Then(c, (IF left = {s} THEN <<>>
                        ELSE <<[do |-> "shift", to |-> to, left |-> left \ {s}]>>) \o r)
            /\ UNCHANGED <<walls, slice>>
    BY DEF Shift
  <1>2. \A t \in Screen : at'[t] = IF t = s THEN to[s] ELSE at[t] BY <1>1 DEF TypeInv, LayoutTyped
  <1>3. CASE left = {s}
    <2>1. ASSUME NEW w \in walls PROVE Spread(w, at', slice)
      <3>1. Spread(w, then, slice) BY DEF SpreadBut
      <3>2. w.members \subseteq Screen BY WallsTyped DEF TypeInv
      <3>3. \A t \in w.members : at'[t] = then[t] /\ slice[t] = slice[t] BY <1>2, <1>3, <3>2
      <3> HIDE DEF then
      <3> QED BY <3>1, <3>3, SpreadSame
    <2>2. Owned({})' BY <1>1 DEF SpreadBut, Owned
    <2>3. SpreadBut(at, {}, {})' BY <1>1, <2>1, <2>2 DEF SpreadBut
    <2>4. Then(c, r) BY <1>1, <1>3, SettledSteps DEF Settled
    <2>5. SettledNext(c) BY <2>4 DEF SettledNext, Then
    <2> QED BY <2>3, <2>5, SettledKept
  <1>4. CASE left # {s}
    <2> DEFINE a == [do |-> "shift", to |-> to, left |-> left \ {s}]
    <2>1. a.do = "shift" /\ a.to = to /\ a.left = left \ {s} OBVIOUS
    <2>2. Then(c, <<a>> \o r) BY <1>1, <1>4
    <2> HIDE DEF a
    <2>3. Arrived(a)' = then
      <3>1. \A t \in Screen : (IF t \in a.left THEN a.to[t] ELSE at'[t]) = then[t] BY <1>2, <2>1
      <3>2. Arrived(a)' = [t \in Screen |-> then[t]] BY <3>1 DEF Arrived
      <3> QED BY <3>2
    <2>4. SpreadBut(then, {}, {}) OBVIOUS
    <2> HIDE DEF then
    <2>5. \A w \in walls : Spread(w, then, slice) BY <2>4 DEF SpreadBut
    <2>6. SpreadBut(Arrived(a), {}, {})'
      <3>1. \A w \in walls' : Spread(w, Arrived(a)', slice') BY <1>1, <2>3, <2>5
      <3>2. Owned({})' BY <1>1, <2>4 DEF SpreadBut, Owned
      <3> QED BY <3>1, <3>2 DEF SpreadBut
    <2>7. Spreading(a)' BY <2>1, <2>6 DEF Spreading, Unsettled
    <2> QED BY <2>2, <2>7, UnsettledKept DEF Settled
  <1> QED BY <1>3, <1>4

LEMMA EvictSpreads ==
    ASSUME TypeInv, AllWhole, NEW P, SpreadBut(at, {}, P), slice' = Blanked(P), UNCHANGED walls,
           NEW c, NEW m \in Mural, WallsOn(m) = {}, NEW r, Without(r, "clear"),
           Evict(c, m, OnMural(m), r)
    PROVE  SpreadKept(c)
  <1>1. \A w \in walls : \A s \in w.members : at'[s] = at[s]
    <2>1. CASE \E s \in OnMural(m) : at' = [at EXCEPT ![s] = Tray]
      <3>1. PICK s \in OnMural(m) : at' = [at EXCEPT ![s] = Tray] BY <2>1
      <3>2. \A w \in walls : s \notin w.members
        BY <3>1 DEF OnMural, AllWhole, Whole3, WallsOn
      <3>3. \A w \in walls : w.members \subseteq Screen BY WallsTyped DEF TypeInv
      <3> QED BY <3>1, <3>2, <3>3 DEF TypeInv, LayoutTyped
    <2> QED BY <2>1 DEF Evict
  <1>2. SpreadBut(at, {}, {})' BY <1>1, SpreadBlanked
  <1>3. SettledNext(c) BY SettledSteps DEF Evict, SettledNext, Then
  <1> QED BY <1>2, <1>3, SettledKept

LEMMA RazeSpreads ==
    ASSUME TypeInv, Apart(walls), AllWhole, NEW c, NEW st, st.do = "raze",
           {"do", "mural", "left", "members"} \subseteq DOMAIN st, SpreadBut(at, {}, st.members),
           st.mural \in Mural, WallsOn(st.mural) \subseteq st.left, st.left \subseteq walls,
           NEW r, Without(r, "clear"), RazeWalls(c, st, r)
    PROVE  SpreadKept(c)
  <1>1. CASE \E w \in st.left :
                /\ walls' = {v \in walls : v.id # w.id}
                /\ Then(c, <<[st EXCEPT !.left = @ \ {w}, !.members = @ \cup w.members]>> \o r)
                /\ UNCHANGED <<slice, at>>
    <2>1. PICK w \in st.left :
                /\ walls' = {v \in walls : v.id # w.id}
                /\ Then(c, <<[st EXCEPT !.left = @ \ {w}, !.members = @ \cup w.members]>> \o r)
                /\ UNCHANGED <<slice, at>>
      BY <1>1
    <2> DEFINE a == [st EXCEPT !.left = @ \ {w}, !.members = @ \cup w.members]
    <2>2. /\ a.do = "raze" /\ a.left = st.left \ {w} /\ a.members = st.members \cup w.members
          /\ "members" \in DOMAIN a
      OBVIOUS
    <2>3. Then(c, <<a>> \o r) BY <2>1
    <2> HIDE DEF a
    <2>4. w \in walls /\ walls' = walls \ {w} BY <2>1 DEF Apart
    <2>5. SpreadBut(at, {}, a.members)' BY <2>1, <2>2, <2>4, SpreadLost
    <2>6. a.left \subseteq walls' BY <2>2, <2>4
    <2>7. Spreading(a)' BY <2>2, <2>5, <2>6 DEF Spreading, Unsettled
    <2> QED BY <2>3, <2>7, UnsettledKept
  <1>2. CASE /\ slice' = Blanked(st.members) /\ st.left = {}
             /\ Evict(c, st.mural, OnMural(st.mural), r) /\ UNCHANGED walls
    <2>1. WallsOn(st.mural) = {} BY <1>2
    <2> QED BY <1>2, <2>1, EvictSpreads
  <1> QED BY <1>1, <1>2 DEF RazeWalls

(* A screen in no wall goes anywhere. *)
LEMMA LooseSpreads ==
    ASSUME TypeInv, SpreadBut(at, {}, {}), NEW s, ~Walled(s), NEW x, at' = [at EXCEPT ![s] = x],
           UNCHANGED <<walls, slice>>, NEW c, SettledNext(c)
    PROVE  SpreadKept(c)
  <1>1. \A w \in walls : s \notin w.members /\ w.members \subseteq Screen
    BY WallsTyped DEF TypeInv, Walled, WallsOf
  <1>2. \A w \in walls : \A t \in w.members : at'[t] = at[t] BY <1>1 DEF TypeInv, LayoutTyped
  <1>3. SpreadBut(at, {}, {})' BY <1>2, SpreadMoved
  <1> QED BY <1>3, SettledKept

LEMMA UnplacedSpreads ==
    ASSUME TypeInv, SpreadBut(at, {}, {}), NEW s, at' = [at EXCEPT ![s] = Tray],
           UNCHANGED <<walls, slice>>, NEW c, NEW r, Without(r, "clear"),
           Then(c, <<[do |-> "dissolve", screen |-> s]>> \o r)
    PROVE  SpreadKept(c)
  <1>1. \A t \in Screen : t # s => at'[t] = at[t] BY DEF TypeInv, LayoutTyped
  <1>2. ASSUME NEW w \in walls, s \notin w.members PROVE Spread(w, at', slice')
    <2>1. Spread(w, at, slice) BY DEF SpreadBut
    <2>2. w.members \subseteq Screen BY WallsTyped DEF TypeInv
    <2>3. \A t \in w.members : at'[t] = at[t] /\ slice'[t] = slice[t] BY <1>1, <1>2, <2>2
    <2> QED BY <2>1, <2>3, SpreadSame
  <1>3. SpreadBut(at, {s}, {})'
    <2>1. Owned({})' BY DEF SpreadBut, Owned
    <2> QED BY <1>2, <2>1 DEF SpreadBut
  <1> DEFINE a == [do |-> "dissolve", screen |-> s]
  <1>4. a.do = "dissolve" /\ a.screen = s /\ Then(c, <<a>> \o r) OBVIOUS
  <1> HIDE DEF a
  <1>5. Spreading(a)' BY <1>3, <1>4 DEF Spreading, Unsettled
  <1> QED BY <1>4, <1>5, UnsettledKept

LEMMA DissolveSpreads ==
    ASSUME TypeInv, Apart(walls), NEW c, NEW st, SpreadBut(at, {st.screen}, {}), NEW r,
           Without(r, "clear"), Dissolve(c, st, r)
    PROVE  SpreadKept(c)
  <1>1. UNCHANGED <<at, slice>> BY DEF Dissolve
  <1>2. CASE Walled(st.screen)
    <2>1. PICK w : w = WallOf(st.screen) OBVIOUS
    <2>2. w \in walls /\ {st.screen} \subseteq w.members BY <1>2, <2>1, WallOfMember
    <2>3. walls' = walls \ {w} /\ Then(c, <<Clear(w.members), Judge>> \o r)
      BY <1>2, <2>1 DEF Dissolve
    <2>4. PICK Q : Q = w.members OBVIOUS
    <2>5. Q = {} \cup w.members BY <2>4
    <2>6. SpreadBut(at, {}, Q)' BY <1>1, <2>2, <2>3, <2>5, SpreadLost
    <2> QED BY <2>3, <2>4, <2>6, ClearKept
  <1>3. CASE ~Walled(st.screen)
    <2>1. UNCHANGED walls /\ Then(c, <<Judge>> \o r) BY <1>3 DEF Dissolve
    <2>2. \A w \in walls : st.screen \notin w.members BY <1>3 DEF Walled, WallsOf
    <2>3. SpreadBut(at, {}, {}) BY <2>2 DEF SpreadBut
    <2>4. SettledNext(c) BY <2>1, SettledSteps DEF SettledNext, Then
    <2> QED BY <1>1, <2>1, <2>3, <2>4, NothingSpreads
  <1> QED BY <1>2, <1>3

(* removeScreen, of a screen in no wall or one whose wall is gone by now. *)
LEMMA GoneSpreads ==
    ASSUME TypeInv, NEW c, NEW s, NEW members, ~Walled(s), SpreadBut(at, {}, members \cup {s}),
           Gone(c, s, members), UNCHANGED walls, SettledNext(c)
    PROVE  SpreadKept(c)
  <1>1. \A w \in walls : s \notin w.members /\ w.members \subseteq Screen
    BY WallsTyped DEF TypeInv, Walled, WallsOf
  <1>2. at' = [at EXCEPT ![s] = Tray] /\ slice' = Blanked(members \cup {s}) BY DEF Gone
  <1>3. \A w \in walls : \A t \in w.members : at'[t] = at[t] BY <1>1, <1>2 DEF TypeInv, LayoutTyped
  <1>4. SpreadBut(at, {}, {})' BY <1>2, <1>3, SpreadBlanked
  <1> QED BY <1>4, SettledKept

(* A screen in no wall shows no piece of one. *)
LEMMA LooseShowsNone ==
    ASSUME SpreadBut(at, {}, {}), NEW s \in Screen, ~Walled(s)
    PROVE  slice[s].wall = NoWall
  BY DEF SpreadBut, Owned, Walled, WallsOf

LEMMA ForgetSpreads ==
    ASSUME TypeInv, Apart(walls), SpreadBut(at, {}, {}), NEW c, NEW s \in Screen, Forget(c, s)
    PROVE  SpreadKept(c)
  <1>0. Without(<<>>, "clear") /\ <<Judge>> \o <<>> = <<Judge>> /\ IsSeq(<<>>)
    <2>1. Without(<<>>, "clear") BY WithoutEmpty
    <2>2. IsSeq(<<>>) BY <2>1 DEF Without
    <2> QED BY <2>1, <2>2, Glued
  <1>1. CASE Walled(s)
    <2>1. PICK w : w = WallOf(s) OBVIOUS
    <2>2. w \in walls /\ s \in w.members BY <1>1, <2>1, WallOfMember
    <2> DEFINE a == [do |-> "forget", screen |-> s, members |-> w.members]
    <2>3. walls' = walls \ {w} /\ UNCHANGED <<slice, at>> /\ Then(c, <<a, Judge>>)
      BY <1>1, <2>1 DEF Forget
    <2>4. a.do = "forget" /\ a.members \cup {a.screen} = w.members BY <2>2
    <2> HIDE DEF a
    <2>5. PICK Q : Q = w.members OBVIOUS
    <2>6. Q = {} \cup w.members BY <2>5
    <2>7. SpreadBut(at, {}, Q)' BY <2>2, <2>3, <2>6, SpreadLost
    <2>8. Spreading(a)' BY <2>4, <2>5, <2>7 DEF Spreading, Unsettled
    <2>9. Without(<<Judge>> \o <<>>, "clear") BY <1>0, SettledSteps DEF Settled
    <2>10. <<a, Judge>> = <<a>> \o (<<Judge>> \o <<>>) BY <1>0, Pair
    <2> QED BY <2>3, <2>8, <2>9, <2>10, UnsettledKept
  <1>2. CASE ~Walled(s)
    <2>1. Gone(c, s, {}) /\ Then(c, <<Judge>>) /\ UNCHANGED walls BY <1>2 DEF Forget
    <2>2. SettledNext(c) BY <1>0, <2>1, SettledSteps DEF SettledNext, Then
    <2>3. \A t \in {} \cup {s} : slice[t].wall = NoWall BY <1>2, LooseShowsNone
    <2>4. SpreadBut(at, {}, {} \cup {s}) BY <2>3, SpreadLoose
    <2> QED BY <1>2, <2>1, <2>2, <2>4, GoneSpreads
  <1> QED BY <1>1, <1>2

LEMMA NoneLeft ==
    Without(<<>>, "clear") /\ IsSeq(<<>>) /\ \A a : <<a>> \o <<>> = <<a>>
  <1>1. Without(<<>>, "clear") BY WithoutEmpty
  <1>2. IsSeq(<<>>) BY <1>1 DEF Without
  <1> QED BY <1>1, <1>2, Glued

LEMMA BlankSpreads ==
    ASSUME TypeInv, NEW P, SpreadBut(at, {}, P), slice' = Blanked(P), UNCHANGED <<at, walls>>,
           NEW c, SettledNext(c)
    PROVE  SpreadKept(c)
  <1>1. SpreadBut(at, {}, {})' BY SpreadBlanked
  <1> QED BY <1>1, SettledKept

LEMMA ClearScreenSpreads ==
    ASSUME TypeInv, SpreadBut(at, {}, {}), NEW c, NEW s \in Screen, ClearScreen(c, s), SettledNext(c)
    PROVE  SpreadKept(c)
  <1>1. ~Walled(s) /\ slice' = Blanked({s}) /\ UNCHANGED <<at, walls>> BY DEF ClearScreen
  <1>2. \A t \in {s} : slice[t].wall = NoWall BY <1>1, LooseShowsNone
  <1>3. SpreadBut(at, {}, {s}) BY <1>2, SpreadLoose
  <1> QED BY <1>1, <1>3, BlankSpreads

LEMMA ClearWallSpreads ==
    ASSUME TypeInv, Apart(walls), SpreadBut(at, {}, {}), NEW c, NEW w \in walls, ClearWall(c, w),
           SettledNext(c)
    PROVE  SpreadKept(c)
  <1>b. PICK B : B = {} OBVIOUS
  <1>1. /\ slice' = Blanked(B \cup w.members) /\ UNCHANGED at
        /\ walls' = (walls \ {w}) \cup {[w EXCEPT !.source = Dark]}
    <2>1. B \cup w.members = w.members BY <1>b
    <2> QED BY <2>1 DEF ClearWall
  <1>2. \A s \in B : slice[s].wall = NoWall BY <1>b
  <1>3. SpreadBut(at, {}, {})' BY <1>1, <1>2, SpreadUnspanned
  <1> QED BY <1>3, SettledKept

(* The pieces of a wall that moves as a whole are what they were. *)
LEMMA RowShifted ==
    ASSUME NEW C, C \subseteq Cell, C # {}, NEW d \in Int, NEW D, D = {x + d : x \in C},
           D \subseteq Cell
    PROVE  /\ Min(C) \in Int /\ Max(C) \in Int
           /\ Min(D) = Min(C) + d /\ Max(D) = Max(C) + d
  <1>0. LastCell \in Nat /\ C \subseteq Nat /\ D \subseteq Nat /\ D # {}
    <2>1. D # {} OBVIOUS
    <2>2. Cell \subseteq Nat BY LineAssumption DEF Cell
    <2> QED BY <2>1, <2>2, LineAssumption
  <1>1. Min(C) \in C /\ \A y \in C : Min(C) <= y BY <1>0, LeastCell
  <1>2. Max(C) \in C /\ \A y \in C : y <= Max(C) BY <1>0, GreatestCell DEF Cell
  <1>3. Min(D) \in D /\ \A y \in D : Min(D) <= y BY <1>0, LeastCell
  <1>4. Max(D) \in D /\ \A y \in D : y <= Max(D) BY <1>0, GreatestCell DEF Cell
  <1>5. ASSUME NEW a \in C, \A y \in C : a <= y, NEW b \in D, \A y \in D : b <= y
        PROVE  b = a + d
    <2>1. PICK x \in C : b = x + d OBVIOUS
    <2>2. a <= x /\ b <= a + d /\ a \in Nat /\ x \in Nat BY <1>0, <1>5
    <2> QED BY <2>1, <2>2
  <1>6. ASSUME NEW a \in C, \A y \in C : y <= a, NEW b \in D, \A y \in D : y <= b
        PROVE  b = a + d
    <2>1. PICK x \in C : b = x + d OBVIOUS
    <2>2. x <= a /\ a + d <= b /\ a \in Nat /\ x \in Nat BY <1>0, <1>6
    <2> QED BY <2>1, <2>2
  <1>7. Min(D) = Min(C) + d BY <1>1, <1>3, <1>5
  <1>8. Max(D) = Max(C) + d BY <1>2, <1>4, <1>6
  <1>9. Min(C) \in Nat /\ Max(C) \in Nat BY <1>0, <1>1, <1>2
  <1>10. Nat \subseteq Int OBVIOUS
  <1>11. Min(C) \in Int /\ Max(C) \in Int BY <1>9, <1>10, Zenon
  <1> QED BY <1>7, <1>8, <1>11, Zenon

LEMMA PieceShifted ==
    ASSUME NEW w, NEW f, NEW g, NEW d \in Int,
           \A s \in w.members : /\ f[s].cell \in Cell /\ g[s].cell \in Cell
                                /\ g[s].cell = f[s].cell + d
    PROVE  \A s \in w.members : PieceOf(w, g, s) = PieceOf(w, f, s)
  <1> SUFFICES ASSUME NEW s \in w.members PROVE PieceOf(w, g, s) = PieceOf(w, f, s) OBVIOUS
  <1> DEFINE C == CellsOf(f, w.members) D == CellsOf(g, w.members) x == f[s].cell
  <1>1. x \in C /\ C \subseteq Cell /\ D \subseteq Cell BY DEF CellsOf
  <1>2. D = {y + d : y \in C} BY DEF CellsOf
  <1>3. PieceOf(w, f, s) = <<x - Min(C), Max(C) - Min(C) + 1>> BY DEF PieceOf
  <1>4. PieceOf(w, g, s) = <<(x + d) - Min(D), Max(D) - Min(D) + 1>> BY DEF PieceOf
  <1>5. x \in Int BY <1>1, LineAssumption DEF Cell
  <1> HIDE DEF C, D, x
  <1>6. /\ Min(C) \in Int /\ Max(C) \in Int
        /\ Min(D) = Min(C) + d /\ Max(D) = Max(C) + d
    BY <1>1, <1>2, RowShifted
  <1>7. ASSUME NEW l \in Int, NEW h \in Int
        PROVE  <<(x + d) - (l + d), (h + d) - (l + d) + 1>> = <<x - l, h - l + 1>>
    <2>1. (x + d) - (l + d) = x - l /\ (h + d) - (l + d) + 1 = h - l + 1 BY <1>5
    <2> QED BY <2>1
  <1> QED BY <1>3, <1>4, <1>6, <1>7

LEMMA MoveSpreads ==
    ASSUME TypeInv, SpreadBut(at, {}, {}), NEW c, NEW m, NEW S \in SUBSET Screen, NEW dx \in {-1, 1},
           MoveKind(S) = "move", Move(c, m, S, dx)
    PROVE  SpreadKept(c)
  <1> DEFINE to == [s \in S |-> [mural |-> m, cell |-> at[s].cell + dx]]
             then == [s \in Screen |-> IF s \in S THEN to[s] ELSE at[s]]
  <1>1. (\A s \in S : to[s].cell \in Cell) /\ Shift(c, to, S, <<>>) BY DEF Move
  <1>2. \A s \in S : to[s].cell = at[s].cell + dx OBVIOUS
  <1>3. \A w \in walls : w.members \cap S \in {{}, w.members}
    BY DEF MoveKind
  <1> HIDE DEF to
  <1>4. \A s \in Screen : then[s] = IF s \in S THEN to[s] ELSE at[s] OBVIOUS
  <1>5. ASSUME NEW w \in walls PROVE Spread(w, then, slice)
    <2> HIDE DEF then
    <2>1. Spread(w, at, slice) /\ w.members \subseteq Screen
      BY WallsTyped DEF SpreadBut, TypeInv
    <2>2. CASE w.members \cap S = {}
      <3>1. \A t \in w.members : then[t] = at[t] /\ slice[t] = slice[t] BY <1>4, <2>1, <2>2
      <3> QED BY <2>1, <3>1, SpreadSame
    <2>3. CASE w.members \cap S = w.members
      <3>1. \A t \in w.members : t \in S /\ then[t] = to[t] BY <1>4, <2>1, <2>3
      <3>2. \A t \in w.members : at[t].cell \in Cell BY <2>1, CellsTyped DEF TypeInv
      <3>3. \A t \in w.members : /\ at[t].cell \in Cell /\ then[t].cell \in Cell
                                 /\ then[t].cell = at[t].cell + dx
        BY <1>1, <1>2, <3>1, <3>2
      <3>4. dx \in Int OBVIOUS
      <3>5. \A t \in w.members : PieceOf(w, then, t) = PieceOf(w, at, t)
        BY <3>3, <3>4, PieceShifted
      <3> QED BY <2>1, <3>5 DEF Spread
    <2> QED BY <1>3, <2>2, <2>3
  <1>6. SpreadBut(then, {}, {})
    <2>1. Owned({}) BY DEF SpreadBut
    <2> HIDE DEF then
    <2> QED BY <1>5, <2>1 DEF SpreadBut
  <1>7. Settled(<<>>) BY SettledNone
  <1> QED BY <1>1, <1>6, <1>7, ShiftSpreads

LEMMA PackSpreads ==
    ASSUME TypeInv, SpreadBut(at, {}, {}), NEW c, NEW m, NEW S, Pack(c, m, S)
    PROVE  SpreadKept(c)
  <1> DEFINE a == [do |-> "pack", mural |-> m, to |-> Packed(S), members |-> S, left |-> S]
  <1>1. Combinable(m, S) /\ PackOne(c, a, <<>>) BY DEF Pack
  <1>2. "do" \in DOMAIN a /\ a.do = "pack" /\ a.mural = m /\ a.members = S /\ a.left = S OBVIOUS
  <1> HIDE DEF a
  <1> QED BY <1>1, <1>2, NoneLeft, PackOneSpreads

LEMMA PackStepSpreads ==
    ASSUME TypeInv, SpreadBut(at, {}, {}), NEW c, NEW st, "do" \in DOMAIN st, st.do = "pack",
           Combinable(st.mural, st.members), st.left \subseteq st.members, NEW r, Without(r, "clear"),
           PackStep(c, st, r)
    PROVE  SpreadKept(c)
  <1>1. CASE PackOne(c, st, r) BY <1>1, PackOneSpreads
  <1>2. CASE \E id \in FreshWall : /\ NewWall(c, st.mural, st.members, id, r)
                                   /\ UNCHANGED <<at, slice>>
    BY <1>2, NewWallSpreads
  <1> QED BY <1>1, <1>2 DEF PackStep

-----------------------------------------------------------------------------
(* The phases of an apply. *)

LEMMA PhaseSettles ==
    ASSUME NEW st, {"id", "scene", "left", "do"} \subseteq DOMAIN st, st.do \in Phases
    PROVE  /\ \A x : Settled(<<Rest(st, x)>> \o <<>>)
           /\ \A name \in Phases : \A L : Settled(<<Phase(name, st, L)>> \o <<>>)
  <1>1. ASSUME NEW a, "do" \in DOMAIN a, a.do \in Phases PROVE Settled(<<a>> \o <<>>)
    <2>1. a.do \notin Unsettled BY <1>1 DEF Phases, ApplyPhases, Unsettled
    <2> QED BY <1>1, <2>1, NoneLeft, SettledPush
  <1>2. \A x : "do" \in DOMAIN Rest(st, x) /\ Rest(st, x).do = st.do BY DEF Rest
  <1>3. \A name, L : "do" \in DOMAIN Phase(name, st, L) /\ Phase(name, st, L).do = name
    BY DEF Phase
  <1> QED BY <1>1, <1>2, <1>3

LEMMA PhaseSpreads ==
    ASSUME SpreadBut(at, {}, {}), NEW c, NEW st, {"id", "scene", "left", "do"} \subseteq DOMAIN st,
           st.do \in Phases,
           \/ \E x : Skip(c, st, x, <<>>)
           \/ \E name \in Phases : \E L : Enter(c, name, st, L, <<>>)
    PROVE  SpreadKept(c)
  <1>1. SettledNext(c) /\ UNCHANGED <<at, walls, slice>>
    BY PhaseSettles DEF Skip, Enter, SettledNext, Then, layout
  <1> QED BY <1>1, NothingSpreads

LEMMA ResplitSpreads ==
    ASSUME Apart(walls), SpreadBut(at, {}, {}), NEW c, NEW st,
           {"id", "scene", "left", "do"} \subseteq DOMAIN st, st.do = "resplit", Resplit(c, st, <<>>)
    PROVE  SpreadKept(c)
  <1>0. st.do \in Phases /\ "omit" \in Phases BY DEF Phases, ApplyPhases
  <1>1. CASE \E x : Skip(c, st, x, <<>>) BY <1>0, <1>1, PhaseSpreads
  <1>2. CASE \E L : Enter(c, "omit", st, L, <<>>) BY <1>0, <1>2, PhaseSpreads
  <1>3. CASE \E x : \E w \in walls : SplitWall(c, w, <<Rest(st, x)>> \o <<>>)
    <2>1. PICK x : \E w \in walls : SplitWall(c, w, <<Rest(st, x)>> \o <<>>) BY <1>3
    <2>2. PICK r : r = <<Rest(st, x)>> \o <<>> OBVIOUS
    <2>3. PICK w \in walls : SplitWall(c, w, r) BY <2>1, <2>2
    <2>4. Without(r, "clear") BY <1>0, <2>2, PhaseSettles DEF Settled
    <2> QED BY <2>3, <2>4, SplitSpreads
  <1> QED BY <1>1, <1>2, <1>3 DEF Resplit, HasId

LEMMA OmitSpreads ==
    ASSUME TypeInv, SpreadBut(at, {}, {}), NEW c, NEW st,
           {"id", "scene", "left", "do"} \subseteq DOMAIN st, st.do = "omit", Omit(c, st, <<>>)
    PROVE  SpreadKept(c)
  <1>0. st.do \in Phases /\ "lay" \in Phases BY DEF Phases, ApplyPhases
  <1>1. CASE \E x : Skip(c, st, x, <<>>) BY <1>0, <1>1, PhaseSpreads
  <1>2. CASE \E L : Enter(c, "lay", st, L, <<>>) BY <1>0, <1>2, PhaseSpreads
  <1>3. CASE \E s : /\ at' = [at EXCEPT ![s] = Tray]
                    /\ Then(c, <<[do |-> "dissolve", screen |-> s], Rest(st, s)>> \o <<>>)
                    /\ UNCHANGED <<walls, slice>>
    <2>1. PICK s : /\ at' = [at EXCEPT ![s] = Tray]
                   /\ Then(c, <<[do |-> "dissolve", screen |-> s], Rest(st, s)>> \o <<>>)
                   /\ UNCHANGED <<walls, slice>>
      BY <1>3
    <2> DEFINE d == [do |-> "dissolve", screen |-> s] a == Rest(st, s)
    <2>2. Then(c, <<d, a>> \o <<>>) BY <2>1
    <2>3. Without(<<a>> \o <<>>, "clear") BY <1>0, PhaseSettles DEF Settled
    <2> HIDE DEF d, a
    <2>4. <<d, a>> \o <<>> = <<d>> \o (<<a>> \o <<>>) BY NoneLeft, PairGlued
    <2>5. PICK r : r = <<a>> \o <<>> OBVIOUS
    <2>6. Then(c, <<d>> \o r) /\ Without(r, "clear") BY <2>2, <2>3, <2>4, <2>5
    <2>7. Then(c, <<[do |-> "dissolve", screen |-> s]>> \o r) BY <2>6 DEF d
    <2> QED BY <2>1, <2>6, <2>7, UnplacedSpreads
  <1> QED BY <1>1, <1>2, <1>3 DEF Omit

LEMMA LaySpreads ==
    ASSUME TypeInv, SpreadBut(at, {}, {}), walls = {}, NEW c, NEW st,
           {"id", "scene", "left", "do"} \subseteq DOMAIN st, st.do = "lay", Lay(c, st, <<>>)
    PROVE  SpreadKept(c)
  <1>0. st.do \in Phases /\ "regroup" \in Phases BY DEF Phases, ApplyPhases
  <1>1. CASE \E x : Skip(c, st, x, <<>>) BY <1>0, <1>1, PhaseSpreads
  <1>2. CASE \E L : Enter(c, "regroup", st, L, <<>>) BY <1>0, <1>2, PhaseSpreads
  <1>3. CASE \E s : Then(c, <<Judge, Rest(st, s)>> \o <<>>) /\ UNCHANGED <<walls, slice>>
    <2>1. PICK s : Then(c, <<Judge, Rest(st, s)>> \o <<>>) /\ UNCHANGED <<walls, slice>> BY <1>3
    <2> DEFINE a == Rest(st, s)
    <2>2. Then(c, <<Judge, a>> \o <<>>) BY <2>1
    <2>3. Without(<<a>> \o <<>>, "clear") BY <1>0, PhaseSettles DEF Settled
    <2> HIDE DEF a
    <2>4. <<Judge, a>> \o <<>> = <<Judge>> \o (<<a>> \o <<>>) BY NoneLeft, PairGlued
    <2>5. SettledNext(c) BY <2>2, <2>3, <2>4, SettledSteps DEF SettledNext, Then
    <2>6. SpreadBut(at, {}, {})' BY <2>1, SpreadMoved
    <2> QED BY <2>5, <2>6, SettledKept
  <1> QED BY <1>1, <1>2, <1>3 DEF Lay

LEMMA RegroupSpreads ==
    ASSUME TypeInv, SpreadBut(at, {}, {}), NEW c, NEW st,
           {"id", "scene", "left", "do"} \subseteq DOMAIN st, st.do = "regroup", Regroup(c, st, <<>>)
    PROVE  SpreadKept(c)
  <1>0. st.do \in Phases /\ "dress" \in Phases BY DEF Phases, ApplyPhases
  <1>1. CASE \E x : Skip(c, st, x, <<>>) BY <1>0, <1>1, PhaseSpreads
  <1>2. CASE \E L : Enter(c, "dress", st, L, <<>>) BY <1>0, <1>2, PhaseSpreads
  <1>3. ASSUME NEW k, NEW m, NEW S, NEW id, Combinable(m, S), UNCHANGED <<at, slice>>,
               NewWall(c, m, S, id, (IF k.what = Dark THEN <<>> ELSE <<Respan(id, k.what)>>)
                                       \o <<Rest(st, k)>> \o <<>>)
        PROVE  SpreadKept(c)
    <2> DEFINE a == Rest(st, k) p == Respan(id, k.what)
               r == (IF k.what = Dark THEN <<>> ELSE <<p>>) \o <<a>> \o <<>>
    <2>1. NewWall(c, m, S, id, r) BY <1>3
    <2>2. Without(<<a>> \o <<>>, "clear") BY <1>0, PhaseSettles DEF Settled
    <2>3. Other(p, "clear") BY DEF Other, Respan
    <2> HIDE DEF a, p
    <2>4. Without(<<p>> \o (<<a>> \o <<>>), "clear") BY <2>2, <2>3, WithoutPush
    <2>5. (<<p>> \o <<a>>) \o <<>> = <<p>> \o (<<a>> \o <<>>) BY NoneLeft, PairGlued
    <2>6. <<>> \o <<a>> = <<a>> OBVIOUS
    <2>7. Without(r, "clear") BY <2>2, <2>4, <2>5, <2>6
    <2> HIDE DEF r
    <2> QED BY <1>3, <2>1, <2>7, NewWallSpreads
  <1>4. CASE \E k \in st.left :
                LET m == st.scene.mural
                    S == k.members \cap OnMural(m) \cap screens
                IN  IF ~Combinable(m, S) \/ ~Contiguous(CellsOf(at, S))
                    THEN Skip(c, st, k, <<>>)
                    ELSE /\ \E id \in FreshWall :
                                NewWall(c, m, S, id, (IF k.what = Dark THEN <<>> ELSE <<Respan(id, k.what)>>)
                                                       \o <<Rest(st, k)>> \o <<>>)
                         /\ UNCHANGED <<murals, screens, at, slice, library, badge, fence>>
    <2>1. PICK k \in st.left :
                LET m == st.scene.mural
                    S == k.members \cap OnMural(m) \cap screens
                IN  IF ~Combinable(m, S) \/ ~Contiguous(CellsOf(at, S))
                    THEN Skip(c, st, k, <<>>)
                    ELSE /\ \E id \in FreshWall :
                                NewWall(c, m, S, id, (IF k.what = Dark THEN <<>> ELSE <<Respan(id, k.what)>>)
                                                       \o <<Rest(st, k)>> \o <<>>)
                         /\ UNCHANGED <<murals, screens, at, slice, library, badge, fence>>
      BY <1>4
    <2>2. CASE Skip(c, st, k, <<>>) BY <1>1, <2>2
    <2>3. CASE ~Skip(c, st, k, <<>>)
      <3>1. PICK m, S : m = st.scene.mural /\ S = k.members \cap OnMural(m) \cap screens OBVIOUS
      <3>2. /\ Combinable(m, S) /\ UNCHANGED <<at, slice>>
            /\ \E id \in FreshWall :
                   NewWall(c, m, S, id, (IF k.what = Dark THEN <<>> ELSE <<Respan(id, k.what)>>)
                                          \o <<Rest(st, k)>> \o <<>>)
        BY <2>1, <2>3, <3>1
      <3> QED BY <1>3, <3>2
    <2> QED BY <2>2, <2>3
  <1> QED BY <1>2, <1>4 DEF Regroup

LEMMA DressSpreads ==
    ASSUME TypeInv, SpreadBut(at, {}, {}), NEW c, NEW st,
           {"id", "scene", "left", "do"} \subseteq DOMAIN st, st.do = "dress", Dress(c, st, <<>>)
    PROVE  SpreadKept(c)
  <1>0. st.do \in Phases BY DEF Phases, ApplyPhases
  <1>1. CASE \E x : Skip(c, st, x, <<>>) BY <1>0, <1>1, PhaseSpreads
  <1>2. CASE \E s, what : ~Walled(s) /\ ShowOn(c, s, what, <<Rest(st, s)>> \o <<>>)
    <2>1. PICK s, what : ~Walled(s) /\ ShowOn(c, s, what, <<Rest(st, s)>> \o <<>>) BY <1>2
    <2>2. PICK r : r = <<Rest(st, s)>> \o <<>> OBVIOUS
    <2>3. Without(r, "clear") BY <1>0, <2>2, PhaseSettles DEF Settled
    <2> QED BY <2>1, <2>2, <2>3, ShowSpreads
  <1>3. CASE Then(c, <<[do |-> "lower", id |-> st.id]>> \o <<>>) /\ UNCHANGED <<layout, fence>>
    <2>1. SettledNext(c) BY <1>3, NoneLeft, SettledSteps DEF SettledNext, Then
    <2>2. UNCHANGED <<at, walls, slice>> BY <1>3 DEF layout
    <2> QED BY <2>1, <2>2, NothingSpreads
  <1> QED BY <1>1, <1>2, <1>3 DEF Dress

-----------------------------------------------------------------------------
(* Every step. *)

SpreadOps(ops) == WholeOps(ops) /\ ops \cap {"nudge", "slide"} = {}

LEMMA RequestSpreads ==
    ASSUME WholeInv, NEW c \in Client, SpreadStage(todo[c]),
           NEW ops, SpreadOps(ops), RequestOf(c, ops)
    PROVE  SpreadKept(c)
  <1>v. TypeInv /\ Apart(walls) /\ Staged(todo[c]) BY DEF WholeInv
  <1>i. Idle(c) => todo[c] = <<>> BY DEF Idle
  <1>t. todo = [d \in Client |-> todo[d]] BY <1>v DEF TypeInv
  <1>w. Idle(c) => AllWhole /\ SpreadBut(at, {}, {}) BY <1>i, <1>v DEF Staged, SpreadStage
  <1>n. Without(<<>>, "clear") /\ Settled(<<>>) BY NoneLeft, SettledNone
  <1>j. Then(c, <<Judge>>) => SettledNext(c)
    <2>1. Settled(<<Judge>> \o <<>>) BY <1>n, SettledSteps
    <2>2. <<Judge>> \o <<>> = <<Judge>> BY NoneLeft
    <2> QED BY <2>1, <2>2 DEF SettledNext, Then
  <1>k. Idle(c) /\ UNCHANGED todo => SettledNext(c)
    <2>1. Idle(c) /\ UNCHANGED todo => todo' = [todo EXCEPT ![c] = <<>>] BY <1>i, <1>t
    <2> QED BY <2>1, <1>n DEF SettledNext
  <1>1. ASSUME NEW s \in Screen, NEW m \in Mural, NEW cell \in Cell,
               PlaceKind(s, m) \in ops, Place(c, s, m, cell)
        PROVE  SpreadKept(c)
    <2>1. ~Walled(s)
      <3> SUFFICES ASSUME Walled(s) PROVE FALSE OBVIOUS
      <3>1. WallOf(s).mural \in Mural BY <1>v, WallOfMember, WallsTyped DEF TypeInv
      <3>2. PlaceKind(s, m) # "nudge" BY <1>1 DEF SpreadOps
      <3>3. PlaceKind(s, m) = "transfer" /\ m # WallOf(s).mural BY <3>2 DEF PlaceKind
      <3>4. OneMural BY <1>1, <3>3 DEF SpreadOps, WholeOps
      <3> QED BY <3>1, <3>3, <3>4 DEF OneMural
    <2>2. PICK x : x = [mural |-> m, cell |-> cell] OBVIOUS
    <2>3. /\ Idle(c) /\ at' = [at EXCEPT ![s] = x] /\ UNCHANGED <<walls, slice>>
          /\ Then(c, <<Judge>>)
      BY <1>1, <2>2 DEF Place
    <2> QED BY <1>j, <1>v, <1>w, <2>1, <2>3, LooseSpreads
  <1>2. ASSUME NEW s \in Screen, Unplace(c, s) PROVE SpreadKept(c)
    <2> DEFINE a == [do |-> "dissolve", screen |-> s]
    <2>1. /\ Idle(c) /\ at' = [at EXCEPT ![s] = Tray] /\ UNCHANGED <<walls, slice>>
          /\ Then(c, <<a>>)
      BY <1>2 DEF Unplace
    <2> HIDE DEF a
    <2>2. <<a>> \o <<>> = <<a>> BY NoneLeft
    <2>3. Then(c, <<[do |-> "dissolve", screen |-> s]>> \o <<>>) BY <2>1, <2>2 DEF a
    <2> QED BY <1>n, <1>v, <1>w, <2>1, <2>3, UnplacedSpreads
  <1>3. ASSUME NEW s \in Screen, Forget(c, s) PROVE SpreadKept(c)
    BY <1>3, <1>v, <1>w, ForgetSpreads DEF Forget
  <1>4. ASSUME NEW m \in Mural, NEW S \in SUBSET Screen, Combine(c, m, S) PROVE SpreadKept(c)
    <2>1. PICK id \in FreshWall : NewWall(c, m, S, id, <<>>) BY <1>4 DEF Combine
    <2>2. Idle(c) /\ Combinable(m, S) /\ UNCHANGED <<at, slice>> BY <1>4 DEF Combine
    <2> QED BY <1>n, <1>v, <1>w, <2>1, <2>2, NewWallSpreads
  <1>5. ASSUME NEW m \in Mural, NEW S \in SUBSET Screen, Pack(c, m, S) PROVE SpreadKept(c)
    BY <1>5, <1>v, <1>w, PackSpreads DEF Pack
  <1>6. ASSUME NEW w \in walls, Split(c, w) PROVE SpreadKept(c)
    BY <1>6, <1>n, <1>v, <1>w, SplitSpreads DEF Split
  <1>7. ASSUME NEW s \in Screen, NEW what \in What, AssignScreen(c, s, what) PROVE SpreadKept(c)
    BY <1>7, <1>n, <1>v, <1>w, ShowSpreads DEF AssignScreen
  <1>8. ASSUME NEW w \in walls, NEW what \in What, AssignWall(c, w, what) PROVE SpreadKept(c)
    BY <1>8, <1>n, <1>v, <1>w, SpanSpreads DEF AssignWall
  <1>9. ASSUME NEW s \in Screen, ClearScreen(c, s) PROVE SpreadKept(c)
    <2>1. Idle(c) /\ UNCHANGED todo BY <1>9 DEF ClearScreen
    <2> QED BY <1>9, <1>k, <1>v, <1>w, <2>1, ClearScreenSpreads
  <1>10. ASSUME NEW w \in walls, ClearWall(c, w) PROVE SpreadKept(c)
    <2>1. Idle(c) /\ UNCHANGED todo BY <1>10 DEF ClearWall
    <2> QED BY <1>10, <1>k, <1>v, <1>w, <2>1, ClearWallSpreads
  <1>11. ASSUME NEW id \in Source, Unlist(c, id) PROVE SpreadKept(c)
    <2>1. PICK L, B : /\ L = {w.id : w \in {v \in walls : v.source = id}}
                      /\ B = {s \in Screen : slice[s].what = id /\ slice[s].wall = NoWall}
      OBVIOUS
    <2>2. Idle(c) /\ Unspan(c, id, L, B, <<>>) /\ UNCHANGED at BY <1>11, <2>1 DEF Unlist
    <2>3. \A s \in B : slice[s].wall = NoWall BY <2>1
    <2> QED BY <1>n, <1>v, <1>w, <2>2, <2>3, UnspanSpreads
  <1>12. ASSUME NEW m \in Mural, NEW S \in SUBSET Screen, NEW dx \in {-1, 1},
                MoveKind(S) \in ops, Move(c, m, S, dx)
         PROVE  SpreadKept(c)
    <2>1. MoveKind(S) = "move" BY <1>12 DEF MoveKind, SpreadOps
    <2>2. Idle(c) BY <1>12 DEF Move
    <2> QED BY <1>12, <1>v, <1>w, <2>1, <2>2, MoveSpreads
  <1>13. ASSUME Idle(c), UNCHANGED <<layout, todo>> PROVE SpreadKept(c)
    <2>1. UNCHANGED <<at, walls, slice>> BY <1>13 DEF layout
    <2> QED BY <1>13, <1>k, <1>w, <2>1, NothingSpreads
  <1>14. ASSUME NEW id \in SceneId, Apply(c, id) PROVE SpreadKept(c)
    <2> DEFINE a == [do |-> "resplit", id |-> id, scene |-> scenes[id],
                     left |-> {w.id : w \in WallsOn(scenes[id].mural)}]
    <2>1. Idle(c) /\ UNCHANGED <<at, walls, slice>> /\ Then(c, <<a>>) BY <1>14 DEF Apply, layout
    <2>2. "do" \in DOMAIN a /\ a.do = "resplit" OBVIOUS
    <2> HIDE DEF a
    <2>3. Settled(<<a>> \o <<>>) BY <1>n, <2>2, SettledPush DEF Unsettled
    <2>4. <<a>> \o <<>> = <<a>> BY NoneLeft
    <2>5. SettledNext(c) BY <2>1, <2>3, <2>4 DEF SettledNext, Then
    <2> QED BY <1>w, <2>1, <2>5, NothingSpreads
  <1>15. ASSUME NEW m \in Mural, Raze(c, m) PROVE SpreadKept(c)
    <2> DEFINE a == [do |-> "raze", mural |-> m, left |-> WallsOn(m), members |-> {}]
    <2>1. Idle(c) /\ RazeWalls(c, a, <<>>) BY <1>15 DEF Raze
    <2>2. /\ a.do = "raze" /\ a.mural = m /\ a.left = WallsOn(m) /\ a.members = {}
          /\ {"do", "mural", "left", "members"} \subseteq DOMAIN a
      OBVIOUS
    <2> HIDE DEF a
    <2>3. a.left \subseteq walls BY <2>2 DEF WallsOn
    <2>4. SpreadBut(at, {}, a.members) BY <1>w, <2>1, <2>2
    <2>5. a.mural \in Mural /\ WallsOn(a.mural) \subseteq a.left BY <2>2
    <2> QED BY <1>n, <1>v, <1>w, <2>1, <2>2, <2>3, <2>4, <2>5, RazeSpreads
  <1>16. ASSUME \/ \E m \in Mural, id \in SceneId : Snapshot(c, m, id)
                \/ \E id \in SceneId : Unsave(c, id)
         PROVE  SpreadKept(c)
    BY <1>13, <1>16 DEF Snapshot, Unsave
  <1> QED BY <1>1, <1>2, <1>3, <1>4, <1>5, <1>6, <1>7, <1>8, <1>9, <1>10, <1>11, <1>12, <1>14,
             <1>15, <1>16 DEF RequestOf

LEMMA ResumeSpreads ==
    ASSUME WholeInv, NEW c \in Client, SpreadStage(todo[c]), Resume(c)
    PROVE  SpreadKept(c)
  <1>v. TypeInv /\ Apart(walls) /\ Staged(todo[c]) BY DEF WholeInv
  <1> DEFINE st == Head(todo[c]) rest == Tail(todo[c])
  <1>h. /\ Phased(st, walls) /\ Ready(st) /\ Later(rest, walls)
        /\ st.do \in Lone => rest = <<>>
        /\ Spreading(st) /\ Without(rest, "clear")
    BY <1>v DEF Staged, Line, SpreadStage, Resume, Idle
  <1>y. StepTyped(st)
    <2>1. Typed(todo[c]) /\ todo[c] # <<>> BY <1>v DEF TypeInv, Resume, Idle
    <2> QED BY <2>1, TypedPushed
  <1>r. \/ st.do = "judge"    /\ JudgeStep(c, rest)
        \/ st.do = "rejudge"  /\ RejudgeStep(c, st, rest)
        \/ st.do = "dissolve" /\ Dissolve(c, st, rest)
        \/ st.do = "clear"    /\ ClearStep(c, st, rest)
        \/ st.do = "forget"   /\ ForgetStep(c, st, rest)
        \/ st.do = "shift"    /\ Shift(c, st.to, st.left, rest)
        \/ st.do = "pack"     /\ PackStep(c, st, rest)
        \/ st.do = "unlist"   /\ UnlistStep(c, st, rest)
        \/ st.do = "respan"   /\ RespanStep(c, st, rest)
        \/ st.do = "lower"    /\ Lower(c, st, rest)
        \/ st.do = "raze"     /\ RazeStep(c, st, rest)
        \/ st.do = "evict"    /\ EvictStep(c, st, rest)
        \/ st.do = "close"    /\ Close(c, st, rest)
        \/ st.do = "resplit" /\ Resplit(c, st, rest)
        \/ st.do = "omit"    /\ Omit(c, st, rest)
        \/ st.do = "lay"     /\ Lay(c, st, rest)
        \/ st.do = "regroup" /\ Regroup(c, st, rest)
        \/ st.do = "dress"   /\ Dress(c, st, rest)
    BY DEF Resume
  <1> HIDE DEF st, rest
  <1>s. Settled(rest) BY <1>h, SettledRest
  <1>b. st.do \notin Unsettled => AllWhole /\ SpreadBut(at, {}, {})
    BY <1>h DEF Ready, Spreading, Unsettled
  <1>p. st.do \in Phases => {"id", "scene", "left", "do"} \subseteq DOMAIN st BY <1>y DEF StepTyped
  <1>e. st.do \in Phases \cup {"pack"} => rest = <<>> BY <1>h DEF Lone, Phases
  <1>n. Then(c, rest) => SettledNext(c) BY <1>s DEF SettledNext, Then
  <1>1. CASE st.do \in {"judge", "rejudge", "lower"} /\ UNCHANGED layout
             /\ (Then(c, rest) \/ \E left : Rejudge(c, left, rest))
    <2>1. SpreadBut(at, {}, {}) /\ UNCHANGED <<at, walls, slice>> BY <1>1, <1>b DEF Unsettled, layout
    <2> QED BY <1>1, <1>n, <1>s, <2>1, NothingSpreads, RejudgeSpreads
  <1>2. CASE st.do = "dissolve" /\ Dissolve(c, st, rest)
    <2>1. SpreadBut(at, {st.screen}, {}) BY <1>2, <1>h DEF Spreading
    <2> QED BY <1>2, <1>h, <1>v, <2>1, DissolveSpreads
  <1>3. CASE st.do = "clear" /\ ClearStep(c, st, rest)
    <2>1. SpreadBut(at, {}, st.screens) BY <1>3, <1>h DEF Spreading
    <2>2. slice' = Blanked(st.screens) /\ UNCHANGED <<at, walls>> /\ SettledNext(c)
      BY <1>3, <1>n DEF ClearStep
    <2> QED BY <1>v, <2>1, <2>2, BlankSpreads
  <1>4. CASE st.do = "forget" /\ ForgetStep(c, st, rest)
    <2>1. ~Walled(st.screen) BY <1>4, <1>h DEF Ready
    <2>2. SpreadBut(at, {}, st.members \cup {st.screen}) BY <1>4, <1>h DEF Spreading
    <2>3. Gone(c, st.screen, st.members) /\ UNCHANGED walls /\ SettledNext(c)
      BY <1>4, <1>n DEF ForgetStep
    <2> QED BY <1>v, <2>1, <2>2, <2>3, GoneSpreads
  <1>5. CASE st.do = "shift" /\ Shift(c, st.to, st.left, rest)
    <2>1. SpreadBut([s \in Screen |-> IF s \in st.left THEN st.to[s] ELSE at[s]], {}, {})
      BY <1>5, <1>h DEF Spreading, Arrived
    <2> QED BY <1>5, <1>s, <1>v, <2>1, ShiftSpreads
  <1>6. CASE st.do = "pack" /\ PackStep(c, st, rest)
    <2>1. "do" \in DOMAIN st BY <1>y DEF StepTyped
    <2>2. Combinable(st.mural, st.members) /\ st.left \subseteq st.members BY <1>6, <1>h DEF Ready
    <2>3. SpreadBut(at, {}, {}) BY <1>6, <1>b DEF Unsettled
    <2> QED BY <1>6, <1>h, <1>v, <2>1, <2>2, <2>3, PackStepSpreads
  <1>7. CASE st.do = "unlist" /\ UnlistStep(c, st, rest)
    <2>1. SpreadBut(at, {}, {}) BY <1>7, <1>b DEF Unsettled
    <2>2. PICK B : B = {} OBVIOUS
    <2>3. Unspan(c, st.source, st.left, B, rest) /\ UNCHANGED at BY <1>7, <2>2 DEF UnlistStep
    <2>4. \A s \in B : slice[s].wall = NoWall BY <2>2
    <2> QED BY <1>s, <1>v, <2>1, <2>3, <2>4, UnspanSpreads
  <1>8. CASE st.do = "respan" /\ RespanStep(c, st, rest)
    <2>0. AllWhole /\ SpreadBut(at, {}, {}) BY <1>8, <1>b DEF Unsettled
    <2>1. CASE Then(c, rest) /\ UNCHANGED layout
      <3>1. UNCHANGED <<at, walls, slice>> BY <2>1 DEF layout
      <3> QED BY <1>n, <2>0, <2>1, <3>1, NothingSpreads
    <2>2. CASE \E w \in HasId(st.wall) : SpanWall(c, w, st.what, rest)
      <3>1. PICK w \in walls : SpanWall(c, w, st.what, rest) BY <2>2 DEF HasId
      <3>2. st.what \in What BY <1>8, <1>y DEF StepTyped
      <3> QED BY <1>h, <1>v, <2>0, <3>1, <3>2, SpanSpreads
    <2> QED BY <1>8, <2>1, <2>2 DEF RespanStep
  <1>9. CASE st.do = "raze" /\ RazeStep(c, st, rest)
    <2>1. /\ {"mural", "left"} \subseteq DOMAIN st /\ AllWhole
          /\ st.mural \in Mural /\ WallsOn(st.mural) \subseteq st.left
      BY <1>9, <1>h DEF Ready
    <2>2. /\ "members" \in DOMAIN st /\ st.left \subseteq walls
          /\ SpreadBut(at, {}, st.members)
      BY <1>9, <1>h DEF Spreading
    <2>3. {"do", "mural", "left", "members"} \subseteq DOMAIN st BY <1>y, <2>1, <2>2 DEF StepTyped
    <2> QED BY <1>9, <1>h, <1>v, <2>1, <2>2, <2>3, RazeSpreads DEF RazeStep
  <1>10. CASE st.do = "evict" /\ EvictStep(c, st, rest)
    <2>1. st.mural \in Mural /\ WallsOn(st.mural) = {} /\ OnMural(st.mural) = st.left
      BY <1>10, <1>h DEF Ready
    <2>2. AllWhole /\ SpreadBut(at, {}, {}) BY <1>10, <1>b DEF Unsettled
    <2>3. Evict(c, st.mural, OnMural(st.mural), rest) /\ UNCHANGED <<slice, walls>>
      BY <1>10, <2>1 DEF EvictStep
    <2>4. PICK P : P = {} OBVIOUS
    <2>5. Blanked(P) = slice BY <1>v, <2>4 DEF Blanked, TypeInv, LayoutTyped
    <2>6. SpreadBut(at, {}, P) /\ slice' = Blanked(P) BY <2>2, <2>3, <2>4, <2>5
    <2> QED BY <1>h, <1>v, <2>1, <2>2, <2>3, <2>6, EvictSpreads
  <1>11. CASE st.do = "close" /\ Close(c, st, rest)
    <2>1. SpreadBut(at, {}, {}) /\ UNCHANGED <<at, walls, slice>> /\ Then(c, <<Judge>> \o rest)
      BY <1>11, <1>b DEF Close, Unsettled
    <2>2. SettledNext(c) BY <1>h, <2>1, SettledSteps DEF SettledNext, Then
    <2> QED BY <2>1, <2>2, NothingSpreads
  <1>12. CASE st.do \in Phases
    <2>1. /\ rest = <<>> /\ {"id", "scene", "left", "do"} \subseteq DOMAIN st
          /\ SpreadBut(at, {}, {})
      BY <1>12, <1>b, <1>e, <1>p DEF Phases, ApplyPhases, Unsettled
    <2>2. CASE st.do = "resplit" /\ Resplit(c, st, rest) BY <1>v, <2>1, <2>2, ResplitSpreads
    <2>3. CASE st.do = "omit" /\ Omit(c, st, rest) BY <1>v, <2>1, <2>3, OmitSpreads
    <2>4. CASE st.do = "lay" /\ Lay(c, st, rest)
      <3>1. walls = {} BY <1>h, <2>4 DEF Phased
      <3> QED BY <1>v, <2>1, <2>4, <3>1, LaySpreads
    <2>5. CASE st.do = "regroup" /\ Regroup(c, st, rest) BY <1>v, <2>1, <2>5, RegroupSpreads
    <2>6. CASE st.do = "dress" /\ Dress(c, st, rest) BY <1>v, <2>1, <2>6, DressSpreads
    <2> QED BY <1>12, <1>r, <2>2, <2>3, <2>4, <2>5, <2>6 DEF Phases, ApplyPhases
  <1> QED BY <1>r, <1>1, <1>2, <1>3, <1>4, <1>5, <1>6, <1>7, <1>8, <1>9, <1>10, <1>11, <1>12
          DEF JudgeStep, RejudgeStep, Lower, Phases, ApplyPhases

LEMMA SpreadInvStays ==
    ASSUME OneRequest, NEW ops, SpreadOps(ops), SpreadInv, [NextOf(ops)]_vars
    PROVE  SpreadInv'
  <1>1. WholeInv' BY WholeInvStays DEF SpreadInv, SpreadOps
  <1>2. ASSUME NEW c \in Client, RequestOf(c, ops) \/ Resume(c) PROVE SpreadInv'
    <2>1. SpreadKept(c) BY <1>2, RequestSpreads, ResumeSpreads DEF SpreadInv
    <2>2. \A d \in Client : d = c BY DEF OneRequest
    <2>3. PICK q : todo' = [todo EXCEPT ![c] = q] /\ SpreadStage(q)' BY <2>1 DEF SpreadKept
    <2>4. todo'[c] = q BY <2>3 DEF SpreadInv, WholeInv, TypeInv
    <2>5. \A d \in Client : SpreadStage(todo[d])' BY <2>2, <2>3, <2>4
    <2>6. Quiet' => SpreadBut(at, {}, {})'
      <3>1. Quiet' => q = <<>> BY <2>4 DEF Quiet, Idle
      <3> QED BY <2>3, <3>1 DEF SpreadStage
    <2> QED BY <1>1, <2>5, <2>6 DEF SpreadInv
  <1>3. CASE UNCHANGED vars
    <2>1. \A f, X, P : SpreadBut(f, X, P)' = SpreadBut(f, X, P)
      BY <1>3 DEF vars, layout, SpreadBut, Owned
    <2>2. \A a : Spreading(a)' = Spreading(a)
      BY <1>3, <2>1 DEF vars, layout, Spreading, Arrived
    <2>3. \A q : SpreadStage(q)' = SpreadStage(q) BY <1>3, <2>1, <2>2 DEF vars, layout, SpreadStage
    <2>4. \A c \in Client : SpreadStage(todo[c])' BY <1>3, <2>3 DEF vars, SpreadInv
    <2>5. Quiet' = Quiet BY <1>3 DEF vars, Quiet, Idle
    <2>6. SpreadBut(at, {}, {})' = SpreadBut(at, {}, {})
      BY <1>3 DEF vars, layout, SpreadBut, Owned
    <2> QED BY <1>1, <2>4, <2>5, <2>6 DEF SpreadInv
  <1> QED BY <1>2, <1>3 DEF NextOf, SpreadOps, WholeOps

LEMMA InitSpread ==
    ASSUME NEW M, NEW S, M \subseteq Mural, S \subseteq Screen, InitWith(M, S)
    PROVE  SpreadInv
  <1>1. WholeInv BY InitWhole
  <1>2. /\ walls = {} /\ \A s \in Screen : slice[s].wall = NoWall
        /\ \A c \in Client : todo[c] = <<>>
    BY DEF InitWith, Blank
  <1>3. SpreadBut(at, {}, {}) BY <1>2 DEF SpreadBut, Owned
  <1> QED BY <1>1, <1>2, <1>3 DEF SpreadInv, SpreadStage

LEMMA SpreadInvMatches == SpreadInv => SpanMatches
  <1> SUFFICES ASSUME SpreadInv, Quiet
               PROVE  /\ \A w \in walls : w.source # Dark =>
                             \A s \in w.members : slice[s] = Spanned(w, w.source)[s]
                      /\ \A s \in Screen : slice[s].wall # NoWall =>
                             \E w \in walls : w.id = slice[s].wall /\ s \in w.members
    BY DEF SpanMatches
  <1>1. SpreadBut(at, {}, {}) /\ AllWhole /\ TypeInv BY DEF SpreadInv, WholeInv
  <1>2. ASSUME NEW w \in walls, w.source # Dark, NEW s \in w.members
        PROVE  slice[s] = Spanned(w, w.source)[s]
    <2>1. slice[s] = [what |-> w.source, wall |-> w.id, piece |-> PieceOf(w, at, s)]
      BY <1>1, <1>2 DEF SpreadBut, Spread
    <2>2. {t \in w.members : at[t].mural = w.mural} = w.members BY <1>1 DEF AllWhole, Whole3
    <2>3. s \in Screen BY <1>1, WallsTyped DEF TypeInv
    <2>4. Spanned(w, w.source)[s] = [what |-> w.source, wall |-> w.id, piece |-> PieceOf(w, at, s)]
      BY <2>2, <2>3 DEF Spanned, PieceOf
    <2> QED BY <2>1, <2>4
  <1>3. Owned({}) BY <1>1 DEF SpreadBut
  <1> QED BY <1>2, <1>3 DEF Owned

(* What the console says a wall shows is on all its members, each with its   *)
(* own piece of it, and no other screen shows a piece of any wall, whenever  *)
(* no handler is under way (computeWallSlices, setWallContent, splitWall,    *)
(* applyScene): with one request at a time, every write taken, and no member *)
(* nudged inside its wall or slid along with a part of it, which changes     *)
(* where the pieces belong and sends none.                                   *)
THEOREM WallsShowTheirContent ==
    ASSUME OneRequest, SpreadOps(Ops)
    PROVE  Spec => []SpanMatches
  <1>1. Init => SpreadInv BY InitSpread DEF Init
  <1>2. SpreadInv /\ [Next]_vars => SpreadInv' BY SpreadInvStays, NextIsOf
  <1> QED BY <1>1, <1>2, SpreadInvMatches, PTL DEF Spec

-----------------------------------------------------------------------------
(* The stories.  The instances TLC runs choose their clients and requests by *)
(* a story; what was proved holds of a story whose requests are among those. *)

StoryOf(k) == story = k => k \in DOMAIN Stories

LEMMA StoryBegins ==
    ASSUME MCInit
    PROVE  /\ \A k : StoryOf(k)
           /\ InitWith(Cast.murals, Cast.screens)
           /\ Cast.murals \subseteq Mural /\ Cast.screens \subseteq Screen
  BY StoriesAssumption DEF MCInit, StoryOf, Cast

LEMMA StoryGoesOn ==
    ASSUME NEW k, StoryOf(k), story = k, [MCNext]_MCVars
    PROVE  StoryOf(k)' /\ [NextOf(Stories[k].ops)]_vars
  <1>1. story' = story BY DEF MCNext, MCVars
  <1>2. CASE MCNext
    <2>1. Stories[k].clients \subseteq Client BY StoriesAssumption DEF StoryOf
    <2>2. PICK c \in Stories[k].clients :
              \/ RequestOf(c, Stories[k].ops) \/ Resume(c)
              \/ ("fail" \in Stories[k].ops /\ Fail(c))
      BY <1>2 DEF MCNext, Cast
    <2> QED BY <1>1, <2>1, <2>2 DEF NextOf, StoryOf
  <1>3. CASE UNCHANGED MCVars BY <1>1, <1>3 DEF MCVars, StoryOf
  <1> QED BY <1>2, <1>3

(* The walls of the edits show what they should.                             *)
THEOREM EditsShowTheirContent ==
    ASSUME OneRequest, SpreadOps(Stories["edits"].ops)
    PROVE  MCSpec => []SpanMatchesEdits
  <1> DEFINE Inv == StoryOf("edits") /\ (story = "edits" => SpreadInv)
  <1>1. MCInit => Inv BY StoryBegins, InitSpread
  <1>2. Inv /\ [MCNext]_MCVars => Inv'
    <2> SUFFICES ASSUME Inv, [MCNext]_MCVars PROVE Inv' OBVIOUS
    <2>1. story' = story BY DEF MCNext, MCVars
    <2>2. CASE story = "edits"
      <3>1. StoryOf("edits")' /\ [NextOf(Stories["edits"].ops)]_vars BY <2>2, StoryGoesOn
      <3>2. SpreadInv' BY <2>2, <3>1, SpreadInvStays
      <3> QED BY <3>1, <3>2
    <2>3. CASE story # "edits" BY <2>1, <2>3 DEF StoryOf
    <2> QED BY <2>2, <2>3
  <1>3. Inv => SpanMatchesEdits BY SpreadInvMatches DEF SpanMatchesEdits
  <1> HIDE DEF Inv
  <1> QED BY <1>1, <1>2, <1>3, PTL DEF MCSpec

(* No badge lies once the overlapping requests of the races have finished.   *)
THEOREM RacesBadgeHonestly ==
    ASSUME Stories["races"].ops \subseteq JudgedOps
    PROVE  MCSpec => []BadgeHonestRaces
  <1> DEFINE Inv == StoryOf("races") /\ (story = "races" => BadgeInv)
  <1>1. MCInit => Inv BY StoryBegins, InitBadged
  <1>2. Inv /\ [MCNext]_MCVars => Inv'
    <2> SUFFICES ASSUME Inv, [MCNext]_MCVars PROVE Inv' OBVIOUS
    <2>1. story' = story BY DEF MCNext, MCVars
    <2>2. CASE story = "races"
      <3>1. StoryOf("races")' /\ [NextOf(Stories["races"].ops)]_vars BY <2>2, StoryGoesOn
      <3>2. BadgeInv' BY <2>2, <3>1, BadgeInvStays
      <3> QED BY <3>1, <3>2
    <2>3. CASE story # "races" BY <2>1, <2>3 DEF StoryOf
    <2> QED BY <2>2, <2>3
  <1>3. Inv => BadgeHonestRaces BY BadgeInvHonest DEF BadgeHonestRaces
  <1> HIDE DEF Inv
  <1> QED BY <1>1, <1>2, <1>3, PTL DEF MCSpec

=============================================================================
