------------------------ MODULE PlayerChannelProofs ------------------------
(***************************************************************************)
(* Proofs about PlayerChannel, for every number of screens, sources,       *)
(* requests and sockets: the record of what players said is sound, what is *)
(* in memory is in the store once it is written, and a connected wall      *)
(* shows what the server means it to and is known for what it said.        *)
(***************************************************************************)
EXTENDS PlayerChannel, FiniteSetTheorems, SequenceTheorems, TLAPS

-----------------------------------------------------------------------------
(* Types of the parts. *)

LEMMA SetToSeqType ==
    ASSUME NEW S, IsFiniteSet(S)
    PROVE  /\ Cardinality(S) \in Nat
           /\ SetToSeq(S) \in [1..Cardinality(S) -> S]
  <1>1. Cardinality(S) \in Nat /\ ExistsBijection(1..Cardinality(S), S)
    BY FS_CardinalityType
  <1>2. PICK f : f \in Bijection(1..Cardinality(S), S)
    BY <1>1 DEF ExistsBijection
  <1>3. f \in [1..Cardinality(S) -> S] /\ IsInjective(f)
    BY <1>2 DEF Bijection, Injection, IsInjective
  <1> QED BY <1>1, <1>3 DEF SetToSeq

LEMMA ShownType == ASSUME NEW x \in Choice PROVE Shown(x) \in Content
  BY DEF Shown, Content, Choice

LEMMA IdleType == Idle \in Request /\ Idle.touched = {} /\ Idle.gone = {}
  BY DEF Idle, Asked, Request, Choice

(* The write of a row, as the last thing of a request so far. *)
LEMMA RowWrite ==
    ASSUME NEW s \in Screen, NEW c \in Content
    PROVE  << [do |-> "row", scr |-> s, to |-> c] >> \in Seq(Write)
  <1>1. [do |-> "row", scr |-> s, to |-> c] \in Write
    BY DEF Write
  <1> QED BY <1>1

LEMMA ReachType ==
    ASSUME NEW p \in Request, p.rest # <<>>
    PROVE  /\ Head(p.rest) \in Screen
           /\ Reach(p) \in Request
           /\ Reach(p).gone = p.gone
  <1>1. p.rest \in Seq(Screen) /\ p.x \in Choice
    BY DEF Request
  <1>2. Head(p.rest) \in Screen /\ Tail(p.rest) \in Seq(Screen)
    BY <1>1
  <1>3. << [do |-> "row", scr |-> Head(p.rest), to |-> Shown(p.x)] >> \in Seq(Write)
    BY <1>1, <1>2, ShownType, RowWrite
  <1>4. p.touched \cup {[scr |-> Head(p.rest), surface |-> p.x]}
            \in SUBSET [scr : Screen, surface : Choice]
    BY <1>1, <1>2 DEF Request
  <1> DEFINE q == [todo |-> << [do |-> "row", scr |-> Head(p.rest), to |-> Shown(p.x)] >>,
                   rest |-> Tail(p.rest), x |-> p.x,
                   touched |-> p.touched \cup {[scr |-> Head(p.rest), surface |-> p.x]},
                   gone |-> p.gone]
  <1>5. Reach(p) = q
    BY DEF Reach
  <1>6. q \in Request
    BY <1>1, <1>2, <1>3, <1>4 DEF Request
  <1> QED BY <1>2, <1>5, <1>6

-----------------------------------------------------------------------------
(* The record is sound at first, and no action of anybody spoils it. *)

LEMMA SpendType ==
    ASSUME ChannelAssumption, TypeOK, NEW what \in {"edits", "troubles", "verdicts"}, Spend(what)
    PROVE  left' \in [edits : 0..MaxEdits, troubles : 0..MaxTroubles, verdicts : 0..MaxVerdicts]
  <1> USE DEF ChannelAssumption
  <1>1. left = [edits |-> left.edits, troubles |-> left.troubles, verdicts |-> left.verdicts]
        /\ left.edits \in 0..MaxEdits /\ left.troubles \in 0..MaxTroubles
        /\ left.verdicts \in 0..MaxVerdicts
    BY DEF TypeOK
  <1>2. CASE what = "edits"
    BY <1>1, <1>2 DEF Spend
  <1>3. CASE what = "troubles"
    BY <1>1, <1>3 DEF Spend
  <1>4. CASE what = "verdicts"
    BY <1>1, <1>4 DEF Spend
  <1> QED BY <1>2, <1>3, <1>4

LEMMA InitSound == ASSUME ChannelAssumption, Init PROVE RecordSound
  <1>1. Shown(NoSource) \in Content
    BY ShownType DEF Choice
  <1>2. TypeOK
    BY <1>1, IdleType DEF Init, TypeOK
  <1>3. OnlyOnlineSpeak /\ GoneIsSilent
    BY DEF Init, OnlyOnlineSpeak, GoneIsSilent
  <1> QED BY <1>2, <1>3 DEF RecordSound

(* What keeps the record as it was, puts nobody out and forgets no debt    *)
(* keeps it sound.                                                         *)
LEMMA QuietStep ==
    ASSUME OnlyOnlineSpeak, GoneIsSilent, record' = record,
           \A s \in Screen : hub[s] # {} => hub'[s] # {},
           \A x \in Source : x \in library => x \in library' \/ \E o \in Op : x \in ops'[o].gone,
           \A o \in Op : ops[o].gone \subseteq ops'[o].gone
    PROVE  OnlyOnlineSpeak' /\ GoneIsSilent'
  <1>1. OnlyOnlineSpeak'
    BY DEF OnlyOnlineSpeak
  <1>2. GoneIsSilent'
    BY DEF GoneIsSilent
  <1> QED BY <1>1, <1>2

LEMMA TargetingsType ==
    ASSUME NEW T \in Targetings
    PROVE  T \in Seq(Screen) /\ T # <<>>
  <1>1. CASE \E s \in Screen : T = <<s>>
    BY <1>1
  <1>2. CASE T \in Screen \X Screen
    <2>1. PICK a \in Screen, b \in Screen : T = <<a, b>>
      BY <1>2
    <2> QED BY <2>1
  <1> QED BY <1>1, <1>2 DEF Targetings

LEMMA AssignSound ==
    ASSUME ChannelAssumption, RecordSound, NEW o \in Op, NEW T \in Targetings,
           NEW x \in Source \cup {NoSource}, Assign(o, T, x)
    PROVE  RecordSound'
  <1> DEFINE p == Asked(T, x)
  <1>1. T \in Seq(Screen) /\ T # <<>>
    BY TargetingsType
  <1>3. p \in Request /\ p.rest = T /\ p.gone = {}
    BY <1>1 DEF Asked, Request, Choice
  <1> HIDE DEF p
  <1>4. Head(T) \in Screen /\ Reach(p) \in Request /\ Reach(p).gone = {}
    BY <1>1, <1>3, ReachType
  <1>5. ops' = [ops EXCEPT ![o] = Reach(p)] /\ ops[o] = Idle /\ Spend("edits")
    BY DEF Assign, Starts, Active, p
  <1>6. TypeOK'
    <2>1. ops' \in [Op -> Request]
      BY <1>4, <1>5 DEF RecordSound, TypeOK
    <2>2. slice' \in [Screen -> Content]
      BY <1>4, ShownType DEF Assign, RecordSound, TypeOK, Choice
    <2>3. Range(T) \subseteq Screen
      BY <1>1 DEF Range
    <2>4. raced' \subseteq Screen
      BY <2>3 DEF Assign, Starts, RecordSound, TypeOK
    <2>5. left' \in [edits : 0..MaxEdits, troubles : 0..MaxTroubles, verdicts : 0..MaxVerdicts]
      BY <1>5, SpendType DEF RecordSound
    <2> QED BY <2>1, <2>2, <2>4, <2>5 DEF Assign, RecordSound, TypeOK
  <1>7. \A q \in Op : ops[q].gone \subseteq ops'[q].gone
    BY <1>4, <1>5, IdleType DEF RecordSound, TypeOK
  <1>8. OnlyOnlineSpeak' /\ GoneIsSilent'
    BY <1>7, QuietStep DEF Assign, RecordSound
  <1> QED BY <1>6, <1>8 DEF RecordSound

LEMMA DeleteSound ==
    ASSUME ChannelAssumption, RecordSound, NEW o \in Op, NEW x \in Source, Delete(o, x)
    PROVE  RecordSound'
  <1> DEFINE S == {s \in Screen : slice[s].source = x}
             Clears == [i \in 1..Cardinality(S) |->
                          [do |-> "row", scr |-> SetToSeq(S)[i], to |-> Shown(NoSource)]]
             First == <<[do |-> "unassign"], [do |-> "drop"]>>
             T == {[scr |-> s, surface |-> NoSource] : s \in S}
             p == [todo |-> First \o Clears, rest |-> <<>>, x |-> x, gone |-> {x}, touched |-> T]
  <1>1. p \in Request /\ p.gone = {x}
    <2>1. IsFiniteSet(S)
      BY FS_Subset DEF ChannelAssumption
    <2>2. Cardinality(S) \in Nat /\ SetToSeq(S) \in [1..Cardinality(S) -> S]
      BY <2>1, SetToSeqType
    <2>3. \A i \in 1..Cardinality(S) : SetToSeq(S)[i] \in Screen
      BY <2>2
    <2>4. Shown(NoSource) \in Content
      BY ShownType DEF Choice
    <2>5. \A i \in 1..Cardinality(S) :
             [do |-> "row", scr |-> SetToSeq(S)[i], to |-> Shown(NoSource)] \in Write
      BY <2>3, <2>4 DEF Write
    <2>6. Clears \in [1..Cardinality(S) -> Write]
      BY <2>5
    <2>7. Clears \in Seq(Write)
      <3> HIDE DEF Clears
      <3> QED BY <2>2, <2>6, SeqDef
    <2>8. First \in Seq(Write)
      BY DEF Write
    <2>9. First \o Clears \in Seq(Write)
      BY <2>7, <2>8
    <2>10. T \in SUBSET [scr : Screen, surface : Choice]
      BY DEF Choice
    <2> HIDE DEF First, Clears, T
    <2> QED BY <2>9, <2>10 DEF Request, Choice
  <1>2. ops' = [ops EXCEPT ![o] = p] /\ ops[o] = Idle /\ Spend("edits")
        /\ raced' \subseteq raced \cup S
    BY DEF Delete, Starts, Active
  <1>3. /\ library' = library \ {x}
        /\ slice' = [s \in Screen |-> IF s \in S THEN Shown(NoSource) ELSE slice[s]]
        /\ UNCHANGED <<libraryRows, row, record, hub, link, up, down, page, on>>
    BY DEF Delete
  <1> HIDE DEF p
  <1>4. TypeOK'
    <2>1. ops' \in [Op -> Request]
      BY <1>1, <1>2 DEF RecordSound, TypeOK
    <2>2. slice' \in [Screen -> Content]
      BY <1>3, ShownType DEF RecordSound, TypeOK, Choice
    <2>3. left' \in [edits : 0..MaxEdits, troubles : 0..MaxTroubles, verdicts : 0..MaxVerdicts]
      BY <1>2, SpendType DEF RecordSound
    <2> QED BY <1>2, <1>3, <2>1, <2>2, <2>3 DEF RecordSound, TypeOK
  <1>5. \A q \in Op : ops[q].gone \subseteq ops'[q].gone
    BY <1>1, <1>2, IdleType DEF RecordSound, TypeOK
  <1>6. x \in ops'[o].gone
    BY <1>1, <1>2 DEF RecordSound, TypeOK
  <1>7. OnlyOnlineSpeak' /\ GoneIsSilent'
    BY <1>3, <1>5, <1>6, QuietStep DEF RecordSound
  <1> QED BY <1>4, <1>7 DEF RecordSound

LEMMA ResumedType ==
    ASSUME NEW p \in Request, p.todo # <<>>, NEW T \in Seq(Screen)
    PROVE  Resumed(p, T) \in Request /\ Resumed(p, T).gone = p.gone
           /\ Resumed(p, T).rest = T /\ Resumed(p, T).x = p.x
  <1>1. Tail(p.todo) \in Seq(Write)
    BY DEF Request
  <1> QED BY <1>1 DEF Resumed, Request

LEMMA WrittenSound ==
    ASSUME ChannelAssumption, RecordSound, NEW o \in Op, Written(o)
    PROVE  RecordSound'
  <1> DEFINE p == ops[o]
             w == Head(p.todo)
             q == Resumed(p, p.rest)
             more == q.todo = <<>> /\ q.rest # <<>>
             goes == more /\ p.x \in library \cup {NoSource}
             next == IF goes THEN Reach(q) ELSE Resumed(p, IF more THEN <<>> ELSE p.rest)
  <1>1. p \in Request /\ p.todo # <<>> /\ p.rest \in Seq(Screen) /\ p.x \in Choice
        /\ p.todo \in Seq(Write)
    BY DEF Written, RecordSound, TypeOK, Request
  <1>2. w \in Write
    BY <1>1
  <1>3. q \in Request /\ q.gone = p.gone /\ q.rest = p.rest
    BY <1>1, ResumedType
  <1>4. goes => Reach(q) \in Request /\ Reach(q).gone = p.gone /\ Head(q.rest) \in Screen
    BY <1>3, ReachType
  <1>5. Resumed(p, <<>>) \in Request /\ Resumed(p, <<>>).gone = p.gone
    <2>1. <<>> \in Seq(Screen)
      OBVIOUS
    <2> HIDE DEF p
    <2> QED BY <1>1, <2>1, ResumedType
  <1>6. next \in Request /\ next.gone = p.gone
    <2>1. CASE goes
      <3>1. next = Reach(q)
        BY <2>1
      <3> HIDE DEF next, goes, q
      <3> QED BY <1>4, <2>1, <3>1
    <2>2. CASE ~goes /\ more
      <3>1. next = Resumed(p, <<>>)
        BY <2>2
      <3> HIDE DEF next
      <3> QED BY <1>5, <3>1
    <2>3. CASE ~more
      <3>1. next = q
        BY <2>3
      <3> HIDE DEF next, q
      <3> QED BY <1>3, <3>1
    <2> QED BY <2>1, <2>2, <2>3
  <1>7. ops' = [ops EXCEPT ![o] = next]
    BY DEF Written
  <1>8. UNCHANGED <<library, record, hub, link, up, down, page, on, left>> /\ raced' \subseteq raced
    BY DEF Written
  <1>9. ops' \in [Op -> Request]
    BY <1>6, <1>7 DEF RecordSound, TypeOK
  <1>10. \A k \in Op : ops[k].gone \subseteq ops'[k].gone
    BY <1>6, <1>7 DEF RecordSound, TypeOK
  <1>11. slice' \in [Screen -> Content]
    <2>1. slice' = IF goes THEN [slice EXCEPT ![Head(q.rest)] = Shown(p.x)] ELSE slice
      BY DEF Written
    <2>2. Shown(p.x) \in Content
      BY <1>1, ShownType
    <2> QED BY <1>4, <2>1, <2>2 DEF RecordSound, TypeOK
  <1>12. row' \in [Screen -> Content]
    <2>0. row \in [Screen -> Content]
      BY DEF RecordSound, TypeOK
    <2>1. CASE w.do = "row"
      <3>1. row' = [row EXCEPT ![w.scr] = w.to]
        BY <2>1 DEF Written
      <3>2. w.scr \in Screen /\ w.to \in Content
        BY <1>2, <2>1 DEF Write
      <3> QED BY <2>0, <3>1, <3>2
    <2>2. CASE w.do = "unassign"
      <3>1. row' = [s \in Screen |-> IF row[s].source = p.x
                      THEN [row[s] EXCEPT !.source = NoSource] ELSE row[s]]
        BY <2>2 DEF Written
      <3>2. \A s \in Screen : [row[s] EXCEPT !.source = NoSource] \in Content
        BY <2>0 DEF Content
      <3> QED BY <2>0, <3>1, <3>2
    <2>3. CASE w.do # "row" /\ w.do # "unassign"
      BY <2>0, <2>3 DEF Written
    <2> QED BY <2>1, <2>2, <2>3
  <1>13. libraryRows' \subseteq Source
    BY DEF Written, RecordSound, TypeOK
  <1>14. TypeOK'
    BY <1>8, <1>9, <1>11, <1>12, <1>13 DEF RecordSound, TypeOK
  <1>15. OnlyOnlineSpeak' /\ GoneIsSilent'
    BY <1>8, <1>10, QuietStep DEF RecordSound
  <1> QED BY <1>14, <1>15 DEF RecordSound

(* What is pushed to a socket is the content of a screen. *)
LEMMA PushType ==
    ASSUME TypeOK, NEW T \in SUBSET [scr : Screen, surface : Choice], Push(T)
    PROVE  down' \in [Screen -> Seq(Content)]
  <1> SUFFICES ASSUME NEW s \in Screen, \E t \in T : t.scr = s
               PROVE  Append(down[s], Render(s, (CHOOSE t \in T : t.scr = s).surface)) \in Seq(Content)
    BY DEF Push, TypeOK
  <1>1. (CHOOSE t \in T : t.scr = s) \in T
    OBVIOUS
  <1>2. (CHOOSE t \in T : t.scr = s).surface \in Choice
    BY <1>1
  <1>3. slice[s].source \in Choice
    BY DEF TypeOK, Content, Choice
  <1>4. Render(s, (CHOOSE t \in T : t.scr = s).surface) \in Content
    BY <1>2, <1>3 DEF Render, Shown, Content, Choice
  <1> QED BY <1>4 DEF TypeOK

LEMMA FinishSound ==
    ASSUME ChannelAssumption, RecordSound, NEW o \in Op, Finish(o)
    PROVE  RecordSound'
  <1>1. /\ Push(ops[o].touched) /\ Forget(ops[o].gone)
        /\ ops' = [ops EXCEPT ![o] = Idle]
        /\ UNCHANGED <<library, libraryRows, slice, row, hub, link, up, page, on, raced, left>>
    BY DEF Finish
  <1>2. ops[o].touched \in SUBSET [scr : Screen, surface : Choice]
    BY DEF RecordSound, TypeOK, Request
  <1>3. TypeOK'
    BY <1>1, <1>2, PushType, IdleType DEF Forget, RecordSound, TypeOK
  <1>4. OnlyOnlineSpeak'
    BY <1>1 DEF Forget, OnlyOnlineSpeak, RecordSound, TypeOK
  <1>5. GoneIsSilent'
    <2> SUFFICES ASSUME NEW x \in Source, x \notin library, x \notin ops[o].gone,
                        \A k \in Op : x \notin ops'[k].gone, NEW s \in Screen
                 PROVE  record[x][s] = "none"
      BY <1>1 DEF GoneIsSilent, Forget
    <2>1. \A k \in Op : x \notin ops[k].gone
      BY <1>1 DEF RecordSound, TypeOK
    <2> QED BY <2>1 DEF RecordSound, GoneIsSilent
  <1> QED BY <1>3, <1>4, <1>5 DEF RecordSound

-----------------------------------------------------------------------------
(* The socket and the page. *)

LEMMA SaysType ==
    ASSUME TypeOK, NEW s \in Screen
    PROVE  /\ \A v \in Verdict : [Says(s) EXCEPT !.state = v] \in Frame
           /\ page[s].verdict # "unknown" => Says(s) \in Frame
  <1>1. page[s].shows.source \in Choice /\ page[s].verdict \in Verdict \cup {"unknown"}
    BY DEF TypeOK, Content, Choice
  <1>2. \A v \in Verdict : [t |-> "report", source |-> page[s].shows.source, state |-> v] \in Frame
    BY <1>1 DEF Frame
  <1> QED BY <1>1, <1>2 DEF Says

LEMMA RenderType ==
    ASSUME TypeOK, NEW s \in Screen, NEW x \in Choice
    PROVE  Render(s, x) \in Content
  BY DEF Render, Shown, TypeOK, Content, Choice

LEMMA DialSound ==
    ASSUME ChannelAssumption, RecordSound, NEW s \in Screen, Dial(s)
    PROVE  RecordSound'
  <1> DEFINE n == CHOOSE k \in Slot : k \notin hub[s]
             said == IF page[s].verdict = "unknown" THEN <<>> ELSE <<Says(s)>>
             hello == <<[t |-> "hello"]>>
  <1>1. hub[s] \subseteq Slot /\ hub[s] # Slot
    BY DEF Dial, RecordSound, TypeOK
  <1>2. n \in Slot
    BY <1>1
  <1>3. said \in Seq(Frame) /\ hello \in Seq(Frame)
    <2>1. CASE page[s].verdict = "unknown"
      BY <2>1 DEF Frame
    <2>2. CASE page[s].verdict # "unknown"
      BY <2>2, SaysType DEF Frame, RecordSound
    <2> QED BY <2>1, <2>2
  <1>4. said \o hello \in Seq(Frame)
    <2> HIDE DEF said, hello
    <2> QED BY <1>3
  <1>5. link' = [link EXCEPT ![s] = n] /\ up' = [up EXCEPT ![s] = said \o hello]
        /\ UNCHANGED <<server, down, page, raced, left>>
    BY DEF Dial
  <1> HIDE DEF said, hello, n
  <1>6. TypeOK'
    BY <1>2, <1>4, <1>5 DEF server, RecordSound, TypeOK
  <1>7. OnlyOnlineSpeak' /\ GoneIsSilent'
    BY <1>5, QuietStep DEF server, RecordSound
  <1> QED BY <1>6, <1>7 DEF RecordSound

LEMMA DropType ==
    ASSUME TypeOK, NEW s \in Screen, Drop(s)
    PROVE  /\ link' \in [Screen -> Slot \cup {0}]
           /\ up' \in [Screen -> Seq(Frame)] /\ down' \in [Screen -> Seq(Content)]
  BY DEF Drop, TypeOK

(* A page whose verdict or whose word to the server changes is a page. *)
LEMMA PageType ==
    ASSUME TypeOK, NEW s \in Screen, NEW c \in Content,
           NEW v \in Verdict \cup {"unknown"}, NEW b \in BOOLEAN,
           page' = [page EXCEPT ![s] = [shows |-> c, verdict |-> v, told |-> b]]
    PROVE  page' \in [Screen -> [shows : Content, verdict : Verdict \cup {"unknown"}, told : BOOLEAN]]
  BY DEF TypeOK

LEMMA LoseSound ==
    ASSUME ChannelAssumption, RecordSound, NEW s \in Screen, Lose(s)
    PROVE  RecordSound'
  <1>1. Drop(s) /\ Spend("troubles") /\ page' = [page EXCEPT ![s].told = FALSE]
        /\ UNCHANGED <<server, raced>>
    BY DEF Lose
  <1>2. left' \in [edits : 0..MaxEdits, troubles : 0..MaxTroubles, verdicts : 0..MaxVerdicts]
    BY <1>1, SpendType DEF RecordSound
  <1>3. page' \in [Screen -> [shows : Content, verdict : Verdict \cup {"unknown"}, told : BOOLEAN]]
    BY <1>1, ZenonT(40) DEF RecordSound, TypeOK
  <1>4. TypeOK'
    BY <1>1, <1>2, <1>3, DropType DEF server, RecordSound, TypeOK
  <1>5. OnlyOnlineSpeak' /\ GoneIsSilent'
    BY <1>1, QuietStep DEF server, RecordSound
  <1> QED BY <1>4, <1>5 DEF RecordSound

LEMMA ReloadSound ==
    ASSUME ChannelAssumption, RecordSound, NEW s \in Screen, Reload(s)
    PROVE  RecordSound'
  <1>1. Drop(s) /\ Spend("troubles")
        /\ page' = [page EXCEPT ![s].verdict = "unknown", ![s].told = FALSE]
        /\ UNCHANGED <<server, raced>>
    BY DEF Reload
  <1>2. left' \in [edits : 0..MaxEdits, troubles : 0..MaxTroubles, verdicts : 0..MaxVerdicts]
    BY <1>1, SpendType DEF RecordSound
  <1>3. page' \in [Screen -> [shows : Content, verdict : Verdict \cup {"unknown"}, told : BOOLEAN]]
    BY <1>1, ZenonT(40) DEF RecordSound, TypeOK
  <1>4. TypeOK'
    BY <1>1, <1>2, <1>3, DropType DEF server, RecordSound, TypeOK
  <1>5. OnlyOnlineSpeak' /\ GoneIsSilent'
    BY <1>1, QuietStep DEF server, RecordSound
  <1> QED BY <1>4, <1>5 DEF RecordSound

LEMMA NoticeCloseSound ==
    ASSUME ChannelAssumption, RecordSound, NEW s \in Screen, NEW n \in Slot, NoticeClose(s, n)
    PROVE  RecordSound'
  <1>1. /\ hub' = [hub EXCEPT ![s] = @ \ {n}]
        /\ record' = IF hub'[s] = {} THEN [x \in Source |-> [record[x] EXCEPT ![s] = "none"]]
                                     ELSE record
        /\ UNCHANGED <<library, libraryRows, slice, row, ops, link, up, down, page, on, raced, left>>
    BY DEF NoticeClose
  <1>2. /\ record' \in [Source -> [Screen -> Verdict \cup {"none"}]]
        /\ \A x \in Source, r \in Screen : record'[x][r] \in {record[x][r], "none"}
        /\ hub'[s] = {} => \A x \in Source : record'[x][s] = "none"
    BY <1>1 DEF RecordSound, TypeOK
  <1>3. hub' \in [Screen -> SUBSET Slot] /\ \A r \in Screen \ {s} : hub'[r] = hub[r]
    BY <1>1 DEF RecordSound, TypeOK
  <1>4. TypeOK'
    BY <1>1, <1>2, <1>3 DEF RecordSound, TypeOK
  <1>5. OnlyOnlineSpeak'
    BY <1>2, <1>3 DEF RecordSound, OnlyOnlineSpeak
  <1>6. GoneIsSilent'
    BY <1>1, <1>2 DEF RecordSound, GoneIsSilent
  <1> QED BY <1>4, <1>5, <1>6 DEF RecordSound

(* What the hub takes in is a socket: frames are under way on one only.    *)
Wired == \A s \in Screen : link[s] = 0 => up[s] = <<>>

LEMMA HearHelloSound ==
    ASSUME ChannelAssumption, RecordSound, Wired, NEW s \in Screen, HearHello(s)
    PROVE  RecordSound'
  <1> DEFINE c == Render(s, slice[s].surface)
  <1>1. /\ up[s] # <<>> /\ up' = [up EXCEPT ![s] = Tail(@)]
        /\ hub' = [hub EXCEPT ![s] = @ \cup {link[s]}]
        /\ down' = [down EXCEPT ![s] = Append(@, c)]
        /\ UNCHANGED <<library, libraryRows, slice, row, ops, record, link, page, on, raced, left>>
    BY DEF HearHello
  <1>2. c \in Content
    BY RenderType DEF RecordSound, TypeOK, Content, Choice
  <1> HIDE DEF c
  <1>3. down' \in [Screen -> Seq(Content)] /\ up' \in [Screen -> Seq(Frame)]
    BY <1>1, <1>2 DEF RecordSound, TypeOK
  <1>4. link[s] \in Slot
    BY <1>1 DEF Wired, RecordSound, TypeOK
  <1>5. TypeOK'
    BY <1>1, <1>3, <1>4 DEF RecordSound, TypeOK
  <1>6. \A r \in Screen : hub[r] # {} => hub'[r] # {}
    BY <1>1 DEF RecordSound, TypeOK
  <1>7. OnlyOnlineSpeak' /\ GoneIsSilent'
    BY <1>1, <1>6, QuietStep DEF RecordSound
  <1> QED BY <1>5, <1>7 DEF RecordSound

LEMMA HearReportSound ==
    ASSUME ChannelAssumption, RecordSound, NEW s \in Screen, HearReport(s)
    PROVE  RecordSound'
  <1> DEFINE m == Head(up[s])
  <1>1. /\ up[s] # <<>> /\ m.t = "report" /\ up' = [up EXCEPT ![s] = Tail(@)]
        /\ UNCHANGED <<library, libraryRows, slice, row, ops, hub, link, down, page, on, raced, left>>
        /\ \/ record' = record
           \/ /\ link[s] \in hub[s] /\ m.source \in library
              /\ record' = [record EXCEPT ![m.source][s] = m.state]
    BY DEF HearReport, Records
  <1>2. up' \in [Screen -> Seq(Frame)] /\ m \in Frame
    BY <1>1 DEF RecordSound, TypeOK
  <1>3. m.state \in Verdict
    BY <1>1, <1>2 DEF Frame
  <1> HIDE DEF m
  <1>4. CASE record' = record
    <2>1. TypeOK'
      BY <1>1, <1>2, <1>4 DEF RecordSound, TypeOK
    <2>2. OnlyOnlineSpeak' /\ GoneIsSilent'
      BY <1>1, <1>4, QuietStep DEF RecordSound
    <2> QED BY <2>1, <2>2 DEF RecordSound
  <1>5. CASE /\ link[s] \in hub[s] /\ m.source \in library
             /\ record' = [record EXCEPT ![m.source][s] = m.state]
    <2>1. record' \in [Source -> [Screen -> Verdict \cup {"none"}]]
      BY <1>3, <1>5 DEF RecordSound, TypeOK
    <2>2. \A x \in Source, r \in Screen :
             record'[x][r] = record[x][r] \/ (x \in library /\ r = s)
      BY <1>5 DEF RecordSound, TypeOK
    <2>3. TypeOK'
      BY <1>1, <1>2, <2>1 DEF RecordSound, TypeOK
    <2>4. OnlyOnlineSpeak'
      BY <1>1, <1>5, <2>2 DEF RecordSound, OnlyOnlineSpeak
    <2>5. GoneIsSilent'
      BY <1>1, <2>2 DEF RecordSound, GoneIsSilent
    <2> QED BY <2>3, <2>4, <2>5 DEF RecordSound
  <1> QED BY <1>1, <1>4, <1>5

LEMMA GetSound ==
    ASSUME ChannelAssumption, RecordSound, NEW s \in Screen, Get(s)
    PROVE  RecordSound'
  <1> DEFINE c == Head(down[s])
             v == IF c.surface = page[s].shows.surface THEN page[s].verdict ELSE "unknown"
             b == page[s].told /\ c = page[s].shows
  <1>1. /\ down[s] # <<>> /\ down' = [down EXCEPT ![s] = Tail(@)]
        /\ page' = [page EXCEPT ![s] = [shows |-> c, verdict |-> v, told |-> b]]
        /\ UNCHANGED <<server, link, up, raced, left>>
    BY DEF Get, RecordSound, TypeOK
  <1>2. c \in Content /\ down' \in [Screen -> Seq(Content)]
    BY <1>1 DEF RecordSound, TypeOK
  <1>3. v \in Verdict \cup {"unknown"} /\ b \in BOOLEAN
    BY DEF RecordSound, TypeOK
  <1> HIDE DEF c, v, b
  <1>4. page' \in [Screen -> [shows : Content, verdict : Verdict \cup {"unknown"}, told : BOOLEAN]]
    BY <1>1, <1>2, <1>3, PageType DEF RecordSound
  <1>5. TypeOK'
    BY <1>1, <1>2, <1>4 DEF server, RecordSound, TypeOK
  <1>6. OnlyOnlineSpeak' /\ GoneIsSilent'
    BY <1>1, QuietStep DEF server, RecordSound
  <1> QED BY <1>5, <1>6 DEF RecordSound

LEMMA ConcludeSound ==
    ASSUME ChannelAssumption, RecordSound, NEW s \in Screen, NEW v \in Verdict, Conclude(s, v)
    PROVE  RecordSound'
  <1> DEFINE m == [Says(s) EXCEPT !.state = v]
             b == link[s] # 0 /\ page[s].shows.source # NoSource
  <1>1. /\ Spend("verdicts") /\ page' = [page EXCEPT ![s] = [shows |-> page[s].shows, verdict |-> v, told |-> b]]
        /\ up' = IF link[s] = 0 THEN up ELSE [up EXCEPT ![s] = Append(@, m)]
        /\ UNCHANGED <<server, link, down, raced>>
    BY DEF Conclude, RecordSound, TypeOK
  <1>2. m \in Frame /\ b \in BOOLEAN
    BY SaysType DEF RecordSound
  <1> HIDE DEF m, b
  <1>3. up' \in [Screen -> Seq(Frame)]
    BY <1>1, <1>2 DEF RecordSound, TypeOK
  <1>4. page' \in [Screen -> [shows : Content, verdict : Verdict \cup {"unknown"}, told : BOOLEAN]]
    BY <1>1, <1>2, PageType DEF RecordSound, TypeOK
  <1>5. left' \in [edits : 0..MaxEdits, troubles : 0..MaxTroubles, verdicts : 0..MaxVerdicts]
    BY <1>1, SpendType DEF RecordSound
  <1>6. TypeOK'
    BY <1>1, <1>3, <1>4, <1>5 DEF server, RecordSound, TypeOK
  <1>7. OnlyOnlineSpeak' /\ GoneIsSilent'
    BY <1>1, QuietStep DEF server, RecordSound
  <1> QED BY <1>6, <1>7 DEF RecordSound

LEMMA RestartSound == ASSUME ChannelAssumption, RecordSound, Restart PROVE RecordSound'
  <1>1. \A s \in Screen : Hydrated(s) \in Content
    <2> SUFFICES ASSUME NEW s \in Screen PROVE Hydrated(s) \in Content
      OBVIOUS
    <2>1. row[s] = [surface |-> row[s].surface, source |-> row[s].source]
          /\ row[s].surface \in Choice /\ row[s].source \in Choice
      BY DEF RecordSound, TypeOK, Content, Choice
    <2> QED BY <2>1 DEF Hydrated, Content, Choice
  <1>2. Spend("troubles")
    BY DEF Restart
  <1>3. left' \in [edits : 0..MaxEdits, troubles : 0..MaxTroubles, verdicts : 0..MaxVerdicts]
    BY <1>2, SpendType DEF RecordSound
  <1>4. page' \in [Screen -> [shows : Content, verdict : Verdict \cup {"unknown"}, told : BOOLEAN]]
    BY ZenonT(40) DEF Restart, RecordSound, TypeOK
  <1>5. TypeOK'
    BY <1>1, <1>3, <1>4, IdleType DEF Restart, RecordSound, TypeOK
  <1>6. OnlyOnlineSpeak' /\ GoneIsSilent'
    BY DEF Restart, OnlyOnlineSpeak, GoneIsSilent
  <1> QED BY <1>5, <1>6 DEF RecordSound

-----------------------------------------------------------------------------
(* The record of what players said. *)

SoundInv == RecordSound /\ Wired

LEMMA WiredStep ==
    ASSUME ChannelAssumption, TypeOK, Wired, [Next]_vars
    PROVE  Wired'
  <1> USE DEF Wired, TypeOK
  <1>1. CASE Asks
    BY <1>1 DEF Asks, Assign, Delete
  <1>2. CASE Works
    BY <1>2 DEF Works, Written, Finish
  <1>3. CASE Hears
    <2> SUFFICES ASSUME NEW s \in Screen, HearHello(s) \/ HearReport(s)
                 PROVE  Wired'
      BY <1>3 DEF Hears
    <2>1. link[s] # 0 /\ link' = link /\ up' = [up EXCEPT ![s] = Tail(@)]
      BY DEF HearHello, HearReport
    <2> QED BY <2>1
  <1>4. CASE Closes
    BY <1>4 DEF Closes, NoticeClose
  <1>5. CASE Gets
    BY <1>5 DEF Gets, Get
  <1>6. CASE Dials
    <2> SUFFICES ASSUME NEW s \in Screen, Dial(s)
                 PROVE  Wired'
      BY <1>6 DEF Dials
    <2>1. \E n \in Slot : \E f : link' = [link EXCEPT ![s] = n] /\ up' = [up EXCEPT ![s] = f]
      BY DEF Dial
    <2> QED BY <2>1 DEF ChannelAssumption
  <1>7. CASE Trouble
    BY <1>7 DEF Trouble, Restart, Lose, Reload, Drop
  <1>8. CASE Minds
    <2> SUFFICES ASSUME NEW s \in Screen, NEW v \in Verdict, Conclude(s, v)
                 PROVE  Wired'
      BY <1>8 DEF Minds
    <2>1. link' = link /\ (link[s] = 0 => up' = up) /\ \A r \in Screen \ {s} : up'[r] = up[r]
      BY DEF Conclude
    <2> QED BY <2>1
  <1>9. CASE UNCHANGED vars
    BY <1>9 DEF vars
  <1> QED BY <1>1, <1>2, <1>3, <1>4, <1>5, <1>6, <1>7, <1>8, <1>9 DEF Next

LEMMA SoundStep ==
    ASSUME ChannelAssumption, SoundInv, [Next]_vars
    PROVE  SoundInv'
  <1> USE DEF SoundInv
  <1>0. Wired'
    BY WiredStep DEF RecordSound
  <1> SUFFICES RecordSound'
    BY <1>0
  <1>1. ASSUME NEW o \in Op, NEW T \in Targetings, NEW x \in Source \cup {NoSource}, Assign(o, T, x)
        PROVE  RecordSound'
    BY <1>1, AssignSound
  <1>2. ASSUME NEW o \in Op, NEW x \in Source, Delete(o, x) PROVE RecordSound'
    BY <1>2, DeleteSound
  <1>3. ASSUME NEW o \in Op, Written(o) \/ Finish(o) PROVE RecordSound'
    BY <1>3, WrittenSound, FinishSound
  <1>4. ASSUME NEW s \in Screen, HearHello(s) \/ HearReport(s) PROVE RecordSound'
    BY <1>4, HearHelloSound, HearReportSound
  <1>5. ASSUME NEW s \in Screen, NEW n \in Slot, NoticeClose(s, n) PROVE RecordSound'
    BY <1>5, NoticeCloseSound
  <1>6. ASSUME NEW s \in Screen, Get(s) \/ Dial(s) PROVE RecordSound'
    BY <1>6, GetSound, DialSound
  <1>7. ASSUME NEW s \in Screen, Lose(s) \/ Reload(s) PROVE RecordSound'
    BY <1>7, LoseSound, ReloadSound
  <1>8. Restart => RecordSound'
    BY RestartSound
  <1>9. ASSUME NEW s \in Screen, NEW v \in Verdict, Conclude(s, v) PROVE RecordSound'
    BY <1>9, ConcludeSound
  <1>10. CASE UNCHANGED vars
    BY <1>10 DEF vars, RecordSound, TypeOK, OnlyOnlineSpeak, GoneIsSilent
  <1> QED BY <1>1, <1>2, <1>3, <1>4, <1>5, <1>6, <1>7, <1>8, <1>9, <1>10
          DEF Next, Asks, Works, Hears, Closes, Gets, Dials, Trouble, Minds

(* However requests, sockets, pages and restarts interleave, the record of *)
(* what players said (source-health.ts) holds nothing from a screen        *)
(* without a socket and nothing about a source that is gone.               *)
THEOREM RecordStaysSound == Spec => []RecordSound
  <1> USE ChannelAssumption
  <1>1. Init => SoundInv
    BY InitSound DEF SoundInv, Wired, Init
  <1>2. SoundInv /\ [Next]_vars => SoundInv'
    BY SoundStep
  <1>3. SoundInv => RecordSound
    BY DEF SoundInv
  <1> QED BY <1>1, <1>2, <1>3, PTL DEF Spec

-----------------------------------------------------------------------------
(* Requests, as the sets of what they have written, touched and ahead.     *)

Touched(p) == {t.scr : t \in p.touched}

(* What is not shown is not assigned either. *)
Plain(c) == c.surface = NoSource => c.source = NoSource

RowOf(w, s) == w.do = "row" /\ w.scr = s

(* A request writes the rows of screens it touched, a delete undoes a      *)
(* source that left the library first, and an assignment gives all its     *)
(* screens the same.                                                       *)
Regular(p) ==
    /\ \A w \in Range(p.todo) : w.do = "row" => w.scr \in Touched(p) /\ Plain(w.to)
    /\ (\E w \in Range(p.todo) : w.do # "row") => p.x \notin library
    /\ p.gone \cap library = {}
    /\ p.rest # <<>> => \A t \in p.touched : t.surface = p.x

RequestInv == \A o \in Op : Regular(ops[o])

LibraryInv ==
    /\ library \subseteq libraryRows
    /\ \A s \in Screen : slice[s].source \in library \cup {NoSource}
    /\ \A s \in Screen : Plain(slice[s]) /\ Plain(row[s])

(* A screen no two requests crossed on: one request at most is about it,   *)
(* what that has still to write is what memory holds, and memory and store *)
(* agree when it has nothing more to write there.                          *)
Stored(s) ==
    /\ \A o, q \in Op : s \in Targets(ops[o]) /\ s \in Targets(ops[q]) => o = q
    /\ \A o \in Op : \A w \in Range(ops[o].todo) : RowOf(w, s) => w.to = slice[s]
    /\ \A o \in Op : \A t \in ops[o].touched : t.scr = s => t.surface = slice[s].surface
    /\ (\A o \in Op : \A w \in Range(ops[o].todo) : ~RowOf(w, s)) => slice[s] = Hydrated(s)

StoreInv == \A s \in Screen \ raced : Stored(s)

WriteInv == LibraryInv /\ RequestInv /\ StoreInv

LEMMA RangeTail ==
    ASSUME NEW S, NEW q \in Seq(S), q # <<>>
    PROVE  /\ Head(q) \in S /\ Tail(q) \in Seq(S)
           /\ Range(q) = {Head(q)} \cup Range(Tail(q))
  <1>1. /\ Head(q) \in S /\ Tail(q) \in Seq(S) /\ Len(Tail(q)) = Len(q) - 1
        /\ \A i \in 1 .. Len(Tail(q)) : Tail(q)[i] = q[i + 1]
    BY HeadTailProperties
  <1>2. Len(q) \in Nat \ {0} /\ Head(q) = q[1]
    BY EmptySeq
  <1>3. Range(q) = {q[i] : i \in 1 .. Len(q)} /\ Range(Tail(q)) = {Tail(q)[i] : i \in 1 .. Len(Tail(q))}
    BY <1>1, RangeEquality
  <1>4. ASSUME NEW i \in 1 .. Len(q) PROVE q[i] \in {Head(q)} \cup Range(Tail(q))
    <2>1. CASE i = 1
      BY <1>2, <2>1
    <2>2. CASE i # 1
      <3>1. i - 1 \in 1 .. Len(Tail(q)) /\ (i - 1) + 1 = i
        BY <1>1, <1>2, <2>2
      <3>2. Tail(q)[i - 1] = q[i]
        BY <1>1, <3>1
      <3> QED BY <1>3, <3>1, <3>2
    <2> QED BY <2>1, <2>2
  <1>5. ASSUME NEW i \in 1 .. Len(Tail(q)) PROVE Tail(q)[i] \in Range(q)
    <2>1. i + 1 \in 1 .. Len(q)
      BY <1>1, <1>2
    <2> QED BY <1>1, <1>3, <2>1
  <1>6. Head(q) \in Range(q)
    BY <1>2, <1>3
  <1> QED BY <1>1, <1>3, <1>4, <1>5, <1>6

LEMMA RangeNone == \A S : Range(<<>>) = {} /\ \A q \in Seq(S) : Range(q) = {} => q = <<>>
  <1>1. Range(<<>>) = {}
    BY DEF Range
  <1>2. ASSUME NEW S, NEW q \in Seq(S), Range(q) = {} PROVE q = <<>>
    <2> SUFFICES ASSUME q # <<>> PROVE FALSE
      OBVIOUS
    <2>1. Range(q) = {Head(q)} \cup Range(Tail(q))
      BY RangeTail
    <2>2. Head(q) \in Range(q)
      BY <2>1
    <2> QED BY <1>2, <2>2
  <1> QED BY <1>1, <1>2

LEMMA RangeOne == ASSUME NEW a PROVE Range(<<a>>) = {a}
  BY DEF Range

LEMMA IdleView == Range(Idle.todo) = {} /\ Touched(Idle) = {} /\ Targets(Idle) = {} /\ Regular(Idle)
  <1>1. Idle.todo = <<>> /\ Idle.rest = <<>> /\ Idle.touched = {} /\ Idle.gone = {}
    BY DEF Idle, Asked
  <1>2. Range(Idle.todo) = {}
    BY <1>1, RangeNone
  <1> QED BY <1>1, <1>2 DEF Touched, Targets, Regular

LEMMA TargetsView ==
    ASSUME NEW p
    PROVE  Targets(p) = Touched(p) \cup Range(p.rest)
  BY DEF Targets, Touched, Range

LEMMA ReachView ==
    ASSUME NEW p \in Request, p.rest # <<>>
    PROVE  LET q == Reach(p) s == Head(p.rest) IN
           /\ Range(q.todo) = {[do |-> "row", scr |-> s, to |-> Shown(p.x)]}
           /\ q.touched = p.touched \cup {[scr |-> s, surface |-> p.x]}
           /\ q.x = p.x /\ q.gone = p.gone
           /\ s \in Targets(p) /\ Targets(q) = Targets(p) /\ Touched(q) = Touched(p) \cup {s}
  <1> DEFINE q == Reach(p)  s == Head(p.rest)
  <1>1. /\ q.todo = <<[do |-> "row", scr |-> s, to |-> Shown(p.x)]>>
        /\ q.touched = p.touched \cup {[scr |-> s, surface |-> p.x]}
        /\ q.x = p.x /\ q.gone = p.gone /\ q.rest = Tail(p.rest)
    BY DEF Reach
  <1>2. Range(p.rest) = {s} \cup Range(q.rest)
    BY <1>1, RangeTail DEF Request
  <1>3. Range(q.todo) = {[do |-> "row", scr |-> s, to |-> Shown(p.x)]}
    BY <1>1, RangeOne
  <1>4. Touched(q) = Touched(p) \cup {s}
    <2> HIDE DEF q, s
    <2>1. PICK e : e = [scr |-> s, surface |-> p.x]
      OBVIOUS
    <2>2. e.scr = s /\ q.touched = p.touched \cup {e}
      BY <1>1, <2>1
    <2> HIDE <2>1
    <2> QED BY <2>2 DEF Touched
  <1> HIDE DEF q, s
  <1>5. s \in Targets(p) /\ Targets(q) = Targets(p)
    BY <1>2, <1>4, TargetsView
  <1> QED BY <1>1, <1>3, <1>4, <1>5 DEF q, s

LEMMA ResumedView ==
    ASSUME NEW p \in Request, p.todo # <<>>, NEW T
    PROVE  LET q == Resumed(p, T) IN
           /\ Head(p.todo) \in Write /\ Range(p.todo) = {Head(p.todo)} \cup Range(q.todo)
           /\ q.touched = p.touched /\ q.x = p.x /\ q.gone = p.gone /\ q.rest = T
           /\ Touched(q) = Touched(p)
  <1>1. p.todo \in Seq(Write)
    BY DEF Request
  <1>2. Head(p.todo) \in Write /\ Range(p.todo) = {Head(p.todo)} \cup Range(Tail(p.todo))
    BY <1>1, RangeTail
  <1> QED BY <1>2 DEF Resumed, Touched

(* What a write that returns leaves of its request: it goes on with what   *)
(* is left of the present target, or comes to the next.                    *)
Stays(o, p, n) ==
    /\ n.touched = p.touched /\ Targets(n) \subseteq Targets(p)
    /\ n.rest = <<>> \/ n.rest = p.rest
    /\ UNCHANGED <<slice, raced>>

Reaches(o, p, n, s) ==
    /\ Range(p.todo) = {Head(p.todo)} /\ p.rest # <<>> /\ p.x \in library \cup {NoSource}
    /\ Range(n.todo) = {[do |-> "row", scr |-> s, to |-> Shown(p.x)]}
    /\ n.touched = p.touched \cup {[scr |-> s, surface |-> p.x]}
    /\ s \in Targets(p) /\ Targets(n) = Targets(p)
    /\ slice' = [slice EXCEPT ![s] = Shown(p.x)]
    /\ raced' = IF Alone(o, s) THEN raced \ {s} ELSE raced

LEMMA WrittenView ==
    ASSUME TypeOK, NEW o \in Op, Written(o)
    PROVE  \E n : LET p == ops[o] IN
           /\ ops' = [ops EXCEPT ![o] = n] /\ n.x = p.x /\ n.gone = p.gone
           /\ p \in Request /\ Head(p.todo) \in Write /\ Head(p.todo) \in Range(p.todo)
           /\ \/ Range(p.todo) = {Head(p.todo)} \cup Range(n.todo) /\ Stays(o, p, n)
              \/ \E s \in Screen : Reaches(o, p, n, s)
  <1> DEFINE p == ops[o]
             q == Resumed(p, p.rest)
             more == q.todo = <<>> /\ q.rest # <<>>
             goes == more /\ p.x \in library \cup {NoSource}
             next == IF goes THEN Reach(q) ELSE Resumed(p, IF more THEN <<>> ELSE p.rest)
  <1>1. p \in Request /\ p.todo # <<>> /\ p.rest \in Seq(Screen)
    BY DEF Written, TypeOK, Request
  <1>2. /\ ops' = [ops EXCEPT ![o] = next]
        /\ slice' = IF goes THEN [slice EXCEPT ![Head(q.rest)] = Shown(p.x)] ELSE slice
        /\ raced' = IF goes /\ Alone(o, Head(q.rest)) THEN raced \ {Head(q.rest)} ELSE raced
    BY DEF Written
  <1>3. /\ q \in Request /\ Head(p.todo) \in Write /\ Range(p.todo) = {Head(p.todo)} \cup Range(q.todo)
        /\ q.touched = p.touched /\ q.x = p.x /\ q.gone = p.gone /\ q.rest = p.rest
        /\ Touched(q) = Touched(p)
    BY <1>1, ResumedView, ResumedType, ZenonT(40)
  <1>4. PICK e : e = Resumed(p, <<>>)
    OBVIOUS
  <1>5. /\ Range(p.todo) = {Head(p.todo)} \cup Range(e.todo)
        /\ e.touched = p.touched /\ e.x = p.x /\ e.gone = p.gone /\ e.rest = <<>>
        /\ Touched(e) = Touched(p)
    <2> HIDE DEF p
    <2> QED BY <1>1, <1>4, ResumedView
  <1>6. PICK n : n = next
    OBVIOUS
  <1>7. CASE goes
    <2>1. n = Reach(q)
      BY <1>6, <1>7
    <2> DEFINE s == Head(q.rest)
    <2>2. /\ Range(n.todo) = {[do |-> "row", scr |-> s, to |-> Shown(q.x)]}
          /\ n.touched = q.touched \cup {[scr |-> s, surface |-> q.x]}
          /\ n.x = q.x /\ n.gone = q.gone
          /\ s \in Targets(q) /\ Targets(n) = Targets(q)
      <3> HIDE DEF q
      <3> QED BY <1>3, <1>7, <2>1, ReachView
    <2>3. s \in Screen
      <3> HIDE DEF q
      <3> QED BY <1>3, <1>7, ReachType
    <2>4. Range(q.todo) = {}
      BY <1>7, RangeNone
    <2>5. Targets(q) = Targets(p)
      <3> HIDE DEF q, p
      <3> QED BY <1>3, TargetsView
    <2>6. slice' = [slice EXCEPT ![s] = Shown(p.x)] /\ raced' = IF Alone(o, s) THEN raced \ {s} ELSE raced
      BY <1>2, <1>7
    <2>7. p.x \in library \cup {NoSource} /\ p.rest # <<>>
      BY <1>3, <1>7
    <2>8. ops' = [ops EXCEPT ![o] = n]
      BY <1>2, <1>6
    <2> HIDE DEF p, q, s, goes, next
    <2>9. Reaches(o, p, n, s)
      BY <1>3, <2>2, <2>4, <2>5, <2>6, <2>7 DEF Reaches
    <2> QED BY <1>1, <1>3, <2>2, <2>3, <2>8, <2>9 DEF p
  <1>8. CASE ~goes
    <2>1. UNCHANGED <<slice, raced>>
      BY <1>2, <1>8
    <2>2. n = q \/ n = e
      BY <1>4, <1>6, <1>8
    <2>3. ops' = [ops EXCEPT ![o] = n]
      BY <1>2, <1>6
    <2> HIDE DEF p, q, goes, next
    <2>4. Targets(n) \subseteq Targets(p)
      <3>1. Range(<<>>) = {}
        BY RangeNone
      <3> QED BY <1>3, <1>5, <2>2, <3>1, TargetsView
    <2>5. Stays(o, p, n)
      BY <1>3, <1>5, <2>1, <2>2, <2>4 DEF Stays
    <2> QED BY <1>1, <1>3, <1>5, <2>2, <2>3, <2>5 DEF p
  <1> QED BY <1>7, <1>8

-----------------------------------------------------------------------------
(* A request begins. *)

LEMMA AssignView ==
    ASSUME TypeOK, NEW o \in Op, NEW T \in Targetings, NEW x \in Source \cup {NoSource}, Assign(o, T, x)
    PROVE  \E n : \E s \in Screen :
           /\ ops[o] = Idle /\ ops' = [ops EXCEPT ![o] = n]
           /\ Range(n.todo) = {[do |-> "row", scr |-> s, to |-> Shown(x)]}
           /\ n.touched = {[scr |-> s, surface |-> x]} /\ Touched(n) = {s} /\ n.x = x /\ n.gone = {}
           /\ s \in Targets(n)
           /\ slice' = [slice EXCEPT ![s] = Shown(x)]
           /\ raced' = (raced \ {s}) \cup {r \in Targets(n) : Busy(r)}
           /\ x \in library \cup {NoSource}
  <1>1. T \in Seq(Screen) /\ T # <<>>
    BY TargetingsType
  <1>2. PICK p : p = Asked(T, x)
    OBVIOUS
  <1>3. p \in Request /\ p.rest = T /\ p.touched = {} /\ p.gone = {} /\ p.x = x
    BY <1>1, <1>2 DEF Asked, Request, Choice
  <1>4. PICK n : n = Reach(p)
    OBVIOUS
  <1>5. PICK s \in Screen : s = Head(T)
    BY <1>1, <1>3, ReachType
  <1>6. /\ Range(n.todo) = {[do |-> "row", scr |-> s, to |-> Shown(x)]}
        /\ n.touched = {} \cup {[scr |-> s, surface |-> x]} /\ n.x = x /\ n.gone = {}
        /\ s \in Targets(p) /\ Targets(n) = Targets(p) /\ Touched(n) = Touched(p) \cup {s}
    BY <1>1, <1>3, <1>4, <1>5, ReachView
  <1>7. Touched(p) = {} /\ Targets(p) = Range(T)
    BY <1>3, TargetsView DEF Touched
  <1>8. /\ ops' = [ops EXCEPT ![o] = n] /\ ops[o] = Idle
        /\ slice' = [slice EXCEPT ![s] = Shown(x)]
        /\ raced' = (raced \ Touched(n)) \cup {r \in Range(T) : Busy(r)}
        /\ x \in library \cup {NoSource}
    BY <1>2, <1>4, <1>5 DEF Assign, Starts, Active, Touched
  <1> QED BY <1>6, <1>7, <1>8

LEMMA SetToSeqOnto ==
    ASSUME NEW S, IsFiniteSet(S)
    PROVE  \A s \in S : \E i \in 1 .. Cardinality(S) : SetToSeq(S)[i] = s
  <1>1. Cardinality(S) \in Nat /\ ExistsBijection(1..Cardinality(S), S)
    BY FS_CardinalityType
  <1>2. PICK g : g \in Bijection(1..Cardinality(S), S)
    BY <1>1 DEF ExistsBijection
  <1>3. g \in [1..Cardinality(S) -> S] /\ IsInjective(g)
    BY <1>2 DEF Bijection, Injection, IsInjective
  <1>4. PICK f : f = SetToSeq(S)
    OBVIOUS
  <1>5. f \in [1..Cardinality(S) -> S] /\ IsInjective(f)
    BY <1>3, <1>4 DEF SetToSeq
  <1>6. f \in Injection(1..Cardinality(S), S)
    BY <1>5 DEF Injection, IsInjective
  <1>7. Cardinality(1..Cardinality(S)) = Cardinality(S)
    BY <1>1, FS_Interval
  <1>8. f \in Surjection(1..Cardinality(S), S)
    BY <1>6, <1>7, FS_Injection
  <1> QED BY <1>4, <1>8 DEF Surjection

LEMMA DeleteView ==
    ASSUME ChannelAssumption, TypeOK, NEW o \in Op, NEW x \in Source, Delete(o, x)
    PROVE  \E n : LET S == {s \in Screen : slice[s].source = x} IN
           /\ ops[o] = Idle /\ ops' = [ops EXCEPT ![o] = n]
           /\ Range(n.todo) = {[do |-> "unassign"], [do |-> "drop"]}
                 \cup {[do |-> "row", scr |-> s, to |-> Shown(NoSource)] : s \in S}
           /\ n.touched = {[scr |-> s, surface |-> NoSource] : s \in S}
           /\ n.x = x /\ n.gone = {x} /\ n.rest = <<>>
           /\ Touched(n) = S /\ Targets(n) = S
           /\ library' = library \ {x}
           /\ slice' = [s \in Screen |-> IF s \in S THEN Shown(NoSource) ELSE slice[s]]
           /\ raced' = (raced \ S) \cup {s \in S : Busy(s)}
  <1> DEFINE S == {s \in Screen : slice[s].source = x}
             Clear(s) == [do |-> "row", scr |-> s, to |-> Shown(NoSource)]
             Clears == [i \in 1..Cardinality(S) |-> Clear(SetToSeq(S)[i])]
             First == <<[do |-> "unassign"], [do |-> "drop"]>>
             n == [todo |-> First \o Clears, rest |-> <<>>, x |-> x, gone |-> {x},
                   touched |-> {[scr |-> s, surface |-> NoSource] : s \in S}]
  <1>1. IsFiniteSet(S)
    BY FS_Subset DEF ChannelAssumption
  <1>2. /\ Cardinality(S) \in Nat /\ SetToSeq(S) \in [1..Cardinality(S) -> S]
        /\ \A s \in S : \E i \in 1 .. Cardinality(S) : SetToSeq(S)[i] = s
    BY <1>1, SetToSeqType, SetToSeqOnto
  <1>3. Range(Clears) = {Clear(s) : s \in S}
    <2> HIDE DEF S, Clear
    <2> QED BY <1>2 DEF Range
  <1>4. Clears \in Seq(Write) /\ First \in Seq(Write)
    <2>1. Shown(NoSource) \in Content
      BY ShownType DEF Choice
    <2>2. \A s \in S : Clear(s) \in Write
      BY <2>1 DEF Write
    <2> HIDE DEF S, Clear
    <2>3. Clears \in [1..Cardinality(S) -> Write]
      BY <1>2, <2>2
    <2>4. Clears \in Seq(Write)
      <3> HIDE DEF Clears
      <3> QED BY <1>2, <2>3, SeqDef
    <2>5. First \in Seq(Write)
      BY DEF Write
    <2> QED BY <2>4, <2>5
  <1>5. Range(First) = {[do |-> "unassign"], [do |-> "drop"]}
    BY DEF Range
  <1>6. Range(First \o Clears) = Range(First) \cup Range(Clears)
    <2> HIDE DEF First, Clears
    <2> QED BY <1>4, RangeConcatenation
  <1>7. Range(n.todo) = {[do |-> "unassign"], [do |-> "drop"]} \cup {Clear(s) : s \in S}
    <2>1. n.todo = First \o Clears
      OBVIOUS
    <2> HIDE DEF n, First, Clears, Clear, S
    <2> QED BY <1>3, <1>5, <1>6, <2>1
  <1>8. Touched(n) = S
    <2>1. n.touched = {[scr |-> s, surface |-> NoSource] : s \in S}
      OBVIOUS
    <2> HIDE DEF n, S
    <2>2. ASSUME NEW s \in S PROVE s \in Touched(n)
      <3>1. PICK t : t = [scr |-> s, surface |-> NoSource]
        OBVIOUS
      <3>2. t \in n.touched /\ t.scr = s
        BY <2>1, <3>1
      <3> QED BY <3>2 DEF Touched
    <2>3. ASSUME NEW t \in n.touched PROVE t.scr \in S
      BY <2>1
    <2> QED BY <2>2, <2>3 DEF Touched
  <1>9. Targets(n) = S
    <2>1. n.rest = <<>>
      OBVIOUS
    <2> HIDE DEF n, S
    <2> QED BY <1>8, <2>1, TargetsView, RangeNone
  <1>10. /\ ops' = [ops EXCEPT ![o] = n] /\ ops[o] = Idle
         /\ raced' = (raced \ {t.scr : t \in n.touched}) \cup {s \in S : Busy(s)}
         /\ library' = library \ {x}
         /\ slice' = [s \in Screen |-> IF s \in S THEN Shown(NoSource) ELSE slice[s]]
    BY DEF Delete, Starts, Active
  <1>11. raced' = (raced \ S) \cup {s \in S : Busy(s)}
    BY <1>8, <1>10 DEF Touched
  <1>12. /\ n.touched = {[scr |-> s, surface |-> NoSource] : s \in S}
         /\ n.x = x /\ n.gone = {x} /\ n.rest = <<>>
    OBVIOUS
  <1> QED BY <1>7, <1>8, <1>9, <1>10, <1>11, <1>12

(* A request that begins owes its first rows, and is alone where nothing   *)
(* was under way; elsewhere the screens are raced.                         *)
LEMMA Begins ==
    ASSUME TypeOK, RequestInv, StoreInv, NEW o \in Op, NEW n,
           ops[o] = Idle, ops' = [ops EXCEPT ![o] = n],
           raced' = (raced \ Touched(n)) \cup {r \in Targets(n) : Busy(r)},
           UNCHANGED <<row, libraryRows>>,
           \A r \in Screen \ Touched(n) : slice'[r] = slice[r],
           \A r \in Screen \ Touched(n) : \A w \in Range(n.todo) : ~RowOf(w, r),
           \A r \in Touched(n) : \E w \in Range(n.todo) : RowOf(w, r),
           \A r \in Touched(n) : \A w \in Range(n.todo) : RowOf(w, r) => w.to = slice'[r],
           \A t \in n.touched : t.surface = slice'[t.scr].surface
    PROVE  StoreInv'
  <1>1. ops'[o] = n /\ \A k \in Op \ {o} : ops'[k] = ops[k]
    BY DEF TypeOK
  <1>2. Range(ops[o].todo) = {} /\ Touched(ops[o]) = {} /\ Targets(ops[o]) = {}
    BY IdleView
  <1>3. Touched(n) \subseteq Targets(n)
    BY TargetsView
  <1>4. \A k \in Op : \A r : r \notin Targets(ops[k]) =>
           /\ \A w \in Range(ops[k].todo) : ~RowOf(w, r)
           /\ \A t \in ops[k].touched : t.scr # r
    BY TargetsView DEF RequestInv, Regular, RowOf, Touched
  <1>t. \A t \in n.touched : t.scr \in Touched(n)
    BY DEF Touched
  <1> SUFFICES ASSUME NEW s \in Screen, s \notin raced'
               PROVE  Stored(s)'
    BY DEF StoreInv
  <1>5. s \in Targets(n) => \A k \in Op : s \notin Targets(ops[k])
    BY DEF Busy
  <1>6. CASE s \in Touched(n)
    <2>1. \A k \in Op : s \notin Targets(ops[k])
      BY <1>3, <1>5, <1>6
    <2>2. \A k, q \in Op : s \in Targets(ops'[k]) /\ s \in Targets(ops'[q]) => k = q
      BY <1>1, <2>1
    <2>3. \A k \in Op : \A w \in Range(ops'[k].todo) : RowOf(w, s) => w.to = slice'[s]
      BY <1>1, <1>4, <1>6, <2>1
    <2>4. \A k \in Op : \A t \in ops'[k].touched : t.scr = s => t.surface = slice'[s].surface
      BY <1>1, <1>4, <2>1
    <2>5. ~\A k \in Op : \A w \in Range(ops'[k].todo) : ~RowOf(w, s)
      BY <1>1, <1>6
    <2> QED BY <2>2, <2>3, <2>4, <2>5 DEF Stored
  <1>7. CASE s \notin Touched(n)
    <2>1. Stored(s) /\ slice'[s] = slice[s]
      BY <1>7 DEF StoreInv
    <2>2. \A k, q \in Op : s \in Targets(ops'[k]) /\ s \in Targets(ops'[q]) => k = q
      BY <1>1, <1>5, <2>1 DEF Stored
    <2>3. \A k \in Op : \A w \in Range(ops'[k].todo) : RowOf(w, s) => w.to = slice'[s]
      BY <1>1, <1>7, <2>1 DEF Stored
    <2>4. \A k \in Op : \A t \in ops'[k].touched : t.scr = s => t.surface = slice'[s].surface
      BY <1>1, <1>t, <1>7, <2>1 DEF Stored
    <2>5. (\A k \in Op : \A w \in Range(ops'[k].todo) : ~RowOf(w, s)) => slice'[s] = Hydrated(s)
      BY <1>1, <1>2, <2>1 DEF Stored
    <2>6. Hydrated(s)' = Hydrated(s)
      BY DEF Hydrated
    <2> QED BY <2>2, <2>3, <2>4, <2>5, <2>6 DEF Stored
  <1> QED BY <1>6, <1>7

LEMMA ShownPlain == \A x : Plain(Shown(x)) /\ Shown(x).surface = x /\ Shown(x).source = x
  BY DEF Plain, Shown

LEMMA AssignWrites ==
    ASSUME ChannelAssumption, TypeOK, WriteInv,
           NEW o \in Op, NEW T \in Targetings, NEW x \in Source \cup {NoSource}, Assign(o, T, x)
    PROVE  WriteInv'
  <1>1. PICK n : \E s \in Screen :
           /\ ops[o] = Idle /\ ops' = [ops EXCEPT ![o] = n]
           /\ Range(n.todo) = {[do |-> "row", scr |-> s, to |-> Shown(x)]}
           /\ n.touched = {[scr |-> s, surface |-> x]} /\ Touched(n) = {s} /\ n.x = x /\ n.gone = {}
           /\ s \in Targets(n)
           /\ slice' = [slice EXCEPT ![s] = Shown(x)]
           /\ raced' = (raced \ {s}) \cup {r \in Targets(n) : Busy(r)}
           /\ x \in library \cup {NoSource}
    BY AssignView
  <1>2. PICK s \in Screen :
           /\ ops[o] = Idle /\ ops' = [ops EXCEPT ![o] = n]
           /\ Range(n.todo) = {[do |-> "row", scr |-> s, to |-> Shown(x)]}
           /\ n.touched = {[scr |-> s, surface |-> x]} /\ Touched(n) = {s} /\ n.x = x /\ n.gone = {}
           /\ s \in Targets(n)
           /\ slice' = [slice EXCEPT ![s] = Shown(x)]
           /\ raced' = (raced \ {s}) \cup {r \in Targets(n) : Busy(r)}
           /\ x \in library \cup {NoSource}
    BY <1>1
  <1>3. UNCHANGED <<library, libraryRows, row>>
    BY DEF Assign
  <1>4. slice'[s] = Shown(x) /\ \A r \in Screen \ {s} : slice'[r] = slice[r]
    BY <1>2 DEF TypeOK
  <1>5. LibraryInv'
    BY <1>2, <1>3, <1>4, ShownPlain DEF WriteInv, LibraryInv
  <1>6. RequestInv'
    <2>1. Regular(n)'
      BY <1>2, <1>3, ShownPlain DEF Regular
    <2>2. \A k \in Op : k # o => Regular(ops[k])'
      BY <1>2, <1>3 DEF WriteInv, RequestInv, Regular, TypeOK
    <2> QED BY <1>2, <2>1, <2>2 DEF RequestInv, TypeOK
  <1>7. StoreInv'
    <2>1. PICK w : w = [do |-> "row", scr |-> s, to |-> Shown(x)]
      OBVIOUS
    <2>2. w.do = "row" /\ w.scr = s /\ w.to = Shown(x) /\ Range(n.todo) = {w}
      BY <1>2, <2>1
    <2>3. \A r \in Screen \ Touched(n) : \A v \in Range(n.todo) : ~RowOf(v, r)
      BY <1>2, <2>2 DEF RowOf
    <2>4. /\ \A r \in Touched(n) : \E v \in Range(n.todo) : RowOf(v, r)
          /\ \A r \in Touched(n) : \A v \in Range(n.todo) : RowOf(v, r) => v.to = slice'[r]
      BY <1>2, <1>4, <2>2 DEF RowOf
    <2>5. \A t \in n.touched : t.surface = slice'[t.scr].surface
      BY <1>2, <1>4, ShownPlain
    <2> QED BY <1>2, <1>3, <1>4, <2>3, <2>4, <2>5, Begins DEF WriteInv
  <1> QED BY <1>5, <1>6, <1>7 DEF WriteInv

LEMMA DeleteWrites ==
    ASSUME ChannelAssumption, TypeOK, WriteInv, NEW o \in Op, NEW x \in Source, Delete(o, x)
    PROVE  WriteInv'
  <1> DEFINE S == {s \in Screen : slice[s].source = x}
  <1>1. PICK n :
           /\ ops[o] = Idle /\ ops' = [ops EXCEPT ![o] = n]
           /\ Range(n.todo) = {[do |-> "unassign"], [do |-> "drop"]}
                 \cup {[do |-> "row", scr |-> s, to |-> Shown(NoSource)] : s \in S}
           /\ n.touched = {[scr |-> s, surface |-> NoSource] : s \in S}
           /\ n.x = x /\ n.gone = {x} /\ n.rest = <<>>
           /\ Touched(n) = S /\ Targets(n) = S
           /\ library' = library \ {x}
           /\ slice' = [s \in Screen |-> IF s \in S THEN Shown(NoSource) ELSE slice[s]]
           /\ raced' = (raced \ S) \cup {s \in S : Busy(s)}
    BY DeleteView
  <1>2. UNCHANGED <<libraryRows, row>>
    BY DEF Delete
  <1>3. \A s \in Screen : slice'[s] = IF s \in S THEN Shown(NoSource) ELSE slice[s]
    BY <1>1
  <1>4. LibraryInv'
    BY <1>1, <1>2, <1>3, ShownPlain DEF WriteInv, LibraryInv
  <1>5. /\ \A w \in Range(n.todo) : w.do = "row" => w.scr \in S /\ w.to = Shown(NoSource)
        /\ \A s \in S : \E w \in Range(n.todo) : w.do = "row" /\ w.scr = s
        /\ \A t \in n.touched : t.scr \in S /\ t.surface = NoSource
    <2>1. \A w \in Range(n.todo) : w.do = "row" =>
             \E s \in S : w = [do |-> "row", scr |-> s, to |-> Shown(NoSource)]
      BY <1>1
    <2>2. \A s \in S : [do |-> "row", scr |-> s, to |-> Shown(NoSource)] \in Range(n.todo)
      BY <1>1
    <2> HIDE DEF S
    <2>3. ASSUME NEW w \in Range(n.todo), w.do = "row" PROVE w.scr \in S /\ w.to = Shown(NoSource)
      <3>1. PICK s \in S : w = [do |-> "row", scr |-> s, to |-> Shown(NoSource)]
        BY <2>1, <2>3
      <3> QED BY <3>1
    <2>4. ASSUME NEW s \in S PROVE \E w \in Range(n.todo) : w.do = "row" /\ w.scr = s
      <3>1. PICK w : w = [do |-> "row", scr |-> s, to |-> Shown(NoSource)]
        OBVIOUS
      <3>2. w \in Range(n.todo) /\ w.do = "row" /\ w.scr = s
        BY <2>2, <3>1
      <3> QED BY <3>2
    <2>5. ASSUME NEW t \in n.touched PROVE t.scr \in S /\ t.surface = NoSource
      <3>1. PICK s \in S : t = [scr |-> s, surface |-> NoSource]
        BY <1>1
      <3> QED BY <3>1
    <2> QED BY <2>3, <2>4, <2>5
  <1>6. RequestInv'
    <2>1. Regular(n)'
      BY <1>1, <1>5, ShownPlain DEF Regular
    <2>2. \A k \in Op : k # o => Regular(ops[k])'
      BY <1>1 DEF WriteInv, RequestInv, Regular, TypeOK
    <2> QED BY <1>1, <2>1, <2>2 DEF RequestInv, TypeOK
  <1>7. StoreInv'
    <2>1. \A r \in Screen \ Touched(n) : slice'[r] = slice[r]
      BY <1>1, <1>3
    <2>2. \A r \in Screen \ Touched(n) : \A v \in Range(n.todo) : ~RowOf(v, r)
      BY <1>1, <1>5 DEF RowOf
    <2>3. /\ \A r \in Touched(n) : \E v \in Range(n.todo) : RowOf(v, r)
          /\ \A r \in Touched(n) : \A v \in Range(n.todo) : RowOf(v, r) => v.to = slice'[r]
      BY <1>1, <1>3, <1>5 DEF RowOf
    <2>4. \A t \in n.touched : t.surface = slice'[t.scr].surface
      BY <1>3, <1>5, ShownPlain
    <2> HIDE DEF S
    <2> QED BY <1>1, <1>2, <2>1, <2>2, <2>3, <2>4, Begins DEF WriteInv
  <1> QED BY <1>4, <1>6, <1>7 DEF WriteInv

-----------------------------------------------------------------------------
(* A write is done. *)

(* A request has nothing to write, and pushes nothing, where it is not about. *)
LEMMA NotAbout ==
    ASSUME RequestInv, NEW k \in Op, NEW s, s \notin Targets(ops[k])
    PROVE  /\ \A w \in Range(ops[k].todo) : ~RowOf(w, s)
           /\ \A t \in ops[k].touched : t.scr # s
  BY TargetsView DEF RequestInv, Regular, RowOf, Touched

LEMMA WrittenRows ==
    ASSUME NEW o \in Op, Written(o)
    PROVE  LET p == ops[o]  w == Head(p.todo) IN
           /\ UNCHANGED library
           /\ libraryRows' = IF w.do = "drop" THEN libraryRows \ {p.x} ELSE libraryRows
           /\ w.do = "row" => row' = [row EXCEPT ![w.scr] = w.to]
           /\ w.do = "unassign" => row' = [s \in Screen |-> IF row[s].source = p.x
                                     THEN [row[s] EXCEPT !.source = NoSource] ELSE row[s]]
           /\ w.do \notin {"row", "unassign"} => row' = row
  BY DEF Written

(* The same, row by row. *)
LEMMA WrittenRow ==
    ASSUME TypeOK, NEW o \in Op, Written(o), Head(ops[o].todo) \in Write, NEW s \in Screen
    PROVE  LET p == ops[o]  w == Head(p.todo) IN
           /\ RowOf(w, s) => row'[s] = w.to /\ libraryRows' = libraryRows
           /\ ~RowOf(w, s) =>
                 /\ row'[s].surface = row[s].surface /\ libraryRows' \subseteq libraryRows
                 /\ row'[s].source # row[s].source
                       => w.do # "row" /\ row[s].source = p.x /\ row'[s].source = NoSource
                 /\ \A x \in libraryRows \ libraryRows' : w.do # "row" /\ x = p.x
  <1> DEFINE p == ops[o]  w == Head(p.todo)
  <1>1. /\ libraryRows' = IF w.do = "drop" THEN libraryRows \ {p.x} ELSE libraryRows
        /\ w.do = "row" => row' = [row EXCEPT ![w.scr] = w.to]
        /\ w.do = "unassign" => row' = [r \in Screen |-> IF row[r].source = p.x
                                  THEN [row[r] EXCEPT !.source = NoSource] ELSE row[r]]
        /\ w.do \notin {"row", "unassign"} => row' = row
    BY WrittenRows
  <1>2. row \in [Screen -> Content] /\ row[s] \in Content
    BY DEF TypeOK
  <1>3. [row[s] EXCEPT !.source = NoSource].surface = row[s].surface
        /\ [row[s] EXCEPT !.source = NoSource].source = NoSource
    BY <1>2 DEF Content
  <1>4. w.do = "row" => w.scr \in Screen
    BY DEF Write
  <1> HIDE DEF p, w
  <1>5. CASE w.do = "row"
    BY <1>1, <1>2, <1>4, <1>5 DEF RowOf, p, w
  <1>6. CASE w.do = "unassign"
    <2>1. row'[s] = IF row[s].source = p.x THEN [row[s] EXCEPT !.source = NoSource] ELSE row[s]
      BY <1>1, <1>6
    <2>2. libraryRows' = libraryRows /\ ~RowOf(w, s)
      BY <1>1, <1>6 DEF RowOf
    <2> QED BY <1>3, <1>6, <2>1, <2>2 DEF p, w
  <1>7. CASE w.do \notin {"row", "unassign"}
    BY <1>1, <1>7 DEF RowOf, p, w
  <1> QED BY <1>5, <1>6, <1>7

(* What the store gives back where the row is right and its source known. *)
LEMMA HydratedRight ==
    ASSUME NEW c \in Content, NEW r \in Content, NEW L,
           r.surface = c.surface,
           c.source = (IF r.source \in L THEN r.source ELSE NoSource)
    PROVE  [r EXCEPT !.source = IF @ \in L THEN @ ELSE NoSource] = c
  <1>1. c = [surface |-> c.surface, source |-> c.source]
    BY DEF Content
  <1>2. [r EXCEPT !.source = IF @ \in L THEN @ ELSE NoSource]
           = [surface |-> r.surface, source |-> IF r.source \in L THEN r.source ELSE NoSource]
    BY DEF Content
  <1> QED BY <1>1, <1>2

LEMMA HydratedParts ==
    ASSUME TypeOK, NEW s \in Screen
    PROVE  /\ Hydrated(s).surface = row[s].surface
           /\ Hydrated(s).source = IF row[s].source \in libraryRows THEN row[s].source ELSE NoSource
  BY DEF Hydrated, TypeOK, Content

(* Memory and store agree on a screen once the write on it is done, and a  *)
(* write about other screens leaves them agreed.                           *)
LEMMA Settles ==
    ASSUME ChannelAssumption, TypeOK, TypeOK', LibraryInv, NEW o \in Op, Written(o),
           Head(ops[o].todo) \in Write, Head(ops[o].todo) \in Range(ops[o].todo), Regular(ops[o]),
           NEW s \in Screen,
           RowOf(Head(ops[o].todo), s) => Head(ops[o].todo).to = slice[s],
           ~RowOf(Head(ops[o].todo), s) => slice[s] = Hydrated(s)
    PROVE  slice[s] = Hydrated(s)'
  <1> DEFINE p == ops[o]  w == Head(p.todo)
  <1>1. /\ RowOf(w, s) => row'[s] = w.to /\ libraryRows' = libraryRows
        /\ ~RowOf(w, s) =>
              /\ row'[s].surface = row[s].surface /\ libraryRows' \subseteq libraryRows
              /\ row'[s].source # row[s].source
                    => w.do # "row" /\ row[s].source = p.x /\ row'[s].source = NoSource
              /\ \A x \in libraryRows \ libraryRows' : w.do # "row" /\ x = p.x
    BY WrittenRow
  <1>2. slice[s] \in Content /\ row'[s] \in Content
    BY DEF TypeOK
  <1>3. slice[s].source \in library \cup {NoSource} /\ library \subseteq libraryRows
    BY DEF LibraryInv
  <1>4. NoSource \notin libraryRows
    BY DEF ChannelAssumption, TypeOK
  <1>5. w.do # "row" => p.x \notin library
    BY DEF Regular
  <1> HIDE DEF p, w
  <1>6. /\ row'[s].surface = slice[s].surface
        /\ slice[s].source = IF row'[s].source \in libraryRows' THEN row'[s].source ELSE NoSource
    <2>1. CASE RowOf(w, s)
      BY <1>1, <1>3, <2>1 DEF p, w
    <2>2. CASE ~RowOf(w, s)
      <3>1. /\ slice[s].surface = row[s].surface
            /\ slice[s].source = IF row[s].source \in libraryRows THEN row[s].source ELSE NoSource
        BY <2>2, HydratedParts DEF p, w
      <3> QED BY <1>1, <1>3, <1>4, <1>5, <2>2, <3>1
    <2> QED BY <2>1, <2>2
  <1>7. [row'[s] EXCEPT !.source = IF @ \in libraryRows' THEN @ ELSE NoSource] = slice[s]
    BY <1>2, <1>6, HydratedRight
  <1> QED BY <1>7 DEF Hydrated

LEMMA WrittenWrites ==
    ASSUME ChannelAssumption, TypeOK, TypeOK', WriteInv, NEW o \in Op, Written(o)
    PROVE  WriteInv'
  <1> DEFINE p == ops[o]  w == Head(p.todo)
  <1>1. PICK n :
           /\ ops' = [ops EXCEPT ![o] = n] /\ n.x = p.x /\ n.gone = p.gone
           /\ p \in Request /\ w \in Write /\ w \in Range(p.todo)
           /\ \/ Range(p.todo) = {w} \cup Range(n.todo) /\ Stays(o, p, n)
              \/ \E s \in Screen : Reaches(o, p, n, s)
    BY WrittenView
  <1>2. Regular(p) /\ LibraryInv /\ RequestInv /\ StoreInv
    BY DEF WriteInv, RequestInv
  <1>3. /\ UNCHANGED library
        /\ libraryRows' = IF w.do = "drop" THEN libraryRows \ {p.x} ELSE libraryRows
    BY WrittenRows
  <1>4. ops'[o] = n /\ \A k \in Op \ {o} : ops'[k] = ops[k]
    BY <1>1 DEF TypeOK
  <1>5. \A s \in Screen : Plain(row'[s])
    <2> SUFFICES ASSUME NEW s \in Screen PROVE Plain(row'[s])
      OBVIOUS
    <2>1. /\ RowOf(w, s) => row'[s] = w.to
          /\ ~RowOf(w, s) => /\ row'[s].surface = row[s].surface
                             /\ row'[s].source # row[s].source => row'[s].source = NoSource
      BY <1>1, WrittenRow
    <2> HIDE DEF p, w
    <2> QED BY <1>1, <1>2, <2>1 DEF Regular, RowOf, LibraryInv, Plain
  <1>6. library' \subseteq libraryRows'
    BY <1>1, <1>2, <1>3 DEF LibraryInv, Regular
  <1>7. \A s \in Screen :
           (\A k \in Op \ {o} : \A v \in Range(ops[k].todo) : ~RowOf(v, s))
             /\ (\A v \in Range(p.todo) : RowOf(v, s) => v = w) /\ s \notin raced
               => slice[s] = Hydrated(s)'
    <2> SUFFICES ASSUME NEW s \in Screen, s \notin raced,
                        \A k \in Op \ {o} : \A v \in Range(ops[k].todo) : ~RowOf(v, s),
                        \A v \in Range(p.todo) : RowOf(v, s) => v = w
                 PROVE  slice[s] = Hydrated(s)'
      OBVIOUS
    <2>1. Stored(s)
      BY <1>2 DEF StoreInv
    <2>2. RowOf(w, s) => w.to = slice[s]
      BY <1>1, <2>1 DEF Stored
    <2>3. ASSUME ~RowOf(w, s) PROVE slice[s] = Hydrated(s)
      <3>1. \A k \in Op : \A v \in Range(ops[k].todo) : ~RowOf(v, s)
        BY <2>3
      <3> QED BY <2>1, <3>1 DEF Stored
    <2> QED BY <1>1, <1>2, <2>2, <2>3, Settles
  <1> HIDE DEF p, w
  <1>8. CASE Range(p.todo) = {w} \cup Range(n.todo) /\ Stays(o, p, n)
    <2>1. /\ slice' = slice /\ raced' = raced /\ n.touched = p.touched /\ Targets(n) \subseteq Targets(p)
          /\ n.rest = <<>> \/ n.rest = p.rest
          /\ Range(n.todo) \subseteq Range(p.todo) /\ Touched(n) = Touched(p)
      BY <1>8 DEF Stays, Touched
    <2>2. LibraryInv'
      BY <1>2, <1>3, <1>5, <1>6, <2>1 DEF LibraryInv
    <2>3. RequestInv'
      <3>1. Regular(n)'
        BY <1>1, <1>2, <1>3, <2>1 DEF Regular
      <3>2. \A k \in Op : k # o => Regular(ops[k])'
        BY <1>2, <1>3, <1>4 DEF RequestInv, Regular
      <3> QED BY <1>4, <3>1, <3>2 DEF RequestInv
    <2>4. ASSUME NEW s \in Screen, s \notin raced PROVE Stored(s)'
      <3>1. Stored(s)
        BY <1>2, <2>4 DEF StoreInv
      <3>2. \A k, q \in Op : s \in Targets(ops'[k]) /\ s \in Targets(ops'[q]) => k = q
        BY <1>4, <2>1, <3>1 DEF Stored, p
      <3>3. \A k \in Op : \A v \in Range(ops'[k].todo) : RowOf(v, s) => v.to = slice[s]
        BY <1>4, <2>1, <3>1 DEF Stored, p
      <3>4. \A k \in Op : \A t \in ops'[k].touched : t.scr = s => t.surface = slice[s].surface
        BY <1>4, <2>1, <3>1 DEF Stored, p
      <3>5. ASSUME \A k \in Op : \A v \in Range(ops'[k].todo) : ~RowOf(v, s)
            PROVE  slice[s] = Hydrated(s)'
        <4>1. \A k \in Op \ {o} : \A v \in Range(ops[k].todo) : ~RowOf(v, s)
          BY <1>4, <3>5
        <4>2. \A v \in Range(p.todo) : RowOf(v, s) => v = w
          BY <1>4, <1>8, <3>5
        <4> QED BY <1>7, <2>4, <4>1, <4>2
      <3> QED BY <2>1, <3>2, <3>3, <3>4, <3>5 DEF Stored
    <2> QED BY <2>1, <2>2, <2>3, <2>4 DEF WriteInv, StoreInv
  <1>9. ASSUME NEW r \in Screen, Reaches(o, p, n, r) PROVE WriteInv'
    <2>1. /\ Range(p.todo) = {w} /\ p.rest # <<>> /\ p.x \in library \cup {NoSource}
          /\ Range(n.todo) = {[do |-> "row", scr |-> r, to |-> Shown(p.x)]}
          /\ n.touched = p.touched \cup {[scr |-> r, surface |-> p.x]}
          /\ r \in Targets(p) /\ Targets(n) = Targets(p)
          /\ slice' = [slice EXCEPT ![r] = Shown(p.x)]
          /\ raced' = IF Alone(o, r) THEN raced \ {r} ELSE raced
      BY <1>9 DEF Reaches, w
    <2>2. PICK v : v = [do |-> "row", scr |-> r, to |-> Shown(p.x)]
      OBVIOUS
    <2>3. Range(n.todo) = {v} /\ v.do = "row" /\ v.scr = r /\ v.to = Shown(p.x)
      BY <2>1, <2>2
    <2>4. PICK e : e = [scr |-> r, surface |-> p.x]
      OBVIOUS
    <2>5. n.touched = p.touched \cup {e} /\ e.scr = r /\ e.surface = p.x
      BY <2>1, <2>4
    <2>6. slice'[r] = Shown(p.x) /\ \A s \in Screen \ {r} : slice'[s] = slice[s]
      BY <2>1 DEF TypeOK
    <2>7. r \in Touched(n) /\ \A t \in p.touched : t.surface = p.x
      BY <1>2, <2>1, <2>5 DEF Touched, Regular
    <2>8. LibraryInv'
      BY <1>2, <1>3, <1>5, <1>6, <2>1, <2>6, ShownPlain DEF LibraryInv
    <2>9. RequestInv'
      <3>1. Regular(n)'
        BY <1>1, <1>2, <1>3, <2>3, <2>5, <2>7, ShownPlain DEF Regular
      <3>2. \A k \in Op : k # o => Regular(ops[k])'
        BY <1>2, <1>3, <1>4 DEF RequestInv, Regular
      <3> QED BY <1>4, <3>1, <3>2 DEF RequestInv
    <2>10. ASSUME r \notin raced' PROVE Stored(r)'
      <3>1. \A k \in Op \ {o} : r \notin Targets(ops[k])
        <4>1. CASE Alone(o, r)
          BY <4>1 DEF Alone
        <4>2. CASE r \notin raced
          BY <1>2, <2>1, <4>2 DEF StoreInv, Stored, p
        <4> QED BY <2>1, <2>10, <4>1, <4>2
      <3>2. \A k \in Op \ {o} : /\ \A u \in Range(ops[k].todo) : ~RowOf(u, r)
                                /\ \A t \in ops[k].touched : t.scr # r
        BY <1>2, <3>1, NotAbout
      <3>3. \A k, q \in Op : r \in Targets(ops'[k]) /\ r \in Targets(ops'[q]) => k = q
        BY <1>4, <3>1
      <3>4. \A k \in Op : \A u \in Range(ops'[k].todo) : RowOf(u, r) => u.to = slice'[r]
        BY <1>4, <2>3, <2>6, <3>2
      <3>5. \A k \in Op : \A t \in ops'[k].touched : t.scr = r => t.surface = slice'[r].surface
        BY <1>4, <2>5, <2>6, <2>7, <3>2, ShownPlain
      <3>6. ~\A k \in Op : \A u \in Range(ops'[k].todo) : ~RowOf(u, r)
        BY <1>4, <2>3 DEF RowOf
      <3> QED BY <3>3, <3>4, <3>5, <3>6 DEF Stored
    <2>11. ASSUME NEW s \in Screen, s # r, s \notin raced' PROVE Stored(s)'
      <3>1. s \notin raced /\ Stored(s) /\ slice'[s] = slice[s]
        BY <1>2, <2>1, <2>6, <2>11 DEF StoreInv
      <3>2. \A k, q \in Op : s \in Targets(ops'[k]) /\ s \in Targets(ops'[q]) => k = q
        BY <1>4, <2>1, <3>1 DEF Stored, p
      <3>3. \A k \in Op : \A u \in Range(ops'[k].todo) : RowOf(u, s) => u.to = slice[s]
        BY <1>4, <2>3, <2>11, <3>1 DEF Stored, RowOf
      <3>4. \A k \in Op : \A t \in ops'[k].touched : t.scr = s => t.surface = slice[s].surface
        BY <1>4, <2>5, <2>11, <3>1 DEF Stored, p
      <3>5. ASSUME \A k \in Op : \A u \in Range(ops'[k].todo) : ~RowOf(u, s)
            PROVE  slice[s] = Hydrated(s)'
        <4>1. \A k \in Op \ {o} : \A u \in Range(ops[k].todo) : ~RowOf(u, s)
          BY <1>4, <3>5
        <4>2. \A u \in Range(p.todo) : RowOf(u, s) => u = w
          BY <2>1
        <4> QED BY <1>7, <3>1, <4>1, <4>2
      <3> QED BY <3>1, <3>2, <3>3, <3>4, <3>5 DEF Stored
    <2> QED BY <2>8, <2>9, <2>10, <2>11 DEF WriteInv, StoreInv
  <1> QED BY <1>1, <1>8, <1>9

LEMMA FinishWrites ==
    ASSUME TypeOK, WriteInv, NEW o \in Op, Finish(o)
    PROVE  WriteInv'
  <1>1. /\ UNCHANGED <<library, libraryRows, slice, row, raced>>
        /\ ops'[o] = Idle /\ \A k \in Op \ {o} : ops'[k] = ops[k]
    BY DEF Finish, TypeOK
  <1>2. Range(Idle.todo) = {} /\ Targets(Idle) = {} /\ Idle.touched = {}
        /\ Idle.gone = {} /\ Idle.rest = <<>>
    BY IdleView, IdleType DEF Idle, Asked
  <1>3. LibraryInv'
    BY <1>1 DEF WriteInv, LibraryInv
  <1>4. RequestInv'
    <2>1. \A k \in Op \ {o} : Regular(ops[k])'
      BY <1>1 DEF WriteInv, RequestInv, Regular
    <2>2. Regular(ops[o])'
      BY <1>1, <1>2 DEF Regular
    <2> QED BY <2>1, <2>2 DEF RequestInv
  <1>5. ASSUME NEW s \in Screen, s \notin raced PROVE Stored(s)'
    <2>1. Stored(s)
      BY <1>5 DEF WriteInv, StoreInv
    <2>2. \A k, q \in Op : s \in Targets(ops'[k]) /\ s \in Targets(ops'[q]) => k = q
      BY <1>1, <1>2, <2>1 DEF Stored
    <2>3. \A k \in Op : \A w \in Range(ops'[k].todo) : RowOf(w, s) => w.to = slice'[s]
      BY <1>1, <1>2, <2>1 DEF Stored
    <2>4. \A k \in Op : \A t \in ops'[k].touched : t.scr = s => t.surface = slice'[s].surface
      BY <1>1, <1>2, <2>1 DEF Stored
    <2>5. ASSUME \A k \in Op : \A w \in Range(ops'[k].todo) : ~RowOf(w, s)
          PROVE  slice'[s] = Hydrated(s)'
      <3>1. ops[o].todo = <<>>
        BY DEF Finish
      <3>2. \A k \in Op : \A w \in Range(ops[k].todo) : ~RowOf(w, s)
        BY <1>1, <2>5, <3>1, RangeNone
      <3> QED BY <1>1, <2>1, <3>2 DEF Stored, Hydrated
    <2> QED BY <2>2, <2>3, <2>4, <2>5 DEF Stored
  <1> QED BY <1>1, <1>3, <1>4, <1>5 DEF WriteInv, StoreInv

(* Where no request is under way and memory is what the store holds, all   *)
(* is written.                                                             *)
LEMMA AllIdle ==
    ASSUME LibraryInv, \A o \in Op : ops[o] = Idle, \A s \in Screen : slice[s] = Hydrated(s)
    PROVE  WriteInv
  <1>1. Range(Idle.todo) = {} /\ Targets(Idle) = {} /\ Idle.touched = {} /\ Regular(Idle)
    BY IdleView, IdleType
  <1>2. RequestInv
    BY <1>1 DEF RequestInv
  <1>3. StoreInv
    BY <1>1 DEF StoreInv, Stored
  <1> QED BY <1>2, <1>3 DEF WriteInv

LEMMA RestartWrites ==
    ASSUME ChannelAssumption, TypeOK, WriteInv, Restart
    PROVE  WriteInv'
  <1>1. /\ library' = libraryRows /\ slice' = [s \in Screen |-> Hydrated(s)]
        /\ ops' = [o \in Op |-> Idle] /\ UNCHANGED <<libraryRows, row>>
    BY DEF Restart
  <1>2. \A s \in Screen : slice'[s] = Hydrated(s) /\ Hydrated(s)' = Hydrated(s)
    BY <1>1 DEF Hydrated
  <1>3. LibraryInv'
    <2>1. \A s \in Screen : slice'[s].source \in libraryRows \cup {NoSource} /\ Plain(slice'[s])
      BY <1>2, HydratedParts DEF WriteInv, LibraryInv, Plain
    <2> QED BY <1>1, <2>1 DEF WriteInv, LibraryInv
  <1>4. (\A o \in Op : ops[o] = Idle)' /\ (\A s \in Screen : slice[s] = Hydrated(s))'
    BY <1>1, <1>2
  <1>5. (LibraryInv /\ (\A o \in Op : ops[o] = Idle) /\ (\A s \in Screen : slice[s] = Hydrated(s))
           => WriteInv)'
    BY AllIdle, PTL
  <1> QED BY <1>3, <1>4, <1>5

LEMMA InitWrites == ASSUME ChannelAssumption, Init PROVE WriteInv
  <1>1. \A s \in Screen : slice[s] = Shown(NoSource) /\ row[s] = Shown(NoSource)
    BY DEF Init
  <1>2. \A s \in Screen : slice[s] = Hydrated(s)
    BY <1>1 DEF Hydrated, Shown
  <1>3. LibraryInv
    BY <1>1, ShownPlain DEF Init, LibraryInv
  <1>4. \A o \in Op : ops[o] = Idle
    BY DEF Init
  <1> QED BY <1>2, <1>3, <1>4, AllIdle

(* The socket and the page write nothing. *)
LEMMA OtherWrites ==
    ASSUME WriteInv, UNCHANGED <<library, libraryRows, slice, row, ops, raced>>
    PROVE  WriteInv'
  <1>1. LibraryInv' /\ RequestInv'
    BY DEF WriteInv, LibraryInv, RequestInv, Regular
  <1>2. StoreInv'
    BY DEF WriteInv, StoreInv, Stored, Hydrated
  <1> QED BY <1>1, <1>2 DEF WriteInv

LEMMA WriteStep ==
    ASSUME ChannelAssumption, TypeOK, TypeOK', WriteInv, [Next]_vars
    PROVE  WriteInv'
  <1>1. ASSUME NEW o \in Op, NEW T \in Targetings, NEW x \in Source \cup {NoSource}, Assign(o, T, x)
        PROVE  WriteInv'
    BY <1>1, AssignWrites
  <1>2. ASSUME NEW o \in Op, NEW x \in Source, Delete(o, x) PROVE WriteInv'
    BY <1>2, DeleteWrites
  <1>3. ASSUME NEW o \in Op, Written(o) \/ Finish(o) PROVE WriteInv'
    BY <1>3, WrittenWrites, FinishWrites
  <1>4. Restart => WriteInv'
    BY RestartWrites
  <1>5. CASE \/ Hears \/ Closes \/ Gets \/ Dials \/ Minds \/ UNCHANGED vars
             \/ \E s \in Screen : Lose(s) \/ Reload(s)
    <2>1. UNCHANGED <<library, libraryRows, slice, row, ops, raced>>
      BY <1>5 DEF Hears, Closes, Gets, Dials, Minds, HearHello, HearReport, NoticeClose, Get, Dial,
                  Conclude, Lose, Reload, vars, server
    <2> QED BY <2>1, OtherWrites
  <1> QED BY <1>1, <1>2, <1>3, <1>4, <1>5 DEF Next, Asks, Works, Trouble

(* Where no request is under way, memory and store agree.                  *)
LEMMA WritesDone == ASSUME WriteInv PROVE WrittenThrough
  <1> SUFFICES ASSUME NEW s \in Screen, ~Busy(s), s \notin raced PROVE slice[s] = Hydrated(s)
    BY DEF WrittenThrough
  <1>1. \A o \in Op : s \notin Targets(ops[o])
    BY DEF Busy
  <1>2. \A o \in Op : \A w \in Range(ops[o].todo) : ~RowOf(w, s)
    BY <1>1, NotAbout DEF WriteInv
  <1> QED BY <1>2 DEF WriteInv, StoreInv, Stored

(* However requests, deletes, restarts and the awaits of their writes      *)
(* interleave, what control.ts and state.ts keep in memory of a screen is  *)
(* what a restart would read back, wherever no request is under way and    *)
(* none crossed another.                                                   *)
THEOREM WritesGoThrough == Spec => []WrittenThrough
  <1> USE ChannelAssumption
  <1>1. Init => SoundInv /\ WriteInv
    BY InitSound, InitWrites DEF SoundInv, Wired, Init
  <1>2. SoundInv /\ WriteInv /\ [Next]_vars => SoundInv' /\ WriteInv'
    BY SoundStep, WriteStep DEF SoundInv, RecordSound
  <1>3. WriteInv => WrittenThrough
    BY WritesDone
  <1> QED BY <1>1, <1>2, <1>3, PTL DEF Spec

-----------------------------------------------------------------------------
(* What a page shows. *)

(* What the page will show once it has the renders under way.              *)
Final(s) == IF down[s] = <<>> THEN page[s].shows ELSE Last(down[s])

(* A page that said hello will come to show what memory holds, where no    *)
(* request has touched its screen and none crossed another.                *)
Showing(s) ==
    link[s] \in hub[s] /\ (\A o \in Op : s \notin Touched(ops[o])) => Final(s) = slice[s]

ShowInv == \A s \in Screen \ raced : Showing(s)

LEMMA LastOfTail ==
    ASSUME NEW S, NEW q \in Seq(S), q # <<>>
    PROVE  /\ Tail(q) \in Seq(S) /\ Head(q) \in S
           /\ Tail(q) = <<>> => Last(q) = Head(q)
           /\ Tail(q) # <<>> => Last(q) = Last(Tail(q))
  <1>1. /\ Head(q) \in S /\ Tail(q) \in Seq(S) /\ Len(Tail(q)) = Len(q) - 1
        /\ \A i \in 1 .. Len(Tail(q)) : Tail(q)[i] = q[i + 1]
    BY HeadTailProperties
  <1>2. Len(q) \in Nat \ {0} /\ Head(q) = q[1]
    BY EmptySeq
  <1>3. ASSUME Tail(q) = <<>> PROVE Last(q) = Head(q)
    <2>1. PICK m : m = Tail(q) /\ m \in Seq(S) /\ Len(m) = Len(q) - 1
      BY <1>1
    <2>2. Len(m) = 0
      BY <1>3, <2>1, EmptySeq
    <2>3. Len(q) = 1
      BY <1>2, <2>1, <2>2
    <2> QED BY <1>2, <2>3 DEF Last
  <1>4. ASSUME Tail(q) # <<>> PROVE Last(q) = Last(Tail(q))
    <2>1. Len(Tail(q)) \in 1 .. Len(Tail(q)) /\ Len(Tail(q)) + 1 = Len(q)
      BY <1>1, <1>2, <1>4, EmptySeq
    <2> QED BY <1>1, <2>1 DEF Last
  <1> QED BY <1>1, <1>3, <1>4

LEMMA LastOfAppend ==
    ASSUME NEW S, NEW q \in Seq(S), NEW e \in S
    PROVE  Append(q, e) \in Seq(S) /\ Append(q, e) # <<>> /\ Last(Append(q, e)) = e
           /\ Len(Append(q, e)) = Len(q) + 1
           /\ \A i \in 1 .. Len(q) : Append(q, e)[i] = q[i]
  <1>1. /\ Append(q, e) \in Seq(S) /\ Append(q, e) # <<>> /\ Len(Append(q, e)) = Len(q) + 1
        /\ \A i \in 1 .. Len(q) : Append(q, e)[i] = q[i]
        /\ Append(q, e)[Len(q) + 1] = e
    BY AppendProperties
  <1> QED BY <1>1 DEF Last

(* What is pushed of a plain slice is that slice. *)
LEMMA RenderOwn ==
    ASSUME TypeOK, LibraryInv, NEW s \in Screen
    PROVE  Render(s, slice[s].surface) = slice[s] /\ slice[s] \in Content
  <1>1. slice[s] \in Content /\ slice[s] = [surface |-> slice[s].surface, source |-> slice[s].source]
    BY DEF TypeOK, Content
  <1>2. slice[s].surface = NoSource => slice[s].source = NoSource
    BY DEF LibraryInv, Plain
  <1> QED BY <1>1, <1>2 DEF Render, Shown

(* Nothing changes what a screen will show but a request that touches it,  *)
(* a hello, and the page that takes a render.                              *)
LEMMA ShowStill ==
    ASSUME NEW s \in Screen, Showing(s), link'[s] \in hub'[s] => link[s] \in hub[s],
           Final(s)' = Final(s), slice'[s] = slice[s],
           (\A k \in Op : s \notin Touched(ops'[k])) => \A k \in Op : s \notin Touched(ops[k])
    PROVE  Showing(s)'
  BY DEF Showing, Touched

LEMMA BeginShows ==
    ASSUME TypeOK, ShowInv, NEW o \in Op, NEW n, ops[o] = Idle, ops' = [ops EXCEPT ![o] = n],
           raced \ Touched(n) \subseteq raced',
           \A s \in Screen \ Touched(n) : slice'[s] = slice[s],
           UNCHANGED <<link, hub, down, page>>
    PROVE  ShowInv'
  <1> SUFFICES ASSUME NEW s \in Screen, s \notin raced' PROVE Showing(s)'
    BY DEF ShowInv
  <1>1. ops'[o] = n /\ \A k \in Op \ {o} : ops'[k] = ops[k]
    BY DEF TypeOK
  <1>2. Touched(ops[o]) = {}
    BY IdleView
  <1>3. CASE s \in Touched(n)
    <2>1. ~\A k \in Op : s \notin Touched(ops'[k])
      BY <1>1, <1>3
    <2> QED BY <2>1 DEF Showing, Touched
  <1>4. CASE s \notin Touched(n)
    <2>1. Showing(s) /\ slice'[s] = slice[s]
      BY <1>4 DEF ShowInv
    <2>2. (\A k \in Op : s \notin Touched(ops'[k])) => \A k \in Op : s \notin Touched(ops[k])
      BY <1>1, <1>2
    <2>3. Final(s)' = Final(s)
      BY DEF Final
    <2> QED BY <2>1, <2>2, <2>3, ShowStill
  <1> QED BY <1>3, <1>4

LEMMA AssignShows ==
    ASSUME TypeOK, ShowInv, NEW o \in Op, NEW T \in Targetings, NEW x \in Source \cup {NoSource},
           Assign(o, T, x)
    PROVE  ShowInv'
  <1>1. PICK n, s : /\ s \in Screen /\ ops[o] = Idle /\ ops' = [ops EXCEPT ![o] = n]
                    /\ Touched(n) = {s} /\ slice' = [slice EXCEPT ![s] = Shown(x)]
                    /\ raced' = (raced \ {s}) \cup {r \in Targets(n) : Busy(r)}
    BY AssignView
  <1>2. UNCHANGED <<link, hub, down, page>>
    BY DEF Assign
  <1>3. raced \ Touched(n) \subseteq raced' /\ \A r \in Screen \ Touched(n) : slice'[r] = slice[r]
    BY <1>1 DEF TypeOK
  <1> QED BY <1>1, <1>2, <1>3, BeginShows

LEMMA DeleteShows ==
    ASSUME ChannelAssumption, TypeOK, ShowInv, NEW o \in Op, NEW x \in Source, Delete(o, x)
    PROVE  ShowInv'
  <1> DEFINE S == {s \in Screen : slice[s].source = x}
  <1>1. PICK n :
           /\ ops[o] = Idle /\ ops' = [ops EXCEPT ![o] = n]
           /\ Range(n.todo) = {[do |-> "unassign"], [do |-> "drop"]}
                 \cup {[do |-> "row", scr |-> s, to |-> Shown(NoSource)] : s \in S}
           /\ n.touched = {[scr |-> s, surface |-> NoSource] : s \in S}
           /\ n.x = x /\ n.gone = {x} /\ n.rest = <<>>
           /\ Touched(n) = S /\ Targets(n) = S
           /\ library' = library \ {x}
           /\ slice' = [s \in Screen |-> IF s \in S THEN Shown(NoSource) ELSE slice[s]]
           /\ raced' = (raced \ S) \cup {s \in S : Busy(s)}
    BY DeleteView
  <1>2. UNCHANGED <<link, hub, down, page>>
    BY DEF Delete
  <1> HIDE DEF S
  <1>3. raced \ Touched(n) \subseteq raced' /\ \A r \in Screen \ Touched(n) : slice'[r] = slice[r]
    <2>1. Touched(n) = S /\ raced' = (raced \ S) \cup {s \in S : Busy(s)}
      BY <1>1
    <2>2. raced \ Touched(n) \subseteq raced'
      BY <2>1
    <2>3. \A r \in Screen \ Touched(n) : slice'[r] = slice[r]
      BY <1>1
    <2> QED BY <2>2, <2>3
  <1> QED BY <1>1, <1>2, <1>3, BeginShows

LEMMA WrittenShows ==
    ASSUME TypeOK, ShowInv, NEW o \in Op, Written(o)
    PROVE  ShowInv'
  <1>1. PICK n : /\ ops' = [ops EXCEPT ![o] = n]
                 /\ Stays(o, ops[o], n) \/ \E r \in Screen : Reaches(o, ops[o], n, r)
    BY WrittenView
  <1>2. UNCHANGED <<link, hub, down, page>>
    BY DEF Written
  <1>3. ops'[o] = n /\ \A k \in Op \ {o} : ops'[k] = ops[k]
    BY <1>1 DEF TypeOK
  <1>4. ops[o].touched \subseteq n.touched
    BY <1>1 DEF Stays, Reaches
  <1>5. Touched(ops[o]) \subseteq Touched(n)
    BY <1>4 DEF Touched
  <1>6. \A s \in Screen \ Touched(n) : slice'[s] = slice[s] /\ (s \notin raced' => s \notin raced)
    <2>1. CASE Stays(o, ops[o], n)
      BY <2>1 DEF Stays
    <2>2. ASSUME NEW r \in Screen, Reaches(o, ops[o], n, r)
          PROVE  \A s \in Screen \ Touched(n) : slice'[s] = slice[s] /\ (s \notin raced' => s \notin raced)
      <3>1. PICK e : e = [scr |-> r, surface |-> ops[o].x]
        OBVIOUS
      <3>2. e \in n.touched /\ e.scr = r
        BY <2>2, <3>1 DEF Reaches
      <3>3. r \in Touched(n)
        BY <3>2 DEF Touched
      <3> QED BY <2>2, <3>3 DEF Reaches, TypeOK
    <2> QED BY <1>1, <2>1, <2>2
  <1> SUFFICES ASSUME NEW s \in Screen, s \notin raced' PROVE Showing(s)'
    BY DEF ShowInv
  <1>7. CASE s \in Touched(n)
    <2>1. ~\A k \in Op : s \notin Touched(ops'[k])
      BY <1>3, <1>7
    <2> QED BY <2>1 DEF Showing, Touched
  <1>8. CASE s \notin Touched(n)
    <2>1. Showing(s) /\ slice'[s] = slice[s]
      BY <1>6, <1>8 DEF ShowInv
    <2>2. (\A k \in Op : s \notin Touched(ops'[k])) => \A k \in Op : s \notin Touched(ops[k])
      BY <1>3, <1>5
    <2>3. Final(s)' = Final(s)
      BY <1>2 DEF Final
    <2> QED BY <1>2, <2>1, <2>2, <2>3, ShowStill
  <1> QED BY <1>7, <1>8

LEMMA FinishShows ==
    ASSUME TypeOK, WriteInv, ShowInv, NEW o \in Op, Finish(o)
    PROVE  ShowInv'
  <1>1. /\ Push(ops[o].touched)
        /\ UNCHANGED <<link, hub, page, slice, raced>>
        /\ ops'[o] = Idle /\ \A k \in Op \ {o} : ops'[k] = ops[k]
    BY DEF Finish, TypeOK
  <1> SUFFICES ASSUME NEW s \in Screen, s \notin raced PROVE Showing(s)'
    BY <1>1 DEF ShowInv
  <1> DEFINE t == CHOOSE e \in ops[o].touched : e.scr = s
             d == Append(down[s], Render(s, t.surface))
  <1>2. down'[s] = IF link[s] \in hub[s] /\ s \in Touched(ops[o]) THEN d ELSE down[s]
    BY <1>1 DEF Push, Touched
  <1>3. CASE s \in Touched(ops[o])
    <2>1. t \in ops[o].touched /\ t.scr = s
      BY <1>3 DEF Touched
    <2>2. t.surface = slice[s].surface
      <3> HIDE DEF t
      <3> QED BY <2>1 DEF WriteInv, StoreInv, Stored
    <2>3. Render(s, t.surface) = slice[s] /\ slice[s] \in Content
      BY <2>2, RenderOwn DEF WriteInv
    <2>4. d = Append(down[s], slice[s]) /\ down[s] \in Seq(Content)
      BY <2>3 DEF TypeOK
    <2> HIDE DEF t, d
    <2>5. Last(d) = slice[s] /\ d # <<>>
      BY <2>3, <2>4, LastOfAppend
    <2>6. link[s] \in hub[s] => Final(s)' = slice[s]
      BY <1>2, <1>3, <2>5 DEF Final
    <2> QED BY <1>1, <2>6 DEF Showing
  <1>4. CASE s \notin Touched(ops[o])
    <2>1. Showing(s) /\ down'[s] = down[s]
      BY <1>2, <1>4 DEF ShowInv
    <2>2. (\A k \in Op : s \notin Touched(ops'[k])) => \A k \in Op : s \notin Touched(ops[k])
      BY <1>1, <1>4
    <2>3. Final(s)' = Final(s)
      BY <1>1, <2>1 DEF Final
    <2> QED BY <1>1, <2>1, <2>2, <2>3, ShowStill
  <1> QED BY <1>3, <1>4

(* A step of the socket or the page leaves every other screen alone.       *)
LEMMA OthersShow ==
    ASSUME ShowInv, NEW s \in Screen, UNCHANGED <<slice, ops, raced>>,
           \A r \in Screen \ {s} : /\ link'[r] = link[r] /\ hub'[r] = hub[r]
                                   /\ down'[r] = down[r] /\ page'[r].shows = page[r].shows,
           s \notin raced => Showing(s)'
    PROVE  ShowInv'
  <1> SUFFICES ASSUME NEW r \in Screen, r # s, r \notin raced PROVE Showing(r)'
    BY DEF ShowInv
  <1>1. Showing(r)
    BY DEF ShowInv
  <1>2. Final(r)' = Final(r)
    BY DEF Final
  <1> QED BY <1>1, <1>2, ShowStill

LEMMA HearHelloShows ==
    ASSUME TypeOK, LibraryInv, ShowInv, NEW s \in Screen, HearHello(s)
    PROVE  ShowInv'
  <1>1. /\ UNCHANGED <<slice, ops, raced, link, page>>
        /\ hub' = [hub EXCEPT ![s] = @ \cup {link[s]}]
        /\ down' = [down EXCEPT ![s] = Append(@, Render(s, slice[s].surface))]
    BY DEF HearHello
  <1>2. Render(s, slice[s].surface) = slice[s] /\ slice[s] \in Content
    BY RenderOwn
  <1>3. down'[s] = Append(down[s], slice[s]) /\ down[s] \in Seq(Content)
    BY <1>1, <1>2 DEF TypeOK
  <1>4. Last(down'[s]) = slice[s] /\ down'[s] # <<>>
    BY <1>2, <1>3, LastOfAppend
  <1>5. Showing(s)'
    BY <1>1, <1>4 DEF Showing, Final
  <1>6. \A r \in Screen \ {s} : hub'[r] = hub[r] /\ down'[r] = down[r]
    BY <1>1 DEF TypeOK
  <1> QED BY <1>1, <1>5, <1>6, OthersShow

LEMMA GetShows ==
    ASSUME TypeOK, ShowInv, NEW s \in Screen, Get(s)
    PROVE  ShowInv'
  <1>1. /\ UNCHANGED <<slice, ops, raced, link, hub>> /\ down[s] # <<>>
        /\ down'[s] = Tail(down[s]) /\ page'[s].shows = Head(down[s])
        /\ \A r \in Screen \ {s} : down'[r] = down[r] /\ page'[r] = page[r]
    BY DEF Get, server, TypeOK
  <1>2. Final(s)' = Final(s)
    BY <1>1, LastOfTail DEF Final, TypeOK
  <1>3. s \notin raced => Showing(s)'
    BY <1>1, <1>2, ShowStill DEF ShowInv
  <1> QED BY <1>1, <1>3, OthersShow

(* A socket the server does not know, or has no more, owes nothing.        *)
LEMMA UnlinkedShows ==
    ASSUME ChannelAssumption, TypeOK, ShowInv, NEW s \in Screen, Dial(s) \/ Lose(s) \/ Reload(s)
    PROVE  ShowInv'
  <1>1. UNCHANGED <<slice, ops, raced, hub>>
    BY DEF Dial, Lose, Reload, server
  <1>2. link'[s] \notin hub[s]
    <2>1. hub[s] \subseteq Slot /\ 0 \notin Slot
      BY DEF TypeOK, ChannelAssumption
    <2>2. CASE Dial(s)
      <3>1. link'[s] = CHOOSE n \in Slot : n \notin hub[s]
        BY <2>2 DEF Dial, TypeOK
      <3>2. \E n \in Slot : n \notin hub[s]
        BY <2>1, <2>2 DEF Dial
      <3> QED BY <3>1, <3>2
    <2>3. CASE Lose(s) \/ Reload(s)
      BY <2>1, <2>3 DEF Lose, Reload, Drop, TypeOK
    <2> QED BY <2>2, <2>3
  <1>3. \A r \in Screen \ {s} : link'[r] = link[r] /\ down'[r] = down[r] /\ page'[r] = page[r]
    BY DEF Dial, Lose, Reload, Drop, TypeOK
  <1> QED BY <1>1, <1>2, <1>3, OthersShow DEF Showing

LEMMA ShowStep ==
    ASSUME ChannelAssumption, TypeOK, WriteInv, ShowInv, [Next]_vars
    PROVE  ShowInv'
  <1>1. ASSUME NEW o \in Op, NEW T \in Targetings, NEW x \in Source \cup {NoSource}, Assign(o, T, x)
        PROVE  ShowInv'
    BY <1>1, AssignShows
  <1>2. ASSUME NEW o \in Op, NEW x \in Source, Delete(o, x) PROVE ShowInv'
    BY <1>2, DeleteShows
  <1>3. ASSUME NEW o \in Op, Written(o) \/ Finish(o) PROVE ShowInv'
    BY <1>3, WrittenShows, FinishShows
  <1>4. ASSUME NEW s \in Screen, HearHello(s) PROVE ShowInv'
    BY <1>4, HearHelloShows DEF WriteInv
  <1>5. ASSUME NEW s \in Screen, Get(s) PROVE ShowInv'
    BY <1>5, GetShows
  <1>6. ASSUME NEW s \in Screen, Dial(s) \/ Lose(s) \/ Reload(s) PROVE ShowInv'
    BY <1>6, UnlinkedShows
  <1>7. ASSUME NEW s \in Screen, NEW n \in Slot, NoticeClose(s, n) PROVE ShowInv'
    <2>1. /\ UNCHANGED <<slice, ops, raced, link, down, page>>
          /\ hub'[s] \subseteq hub[s] /\ \A r \in Screen \ {s} : hub'[r] = hub[r]
      BY <1>7 DEF NoticeClose, TypeOK
    <2>2. s \notin raced => Showing(s)'
      <3>1. Final(s)' = Final(s)
        BY <2>1 DEF Final
      <3> QED BY <2>1, <3>1, ShowStill DEF ShowInv
    <2> QED BY <2>1, <2>2, OthersShow
  <1>8. ASSUME NEW s \in Screen, HearReport(s) \/ \E v \in Verdict : Conclude(s, v) PROVE ShowInv'
    <2>1. /\ UNCHANGED <<slice, ops, raced, link, hub, down>>
          /\ \A r \in Screen : page'[r].shows = page[r].shows
      <3>1. CASE HearReport(s)
        BY <3>1 DEF HearReport
      <3>2. ASSUME NEW v \in Verdict, Conclude(s, v)
            PROVE  /\ UNCHANGED <<slice, ops, raced, link, hub, down>>
                   /\ \A r \in Screen : page'[r].shows = page[r].shows
        <4>1. PICK b : page' = [page EXCEPT ![s] = [shows |-> page[s].shows, verdict |-> v, told |-> b]]
          BY <3>2 DEF Conclude
        <4>2. page'[s].shows = page[s].shows /\ \A r \in Screen \ {s} : page'[r] = page[r]
          BY <4>1 DEF TypeOK
        <4> QED BY <3>2, <4>2 DEF Conclude, server
      <3> QED BY <1>8, <3>1, <3>2
    <2>2. s \notin raced => Showing(s)'
      <3>1. Final(s)' = Final(s)
        BY <2>1 DEF Final
      <3> QED BY <2>1, <3>1, ShowStill DEF ShowInv
    <2> QED BY <2>1, <2>2, OthersShow
  <1>9. CASE Restart
    <2>1. link' = [s \in Screen |-> 0] /\ hub' = [s \in Screen |-> {}]
      BY <1>9 DEF Restart
    <2> QED BY <2>1 DEF ShowInv, Showing
  <1>10. CASE UNCHANGED vars
    BY <1>10 DEF vars, ShowInv, Showing, Final
  <1> QED BY <1>1, <1>2, <1>3, <1>4, <1>5, <1>6, <1>7, <1>8, <1>9, <1>10
          DEF Next, Asks, Works, Hears, Closes, Gets, Dials, Trouble, Minds

-----------------------------------------------------------------------------
(* What a page told. *)

Hello == [t |-> "hello"]

(* A socket has said hello, or is about to, with something behind it. *)
Greets(s, n) == link[s] \in hub[s] \/ \E i \in 1 .. n : up[s][i] = Hello

(* What a page told of what it shows is recorded, or is the last it has    *)
(* under way and will not be dropped.                                      *)
Told(s) ==
    page[s].told =>
       /\ link[s] # 0 /\ Greets(s, Len(up[s]) - 1)
       /\ up[s] # <<>> => Last(up[s]) = Says(s)
       /\ up[s] = <<>> /\ page[s].shows.source \in library
             => record[page[s].shows.source][s] = page[s].verdict

Telling(s) == (link[s] # 0 => Greets(s, Len(up[s]))) /\ Told(s)

TellInv == \A s \in Screen : Telling(s)

(* A step that leaves the socket, its frames and the page alone, and keeps *)
(* what is recorded of the library.                                        *)
LEMMA TellStill ==
    ASSUME NEW s \in Screen, Telling(s), link'[s] = link[s], up'[s] = up[s], page'[s] = page[s],
           link[s] \in hub[s] => link[s] \in hub'[s],
           up[s] = <<>> /\ link[s] \in hub[s] => \A x \in library' : x \in library /\ record'[x][s] = record[x][s]
    PROVE  Telling(s)'
  <1>1. Greets(s, Len(up[s])) => Greets(s, Len(up[s]))'
    BY DEF Greets
  <1>2. Greets(s, Len(up[s]) - 1) => Greets(s, Len(up[s]) - 1)'
    BY DEF Greets
  <1>3. Told(s)'
    <2> SUFFICES ASSUME page[s].told PROVE Told(s)'
      BY DEF Told
    <2>1. /\ link[s] # 0 /\ Greets(s, Len(up[s]) - 1)
          /\ up[s] # <<>> => Last(up[s]) = Says(s)
          /\ up[s] = <<>> /\ page[s].shows.source \in library
                => record[page[s].shows.source][s] = page[s].verdict
      BY DEF Telling, Told
    <2>2. up[s] = <<>> => link[s] \in hub[s]
      BY <2>1 DEF Greets
    <2> QED BY <1>2, <2>1, <2>2 DEF Told, Says
  <1> QED BY <1>1, <1>3 DEF Telling

(* The server's requests: a source that is forgotten has left the library. *)
LEMMA RequestTells ==
    ASSUME TypeOK, RequestInv, TellInv, Asks \/ Works
    PROVE  TellInv'
  <1>1. UNCHANGED <<link, hub, up, page>> /\ library' \subseteq library
    BY DEF Asks, Works, Assign, Delete, Written, Finish
  <1>2. \A x \in library' : record'[x] = record[x]
    <2>1. CASE record' = record
      BY <2>1
    <2>2. ASSUME NEW o \in Op, Finish(o) PROVE \A x \in library' : record'[x] = record[x]
      <3>1. library' = library /\ Forget(ops[o].gone)
        BY <2>2 DEF Finish
      <3>2. ops[o].gone \cap library = {}
        BY DEF RequestInv, Regular
      <3> QED BY <3>1, <3>2 DEF Forget, TypeOK
    <2> QED BY <2>1, <2>2 DEF Asks, Works, Assign, Delete, Written
  <1> QED BY <1>1, <1>2, TellStill DEF TellInv

(* A step of one screen's socket or page leaves the others alone. *)
LEMMA OthersTell ==
    ASSUME TellInv, NEW s \in Screen, library' = library,
           \A r \in Screen \ {s} :
              /\ link'[r] = link[r] /\ hub'[r] = hub[r] /\ up'[r] = up[r] /\ page'[r] = page[r]
              /\ \A x \in library : record'[x][r] = record[x][r],
           Telling(s)'
    PROVE  TellInv'
  <1> SUFFICES ASSUME NEW r \in Screen, r # s PROVE Telling(r)'
    BY DEF TellInv
  <1>1. Telling(r)
    BY DEF TellInv
  <1> QED BY <1>1, TellStill

LEMMA DialTells ==
    ASSUME ChannelAssumption, TypeOK, TellInv, NEW s \in Screen, Dial(s)
    PROVE  TellInv'
  <1> DEFINE said == IF page[s].verdict = "unknown" THEN <<>> ELSE <<Says(s)>>
             hello == <<Hello>>
  <1>1. /\ link[s] = 0 /\ UNCHANGED <<library, hub, record, page>>
        /\ up'[s] = said \o hello
        /\ \A r \in Screen \ {s} : link'[r] = link[r] /\ up'[r] = up[r]
    BY DEF Dial, server, TypeOK, Hello
  <1>2. said \in Seq(Frame) /\ hello \in Seq(Frame) /\ hello = <<Hello>>
    <2>1. CASE page[s].verdict = "unknown"
      BY <2>1 DEF Frame, Hello
    <2>2. CASE page[s].verdict # "unknown"
      BY <2>2, SaysType DEF Frame, Hello
    <2> QED BY <2>1, <2>2
  <1> HIDE DEF said, hello
  <1>3. Len(up'[s]) \in 1 .. Len(up'[s]) /\ up'[s][Len(up'[s])] = Hello
    <2>1. hello[1] = Hello /\ Len(hello) = 1
      BY <1>2
    <2> QED BY <1>1, <1>2, <2>1
  <1>4. ~page[s].told
    BY <1>1 DEF TellInv, Telling, Told
  <1>5. Telling(s)'
    BY <1>1, <1>3, <1>4 DEF Telling, Greets, Told
  <1> QED BY <1>1, <1>5, OthersTell

LEMMA LostTells ==
    ASSUME TypeOK, TellInv, NEW s \in Screen, Lose(s) \/ Reload(s)
    PROVE  TellInv'
  <1>1. /\ link'[s] = 0 /\ ~page'[s].told /\ UNCHANGED <<library, hub, record>>
        /\ \A r \in Screen \ {s} : link'[r] = link[r] /\ up'[r] = up[r] /\ page'[r] = page[r]
    BY DEF Lose, Reload, Drop, server, TypeOK
  <1>2. Telling(s)'
    BY <1>1 DEF Telling, Told
  <1> QED BY <1>1, <1>2, OthersTell

(* The last socket of a screen is not the page's own while that is known.  *)
LEMMA NoticeCloseTells ==
    ASSUME TypeOK, TellInv, NEW s \in Screen, NEW n \in Slot, NoticeClose(s, n)
    PROVE  TellInv'
  <1>1. /\ UNCHANGED <<library, link, up, page>> /\ n # link[s]
        /\ hub'[s] = hub[s] \ {n} /\ \A r \in Screen \ {s} : hub'[r] = hub[r]
        /\ hub'[s] # {} => record' = record
        /\ \A x \in Source, r \in Screen \ {s} : record'[x][r] = record[x][r]
    BY DEF NoticeClose, TypeOK
  <1>2. library \subseteq Source
    BY DEF TypeOK
  <1>3. link[s] \in hub[s] => link[s] \in hub'[s] /\ record' = record
    BY <1>1
  <1>4. Telling(s)'
    BY <1>1, <1>3, TellStill DEF TellInv
  <1> QED BY <1>1, <1>2, <1>4, OthersTell

LEMMA HearHelloTells ==
    ASSUME TypeOK, TellInv, NEW s \in Screen, HearHello(s)
    PROVE  TellInv'
  <1>1. /\ UNCHANGED <<library, link, page, record>> /\ up[s] # <<>> /\ Head(up[s]).t = "hello"
        /\ up'[s] = Tail(up[s]) /\ link'[s] \in hub'[s]
        /\ \A r \in Screen \ {s} : up'[r] = up[r] /\ hub'[r] = hub[r]
    BY DEF HearHello, TypeOK
  <1>2. up[s] \in Seq(Frame)
    BY DEF TypeOK
  <1>3. ASSUME page[s].told
        PROVE  up'[s] # <<>> /\ Last(up'[s]) = Says(s) /\ link[s] # 0
    <2>1. Last(up[s]) = Says(s) /\ link[s] # 0
      BY <1>1, <1>3 DEF TellInv, Telling, Told
    <2>2. Says(s).t # "hello"
      BY DEF Says
    <2> QED BY <1>1, <1>2, <2>1, <2>2, LastOfTail
  <1>4. Telling(s)'
    BY <1>1, <1>3 DEF Telling, Told, Greets, Says
  <1> QED BY <1>1, <1>4, OthersTell

LEMMA HearReportTells ==
    ASSUME TypeOK, TellInv, NEW s \in Screen, HearReport(s)
    PROVE  TellInv'
  <1> DEFINE m == Head(up[s])
  <1>1. /\ UNCHANGED <<library, hub, link, page>> /\ up[s] # <<>> /\ m.t = "report"
        /\ up'[s] = Tail(up[s]) /\ \A r \in Screen \ {s} : up'[r] = up[r]
        /\ link[s] \notin hub[s] => record' = record
        /\ link[s] \in hub[s] /\ m.source \notin library => record' = record
        /\ link[s] \in hub[s] /\ m.source \in library
              => record' = [record EXCEPT ![m.source][s] = m.state]
    BY DEF HearReport, Records, TypeOK
  <1>2. up[s] \in Seq(Frame) /\ library \subseteq Source
    BY DEF TypeOK
  <1>3. PICK q : q = up[s] /\ q \in Seq(Frame) /\ q # <<>>
    BY <1>1, <1>2
  <1>4. /\ Tail(q) \in Seq(Frame) /\ Len(Tail(q)) = Len(q) - 1 /\ Len(q) \in Nat \ {0}
        /\ \A i \in 1 .. Len(Tail(q)) : Tail(q)[i] = q[i + 1]
        /\ Head(q) = q[1]
    BY <1>3, HeadTailProperties, EmptySeq
  <1>5. /\ Tail(q) = <<>> => Last(q) = Head(q)
        /\ Tail(q) # <<>> => Last(q) = Last(Tail(q))
    BY <1>3, LastOfTail
  <1>6. ASSUME NEW n \in 0 .. Len(q), \E i \in 1 .. n : q[i] = Hello
        PROVE  \E i \in 1 .. n - 1 : Tail(q)[i] = Hello
    <2>1. PICK i \in 1 .. n : q[i] = Hello
      BY <1>6
    <2>2. i # 1
      BY <1>1, <1>3, <1>4, <2>1 DEF Hello
    <2>3. i - 1 \in 1 .. n - 1 /\ i - 1 \in 1 .. Len(Tail(q)) /\ (i - 1) + 1 = i
      BY <1>4, <2>2
    <2>4. Tail(q)[i - 1] = Hello
      BY <1>4, <2>1, <2>3
    <2> QED BY <2>3, <2>4
  <1>7. Greets(s, Len(up[s])) => Greets(s, Len(up[s]))'
    BY <1>1, <1>3, <1>4, <1>6 DEF Greets
  <1>8. Greets(s, Len(up[s]) - 1) => Greets(s, Len(up[s]) - 1)'
    <2>1. Len(q) - 1 \in 0 .. Len(q)
      BY <1>4
    <2>2. (\E i \in 1 .. Len(q) - 1 : q[i] = Hello) => \E i \in 1 .. (Len(q) - 1) - 1 : Tail(q)[i] = Hello
      BY <1>6, <2>1
    <2>3. up'[s] = Tail(q) /\ Len(up'[s]) = Len(q) - 1 /\ up[s] = q
      BY <1>1, <1>3, <1>4
    <2> QED BY <1>1, <2>2, <2>3 DEF Greets
  <1>9. Told(s)'
    <2> SUFFICES ASSUME page[s].told PROVE Told(s)'
      BY <1>1 DEF Told
    <2>1. link[s] # 0 /\ Greets(s, Len(q) - 1) /\ Last(q) = Says(s)
      BY <1>1, <1>3 DEF TellInv, Telling, Told
    <2>2. Tail(q) # <<>> => Last(Tail(q)) = Says(s)
      BY <1>5, <2>1
    <2>3. ASSUME Tail(q) = <<>>, page[s].shows.source \in library
          PROVE  record'[page[s].shows.source][s] = page[s].verdict
      <3>1. m = Says(s)
        BY <1>3, <1>5, <2>1, <2>3
      <3>2. link[s] \in hub[s]
        <4>1. PICK e : e = Tail(q)
          OBVIOUS
        <4>2. Len(e) = 0
          BY <1>4, <2>3, <4>1, EmptySeq
        <4>3. Len(q) - 1 = 0
          BY <1>4, <4>1, <4>2
        <4>4. Greets(s, 0)
          BY <2>1, <4>3
        <4>5. 1 .. 0 = {}
          OBVIOUS
        <4> QED BY <4>4, <4>5 DEF Greets
      <3>3. m.source = page[s].shows.source /\ m.state = page[s].verdict
        BY <3>1 DEF Says
      <3> HIDE DEF m
      <3>4. record' = [record EXCEPT ![page[s].shows.source][s] = page[s].verdict]
        BY <1>1, <2>3, <3>2, <3>3
      <3> QED BY <1>2, <2>3, <3>4 DEF TypeOK
    <2> QED BY <1>1, <1>3, <1>8, <2>1, <2>2, <2>3 DEF Told, Says
  <1>10. Telling(s)'
    BY <1>1, <1>7, <1>9 DEF Telling, TellInv
  <1>11. \A r \in Screen \ {s} : \A x \in library : record'[x][r] = record[x][r]
    <2> HIDE DEF m
    <2> QED BY <1>1, <1>2 DEF TypeOK
  <1> QED BY <1>1, <1>10, <1>11, OthersTell

LEMMA PageParts ==
    ASSUME NEW c, NEW v, NEW b \in BOOLEAN, NEW g, g = [shows |-> c, verdict |-> v, told |-> b]
    PROVE  g.shows = c /\ g.verdict = v /\ g.told = b
  OBVIOUS

(* A render that changes what is shown takes the word back. *)
LEMMA GetTells ==
    ASSUME TypeOK, TellInv, NEW s \in Screen, Get(s)
    PROVE  TellInv'
  <1> DEFINE c == Head(down[s])
  <1>1. /\ UNCHANGED <<library, hub, link, up, record>>
        /\ page'[s] = [shows |-> c,
                       verdict |-> IF c.surface = page[s].shows.surface THEN page[s].verdict ELSE "unknown",
                       told |-> page[s].told /\ c = page[s].shows]
        /\ \A r \in Screen \ {s} : page'[r] = page[r]
    BY DEF Get, server, TypeOK
  <1> HIDE DEF c
  <1>2. page'[s].told => page[s].told /\ page'[s].shows = page[s].shows /\ page'[s].verdict = page[s].verdict
    <2>1. PICK b \in BOOLEAN : b = (page[s].told /\ c = page[s].shows)
      BY Zenon
    <2>2. PICK v : v = IF c.surface = page[s].shows.surface THEN page[s].verdict ELSE "unknown"
      OBVIOUS
    <2>3. page'[s] = [shows |-> c, verdict |-> v, told |-> b]
      BY <1>1, <2>1, <2>2, Zenon
    <2>4. page'[s].shows = c /\ page'[s].verdict = v /\ page'[s].told = b
      BY <2>3, PageParts
    <2> QED BY <2>1, <2>2, <2>4
  <1>3. Telling(s)'
    <2>1. Telling(s)
      BY DEF TellInv
    <2> QED BY <1>1, <1>2, <2>1 DEF Telling, Told, Greets, Says
  <1> QED BY <1>1, <1>3, OthersTell

LEMMA ConcludeTells ==
    ASSUME TypeOK, TellInv, NEW s \in Screen, NEW v \in Verdict, Conclude(s, v)
    PROVE  TellInv'
  <1> DEFINE m == [Says(s) EXCEPT !.state = v]
  <1>1. /\ UNCHANGED <<library, hub, link, record>>
        /\ page'[s] = [shows |-> page[s].shows, verdict |-> v,
                       told |-> link[s] # 0 /\ page[s].shows.source # NoSource]
        /\ link[s] # 0 => up'[s] = Append(up[s], m)
        /\ link[s] = 0 => up'[s] = up[s]
        /\ \A r \in Screen \ {s} : page'[r] = page[r] /\ up'[r] = up[r]
    BY DEF Conclude, server, TypeOK
  <1>2. page'[s].shows = page[s].shows /\ page'[s].verdict = v /\ (page'[s].told => link[s] # 0)
    <2>1. PICK b \in BOOLEAN : b = (link[s] # 0 /\ page[s].shows.source # NoSource)
      BY Zenon
    <2>2. page'[s] = [shows |-> page[s].shows, verdict |-> v, told |-> b]
      BY <1>1, <2>1, Zenon
    <2>3. page'[s].shows = page[s].shows /\ page'[s].verdict = v /\ page'[s].told = b
      BY <2>2, PageParts
    <2> QED BY <2>1, <2>3
  <1>3. m = [t |-> "report", source |-> page[s].shows.source, state |-> v] /\ m \in Frame
    BY SaysType DEF Says
  <1>4. up[s] \in Seq(Frame) /\ Len(up[s]) \in Nat
    BY DEF TypeOK
  <1> HIDE DEF m
  <1>5. ASSUME link[s] # 0
        PROVE  /\ up'[s] # <<>> /\ Last(up'[s]) = m /\ Len(up'[s]) = Len(up[s]) + 1
               /\ \A i \in 1 .. Len(up[s]) : up'[s][i] = up[s][i]
    <2>1. up'[s] = Append(up[s], m)
      BY <1>1, <1>5
    <2>2. m \in Frame
      BY <1>3
    <2> QED BY <1>4, <2>1, <2>2, LastOfAppend
  <1>6. ASSUME link[s] # 0 PROVE Greets(s, Len(up[s]))' /\ Greets(s, Len(up[s]) - 1)'
    <2>1. Greets(s, Len(up[s]))
      BY <1>6 DEF TellInv, Telling
    <2>2. Len(up'[s]) - 1 = Len(up[s]) /\ \A i \in 1 .. Len(up[s]) : i \in 1 .. Len(up'[s])
      BY <1>4, <1>5, <1>6
    <2> QED BY <1>1, <1>5, <1>6, <2>1, <2>2 DEF Greets
  <1>7. m = Says(s)'
    BY <1>2, <1>3 DEF Says
  <1>8. Telling(s)'
    BY <1>1, <1>2, <1>5, <1>6, <1>7 DEF Telling, Told
  <1> QED BY <1>1, <1>8, OthersTell

LEMMA TellStep ==
    ASSUME ChannelAssumption, TypeOK, RequestInv, TellInv, [Next]_vars
    PROVE  TellInv'
  <1>1. CASE Asks \/ Works
    BY <1>1, RequestTells
  <1>2. ASSUME NEW s \in Screen, HearHello(s) \/ HearReport(s) PROVE TellInv'
    BY <1>2, HearHelloTells, HearReportTells
  <1>3. ASSUME NEW s \in Screen, NEW n \in Slot, NoticeClose(s, n) PROVE TellInv'
    BY <1>3, NoticeCloseTells
  <1>4. ASSUME NEW s \in Screen, Get(s) \/ Dial(s) PROVE TellInv'
    BY <1>4, GetTells, DialTells
  <1>5. ASSUME NEW s \in Screen, Lose(s) \/ Reload(s) PROVE TellInv'
    BY <1>5, LostTells
  <1>6. ASSUME NEW s \in Screen, NEW v \in Verdict, Conclude(s, v) PROVE TellInv'
    BY <1>6, ConcludeTells
  <1>7. CASE Restart
    <2>1. \A s \in Screen : link'[s] = 0 /\ ~page'[s].told
      BY <1>7 DEF Restart, TypeOK
    <2> QED BY <2>1 DEF TellInv, Telling, Told
  <1>8. CASE UNCHANGED vars
    BY <1>8 DEF vars, TellInv, Telling, Told, Greets, Says
  <1> QED BY <1>1, <1>2, <1>3, <1>4, <1>5, <1>6, <1>7, <1>8
          DEF Next, Hears, Closes, Gets, Dials, Trouble, Minds

-----------------------------------------------------------------------------
(* Settled. *)

LEMMA InitShowsTells == ASSUME Init PROVE ShowInv /\ TellInv
  <1>1. \A s \in Screen : hub[s] = {} /\ link[s] = 0 /\ ~page[s].told
    BY DEF Init
  <1> QED BY <1>1 DEF ShowInv, Showing, TellInv, Telling, Told

LEMMA Settled == ASSUME WriteInv, ShowInv, TellInv PROVE SettledRight
  <1>1. ShowsSlice
    <2> SUFFICES ASSUME NEW s \in Screen, link[s] \in hub[s], down[s] = <<>>, ~Busy(s), s \notin raced
                 PROVE  page[s].shows = slice[s]
      BY DEF ShowsSlice
    <2>1. \A o \in Op : s \notin Touched(ops[o])
      BY TargetsView DEF Busy
    <2> QED BY <2>1 DEF ShowInv, Showing, Final
  <1>2. ToldIsKnown
    BY DEF TellInv, Telling, Told, ToldIsKnown
  <1> QED BY <1>1, <1>2 DEF SettledRight

(* However sockets drop, overlap and redial between the server's pushes:   *)
(* a page that has said hello (ws.ts) and has no render under way shows    *)
(* its slice, unless two requests crossed there, and a verdict it reached  *)
(* on an open socket is the one source-health.ts keeps, once it arrived.   *)
THEOREM WallsSettle == Spec => []SettledRight
  <1> USE ChannelAssumption
  <1> DEFINE Inv == SoundInv /\ WriteInv /\ ShowInv /\ TellInv
  <1>1. Init => Inv
    BY InitSound, InitWrites, InitShowsTells DEF SoundInv, Wired, Init
  <1>2. Inv /\ [Next]_vars => Inv'
    <2> SUFFICES ASSUME Inv, [Next]_vars PROVE Inv'
      OBVIOUS
    <2>1. SoundInv'
      BY SoundStep
    <2>2. TypeOK /\ TypeOK'
      BY <2>1 DEF SoundInv, RecordSound
    <2>3. WriteInv'
      BY <2>2, WriteStep
    <2>4. ShowInv'
      BY <2>2, ShowStep
    <2>5. TellInv'
      BY <2>2, TellStep DEF WriteInv
    <2> QED BY <2>1, <2>3, <2>4, <2>5
  <1>3. Inv => SettledRight
    BY Settled
  <1> QED BY <1>1, <1>2, <1>3, PTL DEF Spec
=============================================================================
