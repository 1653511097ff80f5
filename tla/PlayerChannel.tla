--------------------------- MODULE PlayerChannel ---------------------------
(***************************************************************************)
(* Content on its way from an operator to the glass, and the glass's word  *)
(* about it on the way back: the operations of the server that await their *)
(* writes one by one and push what they captured, the player's socket that *)
(* drops and overlaps with its successor, and the record of which sources  *)
(* which screens cannot reach.  A frame under way on a socket that drops   *)
(* is lost with it.  The revision, which nobody compares, is left out.     *)
(***************************************************************************)
EXTENDS Naturals, Sequences, FiniteSets, SequencesExt

CONSTANTS
    Screen, Source,
    NoSource,    \* nothing shown, or nothing assigned
    Op,          \* requests the server may have under way at once
    Slot,        \* sockets of one screen the server may know at once
    MaxEdits,    \* bound: requests of a behaviour
    MaxTroubles, \* bound: lost sockets, reloads and restarts
    MaxVerdicts  \* bound: times a page makes up its mind

ASSUME ChannelAssumption ==
    /\ IsFiniteSet(Screen) /\ NoSource \notin Source
    /\ Op \subseteq Nat /\ Slot \subseteq Nat \ {0}
    /\ MaxEdits \in Nat /\ MaxTroubles \in Nat /\ MaxVerdicts \in Nat

VARIABLES
    library,     \* the content library in memory
    libraryRows, \* and in the store
    slice,       \* per screen: the surface it shows, the source it is assigned
    row,         \* the same in the store
    ops,         \* the requests under way
    record,      \* SourceHealthTracker.bySource
    hub,         \* PlayerHub.byScreen: the sockets that said hello
    link,        \* the page's own socket, 0 when it has none
    up, down,    \* the frames under way on that socket
    page,        \* what each page shows, and its verdict on it
    on,          \* the screens whose box runs
    raced,       \* history: screens two requests changed at once, until one
                 \* comes to them alone
    left         \* what is left of each bound

server == <<library, libraryRows, slice, row, ops, record, hub, on>>
vars == <<library, libraryRows, slice, row, ops, record, hub, link, up, down, page, on, raced, left>>

Content == [surface : Source \cup {NoSource}, source : Source \cup {NoSource}]
Shown(x) == [surface |-> x, source |-> x]
Verdict == {"reachable", "unreachable"}

(* A request: what is still to be written, the targets it has not come to  *)
(* (they get the source x), what it will push, what it will forget.        *)
Choice  == Source \cup {NoSource}
Write   == [do : {"row"}, scr : Screen, to : Content] \cup [do : {"unassign", "drop"}]
Request == [todo : Seq(Write), rest : Seq(Screen), x : Choice,
            touched : SUBSET [scr : Screen, surface : Choice], gone : SUBSET Source]

(* A frame of the page: who it is, or what it has to say of a source.      *)
Frame == [t : {"hello"}] \cup [t : {"report"}, source : Choice, state : Verdict]

Asked(targets, x) == [todo |-> <<>>, rest |-> targets, x |-> x, touched |-> {}, gone |-> {}]
Idle == Asked(<<>>, NoSource)

Active(o)  == ops[o] # Idle
Targets(p) == {t.scr : t \in p.touched} \cup {p.rest[i] : i \in DOMAIN p.rest}
Busy(s)    == \E o \in Op : s \in Targets(ops[o])

TypeOK ==
    /\ library \subseteq Source /\ libraryRows \subseteq Source
    /\ slice \in [Screen -> Content] /\ row \in [Screen -> Content]
    /\ ops \in [Op -> Request]
    /\ record \in [Source -> [Screen -> Verdict \cup {"none"}]]
    /\ hub \in [Screen -> SUBSET Slot] /\ link \in [Screen -> Slot \cup {0}]
    /\ up \in [Screen -> Seq(Frame)] /\ down \in [Screen -> Seq(Content)]
    /\ page \in [Screen -> [shows : Content, verdict : Verdict \cup {"unknown"}, told : BOOLEAN]]
    /\ raced \subseteq Screen /\ on \subseteq Screen
    /\ left \in [edits : 0..MaxEdits, troubles : 0..MaxTroubles, verdicts : 0..MaxVerdicts]

Spend(what) == left[what] > 0 /\ left' = [left EXCEPT ![what] = @ - 1]

-----------------------------------------------------------------------------
(* The server's requests. *)

Init ==
    /\ library = Source /\ libraryRows = Source
    /\ slice = [s \in Screen |-> Shown(NoSource)] /\ row = slice
    /\ ops = [o \in Op |-> Idle]
    /\ record = [x \in Source |-> [s \in Screen |-> "none"]]
    /\ hub = [s \in Screen |-> {}] /\ link = [s \in Screen |-> 0]
    /\ up = [s \in Screen |-> <<>>] /\ down = [s \in Screen |-> <<>>]
    /\ page = [s \in Screen |-> [shows |-> Shown(NoSource), verdict |-> "unknown", told |-> FALSE]]
    /\ raced = {} /\ on \in SUBSET Screen
    /\ left \in [edits : 0..MaxEdits, troubles : 0..MaxTroubles, verdicts : 0..MaxVerdicts]

(* The next target changes in memory; its row is written at the await.     *)
Reach(p) ==
    LET s == Head(p.rest)
    IN  [todo    |-> << [do |-> "row", scr |-> s, to |-> Shown(p.x)] >>,
         rest    |-> Tail(p.rest), x |-> p.x,
         touched |-> p.touched \cup {[scr |-> s, surface |-> p.x]},
         gone    |-> p.gone]

Starts(o, p, targets) ==
    /\ ~Active(o) /\ (\A q \in Op : q < o => Active(q)) /\ Spend("edits")
    /\ ops' = [ops EXCEPT ![o] = p]
    /\ raced' = (raced \ {t.scr : t \in p.touched}) \cup {s \in targets : Busy(s)}

(* Assign x to the targets in order, or clear them (x = NoSource).         *)
Assign(o, targets, x) ==
    /\ x \in library \cup {NoSource} /\ targets # <<>>
    /\ Starts(o, Reach(Asked(targets, x)), Range(targets))
    /\ slice' = [slice EXCEPT ![Head(targets)] = Shown(x)]
    /\ UNCHANGED <<library, libraryRows, row, record, hub, link, up, down, page, on>>

(* Delete a source: the screens it is assigned to are cleared in memory at *)
(* once, their rows last.                                                  *)
Delete(o, x) ==
    LET S == {s \in Screen : slice[s].source = x}
        Clears == [i \in 1..Cardinality(S) |->
                     [do |-> "row", scr |-> SetToSeq(S)[i], to |-> Shown(NoSource)]]
    IN  /\ x \in library
        /\ Starts(o, [todo |-> <<[do |-> "unassign"], [do |-> "drop"]>> \o Clears,
                       rest |-> <<>>, x |-> x, gone |-> {x},
                       touched |-> {[scr |-> s, surface |-> NoSource] : s \in S}], S)
        /\ library' = library \ {x}
        /\ slice' = [s \in Screen |-> IF s \in S THEN Shown(NoSource) ELSE slice[s]]
        /\ UNCHANGED <<libraryRows, row, record, hub, link, up, down, page, on>>

(* The same, told as written before the row is.                            *)
WrittenEarly(o) ==
    /\ ops[o].todo # <<>>
    /\ ops' = [ops EXCEPT ![o].todo = <<>>, ![o].rest = <<>>]
    /\ UNCHANGED <<library, libraryRows, slice, row, record, hub, link, up, down, page, on, raced, left>>

(* A request that has one write less to do, and those targets to come to.  *)
Resumed(p, targets) ==
    [todo |-> Tail(p.todo), rest |-> targets, x |-> p.x, touched |-> p.touched, gone |-> p.gone]

(* No other request is under way for the screen. *)
Alone(o, s) == \A k \in Op \ {o} : s \notin Targets(ops[k])

(* A write is done and its request goes on to its next await, or to a next *)
(* target if the source is still there.                                    *)
Written(o) ==
    LET p == ops[o]
        w == Head(p.todo)
        q == Resumed(p, p.rest)
        more == q.todo = <<>> /\ q.rest # <<>>
        goes == more /\ p.x \in library \cup {NoSource}
    IN  /\ p.todo # <<>>
        /\ row' = CASE w.do = "row"      -> [row EXCEPT ![w.scr] = w.to]
                    [] w.do = "unassign" -> [s \in Screen |-> IF row[s].source = p.x
                                               THEN [row[s] EXCEPT !.source = NoSource] ELSE row[s]]
                    [] OTHER             -> row
        /\ libraryRows' = IF w.do = "drop" THEN libraryRows \ {p.x} ELSE libraryRows
        /\ slice' = IF goes THEN [slice EXCEPT ![Head(q.rest)] = Shown(p.x)] ELSE slice
        /\ ops' = [ops EXCEPT ![o] = IF goes THEN Reach(q) ELSE
                                     Resumed(p, IF more THEN <<>> ELSE p.rest)]
        /\ raced' = IF goes /\ Alone(o, Head(q.rest)) THEN raced \ {Head(q.rest)} ELSE raced
        /\ UNCHANGED <<library, record, hub, link, up, down, page, on, left>>

(* decorateSliceForSend: the surface of the caller, the source of today.   *)
Render(s, surface) ==
    IF surface = NoSource THEN Shown(NoSource) ELSE [surface |-> surface, source |-> slice[s].source]

(* PlayerHub.send: only the page's own socket still leads anywhere.        *)
Push(T) ==
    down' = [s \in Screen |->
               IF link[s] \in hub[s] /\ \E t \in T : t.scr = s
               THEN Append(down[s], Render(s, (CHOOSE t \in T : t.scr = s).surface))
               ELSE down[s]]

Forget(X) == record' = [x \in Source |-> IF x \in X THEN [s \in Screen |-> "none"] ELSE record[x]]

(* The same without the reports of a deleted source being forgotten.       *)
FinishKeeps(o) ==
    /\ Active(o) /\ ops[o].todo = <<>>
    /\ Push(ops[o].touched)
    /\ ops' = [ops EXCEPT ![o] = Idle]
    /\ UNCHANGED <<library, libraryRows, slice, row, record, hub, link, up, page, on, raced, left>>

Finish(o) ==
    /\ Active(o) /\ ops[o].todo = <<>>
    /\ Push(ops[o].touched) /\ Forget(ops[o].gone)
    /\ ops' = [ops EXCEPT ![o] = Idle]
    /\ UNCHANGED <<library, libraryRows, slice, row, hub, link, up, page, on, raced, left>>

-----------------------------------------------------------------------------
(* The socket. *)

Says(s) ==
    [t |-> "report", source |-> page[s].shows.source, state |-> page[s].verdict]

(* The page's socket opens: first what it knows, then who it is.           *)
Dial(s) ==
    /\ s \in on /\ link[s] = 0
    /\ Slot # hub[s]
    /\ link' = [link EXCEPT ![s] = CHOOSE n \in Slot : n \notin hub[s]]
    /\ up' = [up EXCEPT ![s] = (IF page[s].verdict = "unknown" THEN <<>> ELSE <<Says(s)>>)
                                 \o <<[t |-> "hello"]>>]
    /\ UNCHANGED <<server, down, page, raced, left>>

(* The page's side of a socket that closed.                                *)
Drop(s) ==
    /\ link' = [link EXCEPT ![s] = 0]
    /\ up' = [up EXCEPT ![s] = <<>>] /\ down' = [down EXCEPT ![s] = <<>>]

Lose(s) ==
    /\ link[s] # 0 /\ Spend("troubles")
    /\ Drop(s)
    /\ page' = [page EXCEPT ![s].told = FALSE]
    /\ UNCHANGED <<server, raced>>

(* The page starts afresh, from the last slice it kept.                    *)
Reload(s) ==
    /\ s \in on /\ Spend("troubles")
    /\ Drop(s)
    /\ page' = [page EXCEPT ![s].verdict = "unknown", ![s].told = FALSE]
    /\ UNCHANGED <<server, raced>>

(* The same with every socket of the screen taken for gone.                *)
NoticeCloseOfAll(s, n) ==
    /\ n \in hub[s] \ {link[s]}
    /\ hub' = [hub EXCEPT ![s] = {}]
    /\ record' = [x \in Source |-> [record[x] EXCEPT ![s] = "none"]]
    /\ UNCHANGED <<library, libraryRows, slice, row, ops, link, up, down, page, on, raced, left>>

(* The server learns that a socket closed; with the last one it forgets    *)
(* what the screen said.                                                   *)
NoticeClose(s, n) ==
    /\ n \in hub[s] \ {link[s]}
    /\ hub' = [hub EXCEPT ![s] = @ \ {n}]
    /\ record' = IF hub'[s] = {} THEN [x \in Source |-> [record[x] EXCEPT ![s] = "none"]]
                                 ELSE record
    /\ UNCHANGED <<library, libraryRows, slice, row, ops, link, up, down, page, on, raced, left>>

(* The same with a known page told nothing.                                *)
HearHelloQuietly(s) ==
    /\ up[s] # <<>> /\ Head(up[s]).t = "hello"
    /\ up' = [up EXCEPT ![s] = Tail(@)]
    /\ hub' = [hub EXCEPT ![s] = @ \cup {link[s]}]
    /\ down' = IF page[s].shows.surface # NoSource THEN down
               ELSE [down EXCEPT ![s] = Append(@, Render(s, slice[s].surface))]
    /\ UNCHANGED <<library, libraryRows, slice, row, ops, record, link, page, on, raced, left>>

(* A hello takes the socket into the hub and is answered with the slice.   *)
HearHello(s) ==
    /\ up[s] # <<>> /\ Head(up[s]).t = "hello"
    /\ up' = [up EXCEPT ![s] = Tail(@)]
    /\ hub' = [hub EXCEPT ![s] = @ \cup {link[s]}]
    /\ down' = [down EXCEPT ![s] = Append(@, Render(s, slice[s].surface))]
    /\ UNCHANGED <<library, libraryRows, slice, row, ops, record, link, page, on, raced, left>>

(* A report is recorded for a source of the library, whoever speaks.       *)
Records(s, m) ==
    record' = IF m.source \in library THEN [record EXCEPT ![m.source][s] = m.state] ELSE record

HearAnyReport(s) ==
    /\ up[s] # <<>> /\ Head(up[s]).t = "report"
    /\ up' = [up EXCEPT ![s] = Tail(@)]
    /\ Records(s, Head(up[s]))
    /\ UNCHANGED <<library, libraryRows, slice, row, ops, hub, link, down, page, on, raced, left>>

(* The same for a source that is no longer there.                          *)
HearReportOfGone(s) ==
    /\ up[s] # <<>> /\ Head(up[s]).t = "report"
    /\ up' = [up EXCEPT ![s] = Tail(@)]
    /\ record' = IF link[s] \in hub[s] /\ Head(up[s]).source \in Source
                 THEN [record EXCEPT ![Head(up[s]).source][s] = Head(up[s]).state] ELSE record
    /\ UNCHANGED <<library, libraryRows, slice, row, ops, hub, link, down, page, on, raced, left>>

(* A report before the hello is thrown away.                               *)
HearReport(s) ==
    /\ up[s] # <<>> /\ Head(up[s]).t = "report"
    /\ up' = [up EXCEPT ![s] = Tail(@)]
    /\ IF link[s] \in hub[s] THEN Records(s, Head(up[s])) ELSE UNCHANGED record
    /\ UNCHANGED <<library, libraryRows, slice, row, ops, hub, link, down, page, on, raced, left>>

-----------------------------------------------------------------------------
(* The page. *)

(* A render replaces what is shown; a new surface has no verdict yet.      *)
Get(s) ==
    /\ down[s] # <<>>
    /\ down' = [down EXCEPT ![s] = Tail(@)]
    /\ page' = [page EXCEPT ![s] =
                  [shows   |-> Head(down[s]),
                   verdict |-> IF Head(down[s]).surface = @.shows.surface THEN @.verdict
                               ELSE "unknown",
                   told    |-> @.told /\ Head(down[s]) = @.shows]]
    /\ UNCHANGED <<server, link, up, raced, left>>

(* The same with the report written before the verdict changes.            *)
ConcludeTooEarly(s, v) ==
    /\ s \in on /\ page[s].shows.surface # NoSource /\ page[s].verdict # v /\ Spend("verdicts")
    /\ page' = [page EXCEPT ![s] = [shows |-> @.shows, verdict |-> v,
                                    told |-> link[s] # 0 /\ @.shows.source # NoSource]]
    /\ up' = IF link[s] = 0 THEN up ELSE [up EXCEPT ![s] = Append(@, Says(s))]
    /\ UNCHANGED <<server, link, down, raced>>

(* The prober changes its verdict; a report goes out if a socket is open.  *)
Conclude(s, v) ==
    /\ s \in on /\ page[s].shows.surface # NoSource /\ page[s].verdict # v /\ Spend("verdicts")
    /\ page' = [page EXCEPT ![s] = [shows |-> @.shows, verdict |-> v,
                                    told |-> link[s] # 0 /\ @.shows.source # NoSource]]
    /\ up' = IF link[s] = 0 THEN up
             ELSE [up EXCEPT ![s] = Append(@, [Says(s) EXCEPT !.state = v])]
    /\ UNCHANGED <<server, link, down, raced>>

(* The content of a screen as a restart finds it: an assignment whose      *)
(* source is gone is dropped, what it put on the screen is not.            *)
Hydrated(s) == [row[s] EXCEPT !.source = IF @ \in libraryRows THEN @ ELSE NoSource]

(* The server restarts: memory is what the store holds, requests and       *)
(* sockets are gone.                                                       *)
Restart ==
    /\ Spend("troubles")
    /\ library' = libraryRows
    /\ slice' = [s \in Screen |-> Hydrated(s)]
    /\ ops' = [o \in Op |-> Idle]
    /\ record' = [x \in Source |-> [s \in Screen |-> "none"]]
    /\ hub' = [s \in Screen |-> {}] /\ link' = [s \in Screen |-> 0]
    /\ up' = [s \in Screen |-> <<>>] /\ down' = [s \in Screen |-> <<>>]
    /\ page' = [s \in Screen |-> [page[s] EXCEPT !.told = FALSE]]
    /\ raced' = {}
    /\ UNCHANGED <<libraryRows, row, on>>

-----------------------------------------------------------------------------
Targetings == {<<s>> : s \in Screen} \cup {T \in Screen \X Screen : T[1] # T[2]}

Asks    == \E o \in Op : \/ \E T \in Targetings, x \in Source \cup {NoSource} : Assign(o, T, x)
                         \/ \E x \in Source : Delete(o, x)
Works   == \E o \in Op : Written(o) \/ Finish(o)
Hears   == \E s \in Screen : HearHello(s) \/ HearReport(s)
Closes  == \E s \in Screen, n \in Slot : NoticeClose(s, n)
Gets    == \E s \in Screen : Get(s)
Dials   == \E s \in Screen : Dial(s)
Trouble == Restart \/ \E s \in Screen : Lose(s) \/ Reload(s)
Minds   == \E s \in Screen, v \in Verdict : Conclude(s, v)

Next == Asks \/ Works \/ Hears \/ Closes \/ Gets \/ Dials \/ Trouble \/ Minds

Spec == Init /\ [][Next]_vars

(* Writes return, frames arrive, a closed socket is noticed, and the page  *)
(* redials for ever; nobody owes an edit, a verdict or a failure.          *)
Fairness == WF_vars(Works) /\ WF_vars(Hears) /\ WF_vars(Closes) /\ WF_vars(Gets) /\ WF_vars(Dials)

-----------------------------------------------------------------------------
(* Properties *)

(* Every mutation writes through before it returns: where no request is    *)
(* under way and none crossed another, a restart would change nothing.     *)
WrittenThrough == \A s \in Screen : ~Busy(s) /\ s \notin raced => slice[s] = Hydrated(s)

(* A page whose socket said hello and has no render under way shows what   *)
(* the server means it to, unless two requests crossed there.              *)
ShowsSlice ==
    \A s \in Screen : link[s] \in hub[s] /\ down[s] = <<>> /\ ~Busy(s) /\ s \notin raced
                         => page[s].shows = slice[s]

(* "an offline screen knows nothing": a screen without a socket in the hub *)
(* has no say in any source's badge.                                       *)
OnlyOnlineSpeak ==
    \A x \in Source, s \in Screen : record[x][s] # "none" => hub[s] # {}

(* "the source is gone; so is anything the players ever said about it".    *)
GoneIsSilent ==
    \A x \in Source \ library :
       (\A o \in Op : x \notin ops[o].gone) => \A s \in Screen : record[x][s] = "none"

(* The record of what players said is sound: nothing from a screen that is *)
(* offline, nothing about a source that is gone.                           *)
RecordSound == TypeOK /\ OnlyOnlineSpeak /\ GoneIsSilent

(* A verdict reached on an open socket is what the console shows, once it  *)
(* has arrived, for as long as that socket and that content last.          *)
ToldIsKnown ==
    \A s \in Screen : page[s].told /\ up[s] = <<>> /\ page[s].shows.source \in library
                         => record[page[s].shows.source][s] = page[s].verdict

(* A page that said hello and has no render under way shows its slice, and  *)
(* the verdict it sent of it is the one the console shows.                   *)
SettledRight == ShowsSlice /\ ToldIsKnown

(* Whatever sockets, pages and servers do, each wall comes to show what    *)
(* the server means it to, unless two requests crossed there.              *)
WallFollows == \A s \in Screen : <>[](s \in raced \/ s \notin on \/ page[s].shows = slice[s])

(* Player.vue: "re-state what we already know.  Without this, a wall that  *)
(* reconnected while its dashboard was dead would read unknown".           *)
Restated ==
    \A s \in Screen :
       link[s] \in hub[s] /\ up[s] = <<>> /\ page[s].verdict # "unknown"
         /\ page[s].shows.source \in library /\ down[s] = <<>>
            => record[page[s].shows.source][s] = page[s].verdict
=============================================================================
