----------------------------- MODULE Enrollment -----------------------------
(***************************************************************************)
(* How a box gets in: the agent's sockets, the hello each one sends and the *)
(* awaits of its handler (server/src/ws.ts), what authenticate decides      *)
(* (enroll.ts), the registry's status and credential of a machine           *)
(* (state.ts), the hub and the presence count (hub.ts, admin.ts), and the   *)
(* operator who approves, rejects and removes (rest.ts).                    *)
(*                                                                         *)
(* A handler runs alone up to its next await; what other handlers do        *)
(* meanwhile is seen only by the code after it.  A frame reaches the box    *)
(* when it is sent on the socket the box is on, and is lost otherwise.      *)
(***************************************************************************)
EXTENDS Naturals, FiniteSets

CONSTANTS
    Machine,        \* boxes
    Token,          \* enrolment tokens, one of which each boot stick carries
    None,
    Sockets,        \* bound: sockets the server has at one time
    Cap,            \* maxEnrollments of each token
    Operators,      \* bound: operator requests at one time
    MaxLosses,      \* bound: connections a box loses
    MaxRemovals     \* bound: removals

ASSUME BoundsAssumption == Sockets \in Nat \ {0} /\ Cap \in Nat /\ Operators \in Nat
                          /\ MaxLosses \in Nat /\ MaxRemovals \in Nat
ASSUME NoneAssumption   == None \notin Machine \cup Token /\ None \notin 1 .. Sockets

VARIABLES
    machine,        \* the status in the registry
    token,          \* state and uses of each token
    conn,           \* the server's sockets, with the hello each is handling
    count,          \* Presence.agentConns
    desk,           \* operator requests past their first await
    required,       \* the fleet requires mTLS: the plain channel only issues
    saved,          \* the credential in the box's file
    bundle,         \* the box holds a client certificate
    stick,          \* the token the box presents
    dial,           \* the socket the box is on
    told,           \* what it was last told there
    overtaken,      \* history: told, or to be told, what was decided before a
                    \* write of an operator or of another socket's hello
    forgotten,      \* history: removed while sockets of it were registered
    losses, removals

file   == <<bundle, stick, dial>>
bounds == <<losses, removals>>
vars   == <<machine, token, conn, count, desk, required, saved, file, told, overtaken, forgotten, bounds>>

Conn == 1 .. Sockets

(* A credential is the one whose hash the registry holds, or another. *)
Credential == {"none", "current", "old"}
Aged(c)    == IF c = "current" THEN "old" ELSE c

Free == [of |-> None, issuing |-> FALSE, given |-> "none", sock |-> "none", step |-> "idle",
         kind |-> "none", cred |-> "none", reg |-> FALSE, hub |-> FALSE]

(* What the server holds of a socket: its box, the channel it is on, the     *)
(* credential it brought, how far the handler of its hello has got, with    *)
(* which decision and which credential to hand out, and the sets it is in.  *)
Step   == {"idle", "signing", "registering", "enrolling", "counting", "naming", "approving", "touching"}
Socket == [of : Machine \cup {None}, issuing : BOOLEAN, given : Credential,
           sock : {"none", "open", "closing", "closed"}, step : Step,
           kind : {"none", "open", "admit", "enrol", "pending"}, cred : Credential,
           reg : BOOLEAN, hub : BOOLEAN]

TypeOK ==
    /\ machine \in [Machine -> {"unknown", "pending", "approved", "rejected"}]
    /\ token \in [Token -> [state : {"uncut", "live", "dead", "gone"}, uses : Nat]]
    /\ conn \in [Conn -> Socket]
    /\ count \in [Machine -> Nat]
    /\ desk \subseteq {"approve", "reject", "remove"} \X Machine
    /\ required \in BOOLEAN
    /\ saved \in [Machine -> Credential] /\ bundle \in [Machine -> BOOLEAN]
    /\ stick \in [Machine -> Token \cup {None}] /\ dial \in [Machine -> Conn \cup {None}]
    /\ told \in [Machine -> {"nothing", "pending", "applied"}]
    /\ overtaken \subseteq Machine /\ forgotten \subseteq Machine
    /\ losses \in 0 .. MaxLosses /\ removals \in 0 .. MaxRemovals

-----------------------------------------------------------------------------
(* Small things the handlers share *)

Of(m)    == {k \in Conn : conn[k].of = m}
InHub(m) == {k \in Of(m) : conn[k].hub}
Busy(k)  == conn[k].step # "idle"
Hears(k) == conn[k].sock = "open" /\ dial[conn[k].of] = k
OpenMode == \A t \in Token : token[t].state \in {"uncut", "gone"}

(* A socket that is closed, handles nothing and is in no set is gone. *)
Kept(c)    == IF c.sock = "closed" /\ c.step = "idle" /\ ~c.hub THEN Free ELSE c
Closing(c) == IF c.sock = "open" THEN [c EXCEPT !.sock = "closing"] ELSE c

Becomes(k, c) == conn' = [conn EXCEPT ![k] = Kept(c)]

(* The registry holds another hash, or none: an older credential is no longer *)
(* the current one.                                                          *)
Old(c) == [c EXCEPT !.given = Aged(@), !.cred = Aged(@)]

Tell(k, what) == told' = IF Hears(k) THEN [told EXCEPT ![conn[k].of] = what] ELSE told

(* A hello on k writes to its machine, whose box may be on another socket. *)
Overtaking(k) ==
    LET m == conn[k].of
    IN  IF dial[m] \in Conn \ {k} THEN overtaken \cup {m} ELSE overtaken

(* The handler has handed out what it had and goes on, or comes to its end. *)
Onto(c, step) == [c EXCEPT !.step = step, !.cred = "none"]

(* The end of a hello: the box is told, and on the plain channel of a fleet  *)
(* that requires mTLS the socket is closed instead.                         *)
Done(k, what) ==
    LET c == Onto(conn[k], "idle")
    IN  IF c.issuing THEN Becomes(k, Closing(c)) /\ UNCHANGED told
                     ELSE Becomes(k, c) /\ Tell(k, what)

(* sendEnrolled: the box saves its credential and its certificate. *)
SendEnrolled(k) ==
    LET m == conn[k].of IN
    /\ saved'  = IF Hears(k) /\ conn[k].cred # "none" THEN [saved EXCEPT ![m] = conn[k].cred] ELSE saved
    /\ bundle' = IF Hears(k) /\ conn[k].issuing THEN [bundle EXCEPT ![m] = TRUE] ELSE bundle
    /\ UNCHANGED <<stick, dial>>

-----------------------------------------------------------------------------
(* The box and its sockets *)

Dialled(m) ==
    [Free EXCEPT !.of = m, !.sock = "open", !.given = saved[m], !.issuing = required /\ ~bundle[m]]

(* A box that is on no socket dials; in a fleet that requires mTLS it takes  *)
(* the plain channel only to be issued a certificate.                       *)
Dial(m) ==
    /\ dial[m] = None
    /\ \E k \in Conn :
        /\ conn[k] = Free /\ \A j \in 1 .. k - 1 : conn[j] # Free
        /\ dial' = [dial EXCEPT ![m] = k]
        /\ conn' = [conn EXCEPT ![k] = Dialled(m)]
    /\ UNCHANGED <<machine, token, count, desk, required, saved, bundle, stick, told, overtaken, forgotten, bounds>>

(* The box is on no socket any more. *)
Leaves(m) ==
    /\ dial' = [dial EXCEPT ![m] = None]
    /\ told' = [told EXCEPT ![m] = "nothing"]
    /\ overtaken' = overtaken \ {m}

(* It reboots, or its network goes: the server learns of it later. *)
Lose(m) ==
    /\ dial[m] # None /\ losses < MaxLosses
    /\ Leaves(m)
    /\ losses' = losses + 1
    /\ UNCHANGED <<machine, token, conn, count, desk, required, saved, bundle, stick, forgotten, removals>>

(* Presence.agentDisconnected *)
(* Mutant: it is not kept from going below zero. *)
OneLessUnclamped(n) == n - 1

OneLess(n) == IF n = 0 THEN 0 ELSE n - 1

(* The close handler.  What it undoes is what its hello has done by now. *)
Closed(k) ==
    LET m == conn[k].of IN
    /\ \/ conn[k].sock = "closing"
       \/ conn[k].sock = "open" /\ dial[m] # k
    /\ Becomes(k, [conn[k] EXCEPT !.sock = "closed", !.hub = FALSE])
    /\ count' = IF conn[k].reg THEN [count EXCEPT ![m] = OneLess(@)] ELSE count
    /\ IF dial[m] = k THEN Leaves(m) ELSE UNCHANGED <<dial, told, overtaken>>
    /\ forgotten' = IF InHub(m) \subseteq {k} THEN forgotten \ {m} ELSE forgotten
    /\ UNCHANGED <<machine, token, desk, required, saved, bundle, stick, bounds>>

-----------------------------------------------------------------------------
(* agent/hello *)

(* usable: the cap counts boxes let in, not boxes that come back. *)
(* Mutant: it is held against every box. *)
UsableByNone(t, m) == token[t].state = "live" /\ token[t].uses < Cap

(* Mutant: it lets one in too many. *)
UsableOnceMore(t, m) ==
    /\ token[t].state = "live"
    /\ machine[m] = "unknown" => token[t].uses <= Cap

Usable(t, m) ==
    /\ token[t].state = "live"
    /\ machine[m] = "unknown" => token[t].uses < Cap

(* authenticate: the decision, and whether a new credential goes with it. *)
(* Mutant: a rejected machine is taken for one never seen. *)
AuthenticateAnew(m, given) ==
    LET known == machine[m] \notin {"unknown", "rejected"}
        kind  == IF machine[m] = "approved" THEN "admit" ELSE IF known THEN "pending" ELSE "enrol"
        t     == stick[m]
    IN  IF OpenMode THEN [kind |-> "open", new |-> FALSE]
        ELSE IF known /\ given = "current" THEN [kind |-> kind, new |-> FALSE]
        ELSE IF t # None /\ Usable(t, m) THEN [kind |-> kind, new |-> TRUE]
        ELSE [kind |-> "reject", new |-> FALSE]

Authenticate(m, given) ==
    LET known == machine[m] # "unknown"
        kind  == IF machine[m] = "approved" THEN "admit" ELSE IF known THEN "pending" ELSE "enrol"
        t     == stick[m]
    IN  IF OpenMode THEN [kind |-> "open", new |-> FALSE]
        ELSE IF machine[m] = "rejected" THEN [kind |-> "reject", new |-> FALSE]
        ELSE IF known /\ given = "current" THEN [kind |-> kind, new |-> FALSE]
        ELSE IF t # None /\ Usable(t, m) THEN [kind |-> kind, new |-> TRUE]
        ELSE [kind |-> "reject", new |-> FALSE]

(* The first hello of a socket enters it in the hub and the presence count. *)
(* Mutant: every hello counts. *)
EntersAlways(c) == ~c.issuing
Enters(c) == ~c.issuing /\ ~c.reg

FirstStep(kind) == CASE kind \in {"open", "admit"} -> "registering"
                     [] kind = "enrol"             -> "enrolling"
                     [] OTHER                      -> "touching"

Entered(c) == [c EXCEPT !.step = FirstStep(c.kind), !.kind = "none",
                        !.reg = @ \/ Enters(c), !.hub = @ \/ Enters(c)]

(* From here the socket is kept: the hub, the presence count, and what the   *)
(* decision does to the registry before its first await.  c is the socket    *)
(* with its decision; a credential it is to hand out (c.cred is "old" until  *)
(* now) becomes the current one: its hash is the registry's.                 *)
Enter(k, c) ==
    LET m == c.of
        step == FirstStep(c.kind)
    IN  /\ IF c.cred = "none"
           THEN Becomes(k, Entered(c)) /\ UNCHANGED saved
           ELSE /\ conn' = [j \in Conn |-> IF j = k THEN [Entered(c) EXCEPT !.cred = "current"]
                                            ELSE IF j \in Of(m) THEN Old(conn[j]) ELSE conn[j]]
                /\ saved' = [saved EXCEPT ![m] = Aged(@)]
        /\ count' = IF Enters(c) THEN [count EXCEPT ![m] = @ + 1] ELSE count
        /\ machine' = IF step = "registering" THEN [machine EXCEPT ![m] = "approved"]
                      ELSE IF step = "enrolling" THEN [machine EXCEPT ![m] = "pending"] ELSE machine

(* The socket with its decision; what it brought is used up.                 *)
Decided(c, d) ==
    [c EXCEPT !.given = "none", !.kind = IF d.kind = "reject" THEN "none" ELSE d.kind,
              !.cred = IF d.new THEN "old" ELSE "none"]

(* The first hello of a socket, or another when the box's outputs changed. *)
Hello(k) ==
    /\ conn[k].sock = "open" /\ ~Busy(k)
    /\ ~conn[k].reg \/ Hears(k)
    /\ LET m == conn[k].of
           d == Authenticate(m, IF conn[k].reg THEN saved[m] ELSE conn[k].given)
           c == Decided(conn[k], d)
           begins == IF dial[m] = k THEN overtaken \ {m} ELSE overtaken
       IN  CASE d.kind = "reject" ->
                  /\ Becomes(k, Closing(c))
                  /\ overtaken' = begins
                  /\ UNCHANGED <<machine, count, saved>>
             [] OTHER ->
                  \/ /\ ~c.issuing
                     /\ Enter(k, c)
                     /\ overtaken' = IF dial[m] = k THEN begins ELSE Overtaking(k)
                  \/ /\ Becomes(k, [c EXCEPT !.step = "signing"])
                     /\ overtaken' = begins
                     /\ UNCHANGED <<machine, count, saved>>
    /\ UNCHANGED <<token, desk, required, file, told, forgotten, bounds>>

(* After the await of signCsr, whatever became of the socket. *)
Signed(k) ==
    /\ conn[k].step = "signing"
    /\ Enter(k, conn[k])
    /\ overtaken' = Overtaking(k)
    /\ UNCHANGED <<token, desk, required, file, told, forgotten, bounds>>

(* After registerMachine *)
Registered(k) ==
    /\ conn[k].step = "registering"
    /\ SendEnrolled(k)
    /\ Done(k, "applied")
    /\ UNCHANGED <<machine, token, count, desk, required, overtaken, forgotten, bounds>>

(* After enrollPending: recordUse *)
Enrolled(k) ==
    /\ conn[k].step = "enrolling"
    /\ LET t == stick[conn[k].of]
       IN  token' = IF token[t].state = "gone" THEN token ELSE [token EXCEPT ![t].uses = @ + 1]
    /\ Becomes(k, [conn[k] EXCEPT !.step = "counting"])
    /\ UNCHANGED <<machine, count, desk, required, saved, file, told, overtaken, forgotten, bounds>>

(* After recordUse: the credential goes out, and a pre-registration of the   *)
(* box, if there is one, is claimed.                                        *)
Counted(k) ==
    /\ conn[k].step = "counting"
    /\ SendEnrolled(k)
    /\ \/ Done(k, "pending")
       \/ /\ machine[conn[k].of] # "unknown"
          /\ Becomes(k, Onto(conn[k], "naming"))
          /\ UNCHANGED told
    /\ UNCHANGED <<machine, token, count, desk, required, overtaken, forgotten, bounds>>

(* After applyPreRegistration: the record may approve the box by itself. *)
Named(k) ==
    LET m == conn[k].of IN
    /\ conn[k].step = "naming"
    /\ \/ /\ ~conn[k].issuing /\ machine[m] # "unknown"
          /\ machine' = [machine EXCEPT ![m] = "approved"]
          /\ Becomes(k, [conn[k] EXCEPT !.step = "approving"])
          /\ overtaken' = Overtaking(k)
          /\ UNCHANGED told
       \/ /\ Done(k, "pending")
          /\ UNCHANGED <<machine, overtaken>>
    /\ UNCHANGED <<token, count, desk, required, saved, file, forgotten, bounds>>

(* After approveMachine *)
AutoApproved(k) ==
    /\ conn[k].step = "approving"
    /\ Done(k, "applied")
    /\ UNCHANGED <<machine, token, count, desk, required, saved, file, overtaken, forgotten, bounds>>

(* After setMachineCredential or touchMachine: the box waits, whatever an    *)
(* operator decided meanwhile.                                              *)
Touched(k) ==
    /\ conn[k].step = "touching"
    /\ SendEnrolled(k)
    /\ Done(k, "pending")
    /\ UNCHANGED <<machine, token, count, desk, required, overtaken, forgotten, bounds>>

Resume(k) ==
    Signed(k) \/ Registered(k) \/ Enrolled(k) \/ Counted(k) \/ Named(k) \/ AutoApproved(k) \/ Touched(k)

-----------------------------------------------------------------------------
(* The operator *)

Asks(what, m) ==
    /\ machine[m] # "unknown" /\ <<what, m>> \notin desk /\ Cardinality(desk) < Operators
    /\ removals' = IF what = "remove" THEN removals + 1 ELSE removals
    /\ removals' <= MaxRemovals
    /\ desk' = desk \cup {<<what, m>>}
    /\ machine' = [machine EXCEPT ![m] =
                      CASE what = "approve" -> "approved" [] what = "reject" -> "rejected" [] OTHER -> "unknown"]
    /\ overtaken' = IF dial[m] # None /\ Busy(dial[m]) THEN overtaken \cup {m} ELSE overtaken
    /\ IF what = "remove"
       THEN /\ conn' = [k \in Conn |-> IF k \in Of(m) THEN Old(conn[k]) ELSE conn[k]]
            /\ saved' = [saved EXCEPT ![m] = Aged(@)]
       ELSE UNCHANGED <<conn, saved>>
    /\ UNCHANGED <<token, count, required, file, told, forgotten, losses>>

Answered(what, m) == <<what, m>> \in desk /\ desk' = desk \ {<<what, m>>}
ClosesAll(S)      == conn' = [k \in Conn |-> IF k \in S THEN Closing(conn[k]) ELSE conn[k]]

(* approve, after approveMachine: the sockets in the hub are told. *)
(* Mutant: the route leaves it to the next hello. *)
ApproveQuietly(m) ==
    /\ Answered("approve", m)
    /\ UNCHANGED <<machine, token, conn, count, required, saved, file, told, overtaken, forgotten, bounds>>

ApproveEnds(m) ==
    /\ Answered("approve", m)
    /\ told' = IF \E k \in InHub(m) : Hears(k) THEN [told EXCEPT ![m] = "applied"] ELSE told
    /\ UNCHANGED <<machine, token, conn, count, required, saved, file, overtaken, forgotten, bounds>>

(* reject, after rejectMachine: they are closed. *)
(* Mutant: only the first one found is. *)
RejectOne(m) ==
    /\ Answered("reject", m)
    /\ ClosesAll({k \in InHub(m) : \A j \in InHub(m) : k <= j})
    /\ UNCHANGED <<machine, token, count, required, saved, file, told, overtaken, forgotten, bounds>>

RejectEnds(m) ==
    /\ Answered("reject", m)
    /\ ClosesAll(InHub(m))
    /\ UNCHANGED <<machine, token, count, required, saved, file, told, overtaken, forgotten, bounds>>

(* remove, after removeMachine: closed, and the count forgotten. *)
RemoveEnds(m) ==
    /\ Answered("remove", m)
    /\ ClosesAll(InHub(m))
    /\ count' = [count EXCEPT ![m] = 0]
    /\ forgotten' = IF InHub(m) = {} THEN forgotten ELSE forgotten \cup {m}
    /\ UNCHANGED <<machine, token, required, saved, file, told, overtaken, bounds>>

Answers(m) == ApproveEnds(m) \/ RejectEnds(m) \/ RemoveEnds(m)

(* Tokens are cut, revoked or expire, and are deleted. *)
TokenTurns(t) ==
    /\ \E s \in {"uncut", "live", "dead"} :
        /\ token[t].state = s
        /\ \E next \in (CASE s = "uncut" -> {"live"} [] s = "live" -> {"dead", "gone"} [] OTHER -> {"gone"}) :
               token' = [token EXCEPT ![t] = [state |-> next, uses |-> IF next = "gone" THEN 0 ELSE @.uses]]
    /\ UNCHANGED <<machine, conn, count, desk, required, saved, file, told, overtaken, forgotten, bounds>>

-----------------------------------------------------------------------------
Init ==
    /\ machine = [m \in Machine |-> "unknown"]
    /\ token \in [Token -> [state : {"uncut", "live"}, uses : {0}]]
    /\ conn = [k \in Conn |-> Free] /\ count = [m \in Machine |-> 0]
    /\ desk = {} /\ required \in BOOLEAN
    /\ saved = [m \in Machine |-> "none"] /\ bundle = [m \in Machine |-> FALSE]
    /\ stick \in [Machine -> Token \cup {None}]
    /\ dial = [m \in Machine |-> None]
    /\ told = [m \in Machine |-> "nothing"] /\ overtaken = {} /\ forgotten = {}
    /\ losses = 0 /\ removals = 0

BoxNext    == \E m \in Machine : Dial(m) \/ Lose(m)
ServerNext == \E k \in Conn : Closed(k) \/ Hello(k) \/ Resume(k)
AdminNext  ==
    \/ \E m \in Machine : (\E what \in {"approve", "reject", "remove"} : Asks(what, m)) \/ Answers(m)
    \/ \E t \in Token : TokenTurns(t)

Next == BoxNext \/ ServerNext \/ AdminNext
Spec == Init /\ [][Next]_vars

(* Something goes on between boxes and server: a box on no socket dials, a     *)
(* dead socket is noticed, a first hello is read, a handler goes on after its *)
(* await; and the operator's requests are answered.                          *)
Works ==
    \/ \E m \in Machine : Dial(m)
    \/ \E k \in Conn : Closed(k) \/ (~conn[k].reg /\ Hello(k)) \/ Resume(k)
Fairness == WF_vars(Works) /\ WF_vars(\E m \in Machine : Answers(m))

-----------------------------------------------------------------------------
(* Properties *)

(* A box whose hello has been answered on a socket that is kept. *)
InSession(k) == Hears(k) /\ ~Busy(k) /\ conn[k].hub

Quiet(m) == \A what \in {"approve", "reject", "remove"} : <<what, m>> \notin desk

(* A hello that was let past is still being handled. *)
Underway(m) == \E k \in Of(m) : Busy(k)

(* No box is left on its pending board once it is approved: whichever of the *)
(* hello and the approval comes first, the box is told, unless the decision  *)
(* fell between the hello's and its answer.                                 *)
NotLeftWaiting ==
    \A k \in Conn : LET m == conn[k].of IN
        InSession(k) /\ m \notin overtaken /\ Quiet(m) /\ machine[m] = "approved" => told[m] = "applied"

(* Nobody stays in who has been put out: once reject or remove has answered, *)
(* the box is in no session, with the same exception.                       *)
PutOut ==
    \A k \in Conn : LET m == conn[k].of IN
        InSession(k) /\ m \notin overtaken /\ Quiet(m) => machine[m] \notin {"rejected", "unknown"}

(* What a box in session was told is what the registry says of it: nobody    *)
(* approved is left on the pending board, nobody put out stays in.          *)
SessionsTrue == NotLeftWaiting /\ PutOut

(* The presence count is the number of registered sockets, through            *)
(* overlapping reconnects and half-dead sockets, unless the machine was       *)
(* removed while it had some.                                               *)
CountsSockets ==
    \A m \in Machine : m \notin forgotten => count[m] = Cardinality(InHub(m))

(* A token lets in no more boxes than its cap, but for those that said hello  *)
(* at the same time: the cap is read when a hello is decided, and counted     *)
(* two awaits later.                                                         *)
Uncounted(t) ==
    {k \in Conn : /\ conn[k].of # None /\ stick[conn[k].of] = t
                  /\ conn[k].step = "enrolling" \/ (conn[k].step = "signing" /\ conn[k].kind = "enrol")}
CapNearlyKept ==
    \A t \in Token : token[t].uses + Cardinality(Uncounted(t)) < Cap + Sockets

(* Every variable is what it should be, and a token's uses stay within its   *)
(* cap but for the boxes that said hello at the same time.                  *)
Registers == TypeOK /\ CapNearlyKept

(* Rejection is terminal: only the operator takes it back, unless a hello of  *)
(* the machine was already let past when it was made.                        *)
RejectedStays ==
    [][\A m \in Machine :
         machine[m] = "rejected" /\ desk' = desk /\ ~Underway(m) /\ ~OpenMode
            => machine'[m] = "rejected"]_vars

(* What state.ts and enroll.ts say of it: terminal, it will never be admitted. *)
RejectedIsTerminal ==
    [][\A m \in Machine :
         machine[m] = "rejected" /\ desk' = desk /\ ~OpenMode => machine'[m] = "rejected"]_vars

(* A box the registry knows gets back in: it loses its connection, or the      *)
(* answer with its credential, and is in session again, as long as its stick's *)
(* token lives.                                                             *)
Welcome(m) == machine[m] \in {"pending", "approved"} /\ stick[m] # None /\ token[stick[m]].state = "live"
GetsBackIn == \A m \in Machine : []<>((\E k \in Of(m) : InSession(k)) \/ ~Welcome(m))
=============================================================================
