---------------------------- MODULE LogShipping ----------------------------
(***************************************************************************)
(* One box ships its log lines to the control plane: the agent's logger     *)
(* (agent/src/logger.ts) with its spool and the file that mirrors it, the   *)
(* agent socket, and the server's ingest and sink (server/src/ws.ts,        *)
(* server/src/logs.ts).                                                     *)
(*                                                                         *)
(* A line is its place in `seqs`, the sequence of all lines this box ever   *)
(* spooled; seqs[l] is the seq it was given, which is all that batches,     *)
(* acks and the server's memory know it by.  The shipper is armed when the  *)
(* server has admitted the box, so a batch is never refused as unbound.     *)
(***************************************************************************)
EXTENDS Integers, FiniteSets, Sequences

CONSTANTS
    SpoolCap,       \* SPOOL_CAP
    BatchMax,       \* LOG_BATCH_MAX
    SendCap,        \* SEND_CAP_PER_MIN
    SeqMemory,      \* SEQ_MEMORY
    BatchId,        \* the ids batches are given; as many as can be in use
    MaxLines,       \* bound: lines the box's own code writes
    MaxTroubles     \* bound: drops and restarts of the box and the server

(* A batch larger than a minute's budget would never leave the box. *)
ASSUME SizesAssumption ==
    /\ SpoolCap \in Nat \ {0} /\ BatchMax \in Nat \ {0} /\ SeqMemory \in Nat \ {0}
    /\ SendCap \in Nat /\ BatchMax <= SendCap
ASSUME BoundsAssumption == MaxLines \in Nat /\ MaxTroubles \in Nat

VARIABLES
    seqs,           \* every line ever spooled, by the seq it was given
    spool,          \* AgentLogger.spool: lines not yet acked
    disk,           \* the lines in the spool file
    queued,         \* a rewrite of the file is due (writeQueued)
    seq,            \* the last seq given
    inFlight,       \* batches awaiting an ack: their id and the seqs they carried
    up,             \* the shipper is set: the box is admitted on an open socket
    announced,      \* this connection has complained of a refusal
    sent,           \* lines sent this minute
    wire,           \* batches on their way to the server
    acks,           \* answers on their way to the box
    writable,       \* LogSink.writable
    seen,           \* LogSink.seen of this box
    loop,           \* the batch the server is working through
    chain,          \* appends that wait for the disk (writeChain)
    asked,          \* batches of the current socket not answered yet
    stored,         \* the lines in the log
    twice,          \* history: lines stored more than once
    evicted,        \* history: lines pushed out of a full spool
    unsaved,        \* history: lines a restart of the box did not find in the file
    unlanded,       \* history: lines of appends that failed or never ran
    forgotten,      \* history: seqs that left LogSink.seen
    troubles

boxVars     == <<seqs, spool, disk, queued, seq, inFlight, up, announced, sent>>
serverVars  == <<writable, seen, loop, chain, asked>>
historyVars == <<stored, twice, evicted, unsaved, unlanded, forgotten>>
vars        == <<boxVars, wire, acks, serverVars, historyVars, troubles>>

Written == 1 .. Len(seqs)
NoLoop  == [id |-> {}, left |-> {}, fresh |-> {}]
Elems(q) == {q[i] : i \in DOMAIN q}

Batch  == [id : BatchId, lines : SUBSET Written]
TypeOK ==
    /\ seqs \in Seq(Nat) /\ seq \in Nat
    /\ spool \subseteq Written /\ disk \subseteq Written
    /\ queued \in BOOLEAN /\ up \in BOOLEAN /\ announced \in BOOLEAN /\ writable \in BOOLEAN
    /\ inFlight \subseteq [id : BatchId, seqs : SUBSET Nat]
    /\ sent \in 0 .. SendCap
    /\ wire \in Seq(Batch) /\ chain \in Seq(Batch)
    /\ acks \in Seq([id : BatchId, accepted : BOOLEAN])
    /\ seen \subseteq Nat /\ forgotten \subseteq Nat
    /\ loop \in [id : SUBSET BatchId, left : SUBSET Written, fresh : SUBSET Written]
    /\ asked \subseteq BatchId
    /\ \A S \in {stored, twice, evicted, unsaved, unlanded} : S \subseteq Written
    /\ troubles \in 0 .. MaxTroubles

-----------------------------------------------------------------------------
(* The box *)

UsedIds ==
    {b.id : b \in inFlight} \cup {b.id : b \in Elems(wire)} \cup {a.id : a \in Elems(acks)}
        \cup loop.id \cup {b.id : b \in Elems(chain)} \cup asked

FreshIds(n) ==
    {f \in [1 .. n -> BatchId \ UsedIds] : \A i, j \in 1 .. n : f[i] = f[j] => i = j}

Chunk(W, j) ==
    LET rank(l) == Cardinality({k \in W : k <= l})
    IN  {l \in W : (j - 1) * BatchMax < rank(l) /\ rank(l) <= j * BatchMax}

(* Mutant: the budget is taken afresh by every drain. *)
RoomWhole == SendCap

Room == SendCap - sent

Waiting(lines, sq, flying) == {l \in lines : \A b \in flying : sq[l] \notin b.seqs}

(* drain: the oldest lines not in flight, a batch at a time, up to the first *)
(* batch the minute's budget has no room for.                               *)
Ship(lines, sq, flying) ==
    LET waiting == Waiting(lines, sq, flying)
        total   == Cardinality(waiting)
        n       == IF total <= Room THEN (total + BatchMax - 1) \div BatchMax
                                    ELSE Room \div BatchMax
    IN  /\ FreshIds(n) # {}
        /\ LET id == CHOOSE f \in FreshIds(n) : TRUE IN
           /\ inFlight' = flying \cup {[id |-> id[j], seqs |-> {sq[l] : l \in Chunk(waiting, j)}] : j \in 1 .. n}
           /\ wire' = wire \o [j \in 1 .. n |-> [id |-> id[j], lines |-> Chunk(waiting, j)]]
        /\ sent' = sent + (IF total <= Room THEN total ELSE n * BatchMax)

Newest(S) == {l \in S : Cardinality({k \in S : k > l}) < SpoolCap}

(* write: one more line is spooled, the oldest go past the cap, and what the *)
(* channel will take is sent at once.                                       *)
WriteLine(flying) ==
    LET sq  == Append(seqs, seq + 1)
        all == spool \cup {Len(sq)}
    IN  /\ seqs' = sq
        /\ seq' = seq + 1
        /\ spool' = Newest(all)
        /\ evicted' = evicted \cup (all \ Newest(all))
        /\ queued' = TRUE
        /\ IF up THEN Ship(Newest(all), sq, flying)
                 ELSE inFlight' = flying /\ UNCHANGED <<wire, sent>>

Write ==
    /\ Len(seqs) < MaxLines
    /\ WriteLine(inFlight)
    /\ UNCHANGED <<disk, up, announced, acks, serverVars, stored, twice, unsaved, unlanded, forgotten, troubles>>

(* The ship timer. *)
Drain ==
    /\ up
    /\ Ship(spool, seqs, inFlight)
    /\ UNCHANGED <<seqs, spool, disk, queued, seq, up, announced, acks, serverVars, historyVars, troubles>>

Minute ==
    /\ sent # 0 /\ sent' = 0
    /\ UNCHANGED <<seqs, spool, disk, queued, seq, inFlight, up, announced,
                   wire, acks, serverVars, historyVars, troubles>>

(* flushWrite; a file that cannot be written is passed over. *)
Flush ==
    /\ queued /\ queued' = FALSE
    /\ disk' = spool
    /\ UNCHANGED <<seqs, spool, seq, inFlight, up, announced, sent,
                   wire, acks, serverVars, historyVars, troubles>>

FlushFails ==
    /\ queued /\ queued' = FALSE
    /\ UNCHANGED <<disk, seqs, spool, seq, inFlight, up, announced, sent,
                   wire, acks, serverVars, historyVars, troubles>>

(* Admission: startLogShipping sets the shipper, which drains. *)
Connect ==
    /\ ~up /\ up' = TRUE
    /\ announced' = FALSE
    /\ Ship(spool, seqs, inFlight)
    /\ UNCHANGED <<seqs, spool, disk, queued, seq, acks, serverVars, historyVars, troubles>>

(* onAck of an accepted batch: exactly its lines leave the spool. *)
(* Mutant: an ack empties everything that was in flight from the spool. *)
AcceptedAll(b) ==
    /\ spool' = {l \in spool : \A f \in inFlight : seqs[l] \notin f.seqs}
    /\ queued' = TRUE
    /\ inFlight' = inFlight \ {b}
    /\ UNCHANGED <<seqs, seq, evicted, announced, wire, sent>>

Accepted(b) ==
    /\ spool' = {l \in spool : seqs[l] \notin b.seqs}
    /\ queued' = TRUE
    /\ inFlight' = inFlight \ {b}
    /\ UNCHANGED <<seqs, seq, evicted, announced, wire, sent>>

(* onAck of a refused one: its lines stay, and the box says so, once on each *)
(* connection, in a line of its own.                                        *)
Refused(b) ==
    IF announced
    THEN /\ inFlight' = inFlight \ {b}
         /\ UNCHANGED <<seqs, seq, spool, evicted, queued, announced, wire, sent>>
    ELSE /\ announced' = TRUE
         /\ WriteLine(inFlight \ {b})

AckArrives ==
    /\ acks # <<>> /\ acks' = Tail(acks)
    /\ \E b \in inFlight :
        /\ b.id = Head(acks).id
        /\ IF Head(acks).accepted THEN Accepted(b) ELSE Refused(b)
    /\ UNCHANGED <<disk, up, serverVars, stored, twice, unsaved, unlanded, forgotten, troubles>>

(* The socket dies: what is in flight is forgotten, to be sent again under  *)
(* new ids; frames and answers on it are lost.  Appends go on.              *)
(* Mutant: a lost socket leaves its batches in flight. *)
HangupKeeps ==
    /\ up' = FALSE
    /\ wire' = <<>>
    /\ acks' = <<>>
    /\ asked' = {}
    /\ UNCHANGED inFlight

Hangup ==
    /\ up' = FALSE
    /\ inFlight' = {}
    /\ wire' = <<>>
    /\ acks' = <<>>
    /\ asked' = {}

Drop ==
    /\ up /\ troubles < MaxTroubles
    /\ Hangup
    /\ troubles' = troubles + 1
    /\ UNCHANGED <<seqs, spool, disk, queued, seq, announced, sent,
                   writable, seen, loop, chain, historyVars>>

(* loadSpool of a new process: the file, what a power cut in the middle of  *)
(* its rewrite left of it, or nothing on a box whose home is in memory.     *)
(* The numbering goes on after the highest seq found, and starts again from *)
(* nothing when a cut line ends the reading.                                *)
Started(S) == CHOOSE n \in {seqs[l] : l \in S} \cup {0} : \A l \in S : seqs[l] <= n

AgentRestart ==
    /\ troubles < MaxTroubles
    /\ \/ /\ spool' \in {disk, {}}
          /\ seq' = Started(spool')
       \/ /\ queued
          /\ \E cut \in spool :
                /\ spool' = {l \in spool : l < cut}
                /\ seq' \in {0, Started(spool')}
    /\ disk' = spool'
    /\ unsaved' = unsaved \cup (spool \ spool')
    /\ queued' = FALSE /\ sent' = 0
    /\ Hangup
    /\ troubles' = troubles + 1
    /\ UNCHANGED <<seqs, announced, writable, seen, loop, chain, stored, twice, evicted, unlanded, forgotten>>

-----------------------------------------------------------------------------
(* The server.  Its thread works through a batch line by line; nothing else *)
(* of the server runs meanwhile.                                            *)

(* The answer reaches the socket the batch came on, if it is still open. *)
Answer(id, accepted) ==
    /\ acks' = IF id \in asked THEN Append(acks, [id |-> id, accepted |-> accepted]) ELSE acks
    /\ asked' = asked \ {id}

(* ingestAgentLogs up to the sink. *)
Receive ==
    /\ loop = NoLoop /\ wire # <<>>
    /\ LET b == Head(wire) IN
       IF writable
       THEN /\ loop' = [id |-> {b.id}, left |-> b.lines, fresh |-> {}]
            /\ asked' = asked \cup {b.id}
            /\ UNCHANGED acks
       ELSE /\ acks' = Append(acks, [id |-> b.id, accepted |-> FALSE])
            /\ UNCHANGED <<loop, asked>>
    /\ wire' = Tail(wire)
    /\ UNCHANGED <<boxVars, writable, seen, chain, historyVars, troubles>>

(* alreadySeen: a set that outgrows its memory loses its lowest half. *)
Remember(s) ==
    LET all == seen \cup {s}
    IN  IF Cardinality(all) <= SeqMemory THEN all
        ELSE {n \in all : Cardinality({k \in all : k < n}) >= SeqMemory \div 2}

Sift ==
    /\ \E l \in loop.left :
        /\ \A k \in loop.left : l <= k
        /\ IF seqs[l] \in seen
           THEN /\ loop' = [loop EXCEPT !.left = @ \ {l}]
                /\ UNCHANGED <<seen, forgotten>>
           ELSE /\ loop' = [loop EXCEPT !.left = @ \ {l}, !.fresh = @ \cup {l}]
                /\ seen' = Remember(seqs[l])
                /\ forgotten' = forgotten \cup ((seen \cup {seqs[l]}) \ seen')
    /\ UNCHANGED <<boxVars, wire, acks, writable, chain, asked,
                   stored, twice, evicted, unsaved, unlanded, troubles>>

(* What is new goes to the disk after the appends before it; a batch with   *)
(* nothing new is answered at once.                                         *)
Enqueue ==
    /\ loop.id # {} /\ loop.left = {}
    /\ loop' = NoLoop
    /\ \E id \in loop.id :
        IF loop.fresh = {}
        THEN Answer(id, TRUE) /\ UNCHANGED chain
        ELSE /\ chain' = Append(chain, [id |-> id, lines |-> loop.fresh])
             /\ UNCHANGED <<acks, asked>>
    /\ UNCHANGED <<boxVars, wire, writable, seen, historyVars, troubles>>

Land ==
    /\ loop = NoLoop /\ chain # <<>>
    /\ LET b == Head(chain) IN
       /\ stored' = stored \cup b.lines
       /\ twice' = twice \cup (stored \cap b.lines)
       /\ Answer(b.id, TRUE)
    /\ chain' = Tail(chain)
    /\ UNCHANGED <<boxVars, wire, writable, seen, loop, evicted, unsaved, unlanded, forgotten, troubles>>

(* An append that fails is answered with a refusal; its seqs stay seen. *)
(* Mutant: a failed append is answered like any other. *)
LandFailsAccepted ==
    /\ loop = NoLoop /\ chain # <<>>
    /\ Answer(Head(chain).id, TRUE)
    /\ chain' = Tail(chain)
    /\ UNCHANGED <<boxVars, wire, writable, seen, loop, historyVars, troubles>>

LandFails ==
    /\ loop = NoLoop /\ chain # <<>>
    /\ LET b == Head(chain) IN
       /\ unlanded' = unlanded \cup b.lines
       /\ Answer(b.id, FALSE)
    /\ chain' = Tail(chain)
    /\ UNCHANGED <<boxVars, wire, writable, seen, loop, stored, twice, evicted, unsaved, forgotten, troubles>>

Pending == loop.fresh \cup UNION {b.lines : b \in Elems(chain)}

(* A new server process: the seqs it had seen and the appends it had not    *)
(* done are gone, and it finds out anew whether it can write.               *)
NewServer ==
    /\ Hangup
    /\ seen' = {} /\ loop' = NoLoop /\ chain' = <<>>
    /\ unlanded' = unlanded \cup Pending
    /\ forgotten' = forgotten \cup seen
    /\ UNCHANGED <<seqs, spool, disk, queued, seq, announced, sent, stored, twice, evicted, unsaved>>

ServerRestart ==
    /\ troubles < MaxTroubles /\ troubles' = troubles + 1
    /\ writable' \in BOOLEAN
    /\ NewServer

(* An operator mends the volume and starts the server again. *)
Mend ==
    /\ ~writable /\ writable' = TRUE
    /\ NewServer
    /\ UNCHANGED troubles

-----------------------------------------------------------------------------
Init ==
    /\ seqs = <<>> /\ spool = {} /\ disk = {} /\ queued = FALSE /\ seq = 0
    /\ inFlight = {} /\ up = FALSE /\ announced = FALSE /\ sent = 0
    /\ wire = <<>> /\ acks = <<>>
    /\ writable \in BOOLEAN
    /\ seen = {} /\ loop = NoLoop /\ chain = <<>> /\ asked = {}
    /\ stored = {} /\ twice = {} /\ evicted = {} /\ unsaved = {} /\ unlanded = {}
    /\ forgotten = {}
    /\ troubles = 0

(* What happens on any day: the network drops, the spool overflows, the     *)
(* volume is found unwritable and mended,                                   *)
CalmNext ==
    \/ Write \/ Drain \/ Minute \/ Flush \/ Connect \/ AckArrives \/ Drop
    \/ Receive \/ Sift \/ Enqueue \/ Land \/ Mend

(* and what must not be assumed away: crashes, and disks that fail. *)
FaultNext == AgentRestart \/ FlushFails \/ ServerRestart \/ LandFails

Spec     == Init /\ [][CalmNext \/ FaultNext]_vars
CalmSpec == Init /\ [][CalmNext]_vars

(* The agent reconnects and its timers fire, the server works and its disk   *)
(* answers, answers on an open socket arrive, and somebody mends an          *)
(* unwritable volume.                                                       *)
Fairness ==
    /\ WF_vars(Connect \/ Drain \/ Minute)
    /\ WF_vars(Receive \/ Sift \/ Enqueue \/ Land)
    /\ WF_vars(AckArrives)
    /\ WF_vars(Mend)

-----------------------------------------------------------------------------
(* Properties *)

SameSeq(l) == \E k \in Written : k # l /\ seqs[k] = seqs[l]

(* No line vanishes: whatever drops, crashes, failed appends and lost acks  *)
(* there are, a line the box ever spooled is still spooled, stored, or on   *)
(* its way to the disk, unless it was pushed out of a full spool, was not   *)
(* in the file a new process read, was in an append that did not happen, or *)
(* shares its seq with another line.                                        *)
Accounted ==
    \A l \in Written :
        \/ l \in spool \cup stored \cup Pending
        \/ l \in evicted \cup unsaved \cup unlanded
        \/ SameSeq(l)

(* The memory of seqs is what keeps a log free of repeats: a line is stored *)
(* a second time only if the server forgot its seq in between, because      *)
(* newer ones pushed it out of the memory or its process ended.            *)
RepeatsForgotten == \A l \in twice : seqs[l] \in forgotten

(* The queues, memories and files hold what they should, no line vanishes   *)
(* unaccounted, and none is stored twice while its seq is remembered.       *)
LinesKept == TypeOK /\ Accounted /\ RepeatsForgotten

(* A restart does not give a line the seq of one already stored. *)
SeqsFresh ==
    \A l \in Written, k \in stored : l # k => seqs[l] # seqs[k]
=============================================================================
